--------------------------- MODULE AuditLogProofs ---------------------------
(***************************************************************************)
(* What holds of the audit log for every limit, every number of files,     *)
(* lines, processes and records cut short.  Most of it is about where a    *)
(* line is: a rename takes a file as it is to another number, so the       *)
(* places of the lines change and their order does not.                    *)
(***************************************************************************)
EXTENDS AuditLog, FiniteSetTheorems, TLAPS

Top == IF MaxFiles = 0 THEN 1 ELSE MaxFiles

Rotating(w) == pc[w] \in {"probe", "rename"}

\* rotateAuditFile moves files within those it may
IndexInv == \A w \in Writers : Rotating(w) => index[w] \in 0 .. Highest

\* lines have names of their own, those being recorded among them
NameInv ==
    /\ \A i \in DOMAIN written : written[i].id \in 1 .. offered
    /\ \A i, j \in DOMAIN written : i # j => written[i].id # written[j].id
    /\ \A w \in Writers : pc[w] # "idle" =>
        /\ line[w] \in Lines /\ line[w].id \in 1 .. offered
        /\ \A i \in DOMAIN written : written[i].id # line[w].id
        /\ \A v \in Writers : v # w /\ pc[v] # "idle" => line[v].id # line[w].id

\* NoLineTwice, file by file
Positions(f) == DOMAIN disk[f].lines
Recorded == \A f \in DOMAIN disk : \A i \in Positions(f) :
    \E n \in DOMAIN written : written[n] = disk[f].lines[i]
Apart == \A f, g \in DOMAIN disk : \A i \in Positions(f), j \in Positions(g) :
    disk[f].lines[i] = disk[g].lines[j] => f = g /\ i = j
Precedes(history, l, m) ==
    \E i, j \in DOMAIN history : i < j /\ history[i] = l /\ history[j] = m
InOrder == \A f \in DOMAIN disk : \A i, j \in Positions(f) :
    i < j => Precedes(written, disk[f].lines[i], disk[f].lines[j])

SharedInv == TypeOK /\ IndexInv /\ NameInv /\ Recorded /\ Apart /\ InOrder

-----------------------------------------------------------------------------
(* One process.                                                            *)

\* what the system calls before this one have seen still holds
Undisturbed(w) ==
    /\ pc[w] = "stat" => 0 \in DOMAIN disk
    /\ pc[w] = "rename" => index[w] \in DOMAIN disk
    /\ Rotating(w) /\ index[w] < Highest => Target(w) \notin DOMAIN disk
    /\ pc[w] = "append" /\ 0 \in DOMAIN disk => disk[0].size + line[w].size <= MaxBytes

Small(file) == file.size <= MaxBytes \/ Len(file.lines) = 1

Holds(files, l) == \E f \in DOMAIN files : \E i \in DOMAIN files[f].lines : files[f].lines[i] = l

\* KeptIsLatest, file by file
Latest ==
    /\ \A i, j \in DOMAIN written : i < j /\ Holds(disk, written[i]) => Holds(disk, written[j])
    /\ \A f, g \in DOMAIN disk : \A i \in Positions(f), j \in Positions(g) :
        f > g => Precedes(written, disk[f].lines[i], disk[g].lines[j])

\* nothing is overwritten but the oldest file, which stays from then on
LostAtTop == (\E i \in DOMAIN written : ~Holds(disk, written[i])) => Top \in DOMAIN disk

\* numbers without a file, below one with
Above(n) == \E f \in DOMAIN disk : f > n
Holes == {n \in Files : n \notin DOMAIN disk /\ Above(n)}

\* a rotation under way makes room by one hole, a record cut short leaves it behind
Room(w) ==
    IF \/ Rotating(w) /\ index[w] < Highest /\ Above(index[w])
       \/ pc[w] = "append" /\ 0 \notin DOMAIN disk
    THEN 1 ELSE 0
HoleInv(w) == Cardinality(Holes) <= crashes + Room(w)

AloneInv(w) ==
    Undisturbed(w) /\ (\A f \in DOMAIN disk : Small(disk[f])) /\ Latest /\ LostAtTop /\ HoleInv(w)

IInv == SharedInv /\ \A w \in Writers : Writers = {w} => AloneInv(w)

-----------------------------------------------------------------------------
\* The numbers a deployment is made of.
LEMMA Settings ==
    ASSUME TypeOK
    PROVE  /\ MaxFiles \in Nat /\ MaxBytes \in Nat
           /\ Top \in Nat /\ Files = 0 .. Top /\ Top >= MaxFiles
           /\ Highest \in Nat /\ Highest + 1 = Top
           /\ deployment.records \in Nat /\ deployment.crashes \in Nat
           /\ deployment.sizes \subseteq Nat
<1>1. deployment \in Deployments BY DEF TypeOK
<1>2. MaxFiles \in Nat /\ MaxBytes \in Nat
  BY <1>1, DeploymentsAssumption DEF MaxFiles, MaxBytes
<1>3. deployment.records \in Nat /\ deployment.crashes \in Nat /\ deployment.sizes \subseteq Nat
  BY <1>1, DeploymentsAssumption
<1> QED BY <1>2, <1>3 DEF Top, Files, Highest

\* What a rename leaves: the same files, one of them under another number.
LEMMA RenameMoves ==
    ASSUME NEW f \in DOMAIN disk, NEW t, t # f, Rename(f, t)
    PROVE  /\ DOMAIN disk' = (DOMAIN disk \ {f}) \cup {t}
           /\ disk'[t] = disk[f]
           /\ \A x \in DOMAIN disk' : x # t => x \in DOMAIN disk /\ x # f /\ disk'[x] = disk[x]
           /\ \A x \in DOMAIN disk : x # t /\ x # f => x \in DOMAIN disk' /\ disk'[x] = disk[x]
BY DEF Rename

\* What an append leaves: the line at the end of file 0, all others where they were.
LEMMA AppendAdds ==
    ASSUME TypeOK, NEW w \in Writers, line[w] \in Lines, AppendLine(w)
    PROVE  LET old == IF 0 \in DOMAIN disk THEN disk[0] ELSE [lines |-> <<>>, size |-> 0]
           IN  /\ old \in [lines : Seq(Lines), size : Nat]
               /\ DOMAIN disk' = DOMAIN disk \cup {0}
               /\ disk'[0].lines = Append(old.lines, line[w])
               /\ disk'[0].size = old.size + line[w].size
               /\ disk'[0] \in [lines : Seq(Lines), size : Nat]
               /\ \A f \in DOMAIN disk : f # 0 => disk'[f] = disk[f]
<1> DEFINE old == IF 0 \in DOMAIN disk THEN disk[0] ELSE [lines |-> <<>>, size |-> 0]
           longer == [lines |-> Append(old.lines, line[w]), size |-> old.size + line[w].size]
<1>1. old \in [lines : Seq(Lines), size : Nat] BY DEF TypeOK
<1>2. disk' = [x \in DOMAIN disk \cup {0} |-> IF x = 0 THEN longer ELSE disk[x]]
  BY DEF AppendLine
<1>3. line[w].size \in Nat BY Settings DEF Lines
<1>4. longer \in [lines : Seq(Lines), size : Nat]
  BY <1>1, <1>3
<1> HIDE DEF old
<1>5. disk'[0] = longer /\ DOMAIN disk' = DOMAIN disk \cup {0}
  BY <1>2
<1> QED BY <1>1, <1>2, <1>4, <1>5 DEF old

-----------------------------------------------------------------------------
(* Any number of processes.                                                *)

\* The steps that leave the files and the history alone.
Quiet(w) == Record(w) \/ Exists(w) \/ Stat(w) \/ Probe(w) \/ Throw(w) \/ Crash(w)

LEMMA QuietIsQuiet ==
    ASSUME NEW w \in Writers, Quiet(w) PROVE UNCHANGED <<disk, written>>
BY DEF Quiet, Record, Exists, Stat, Probe, Throw, Crash

\* A rotation goes down from Highest to 0.
LEMMA AdvanceKeeps ==
    ASSUME TypeOK, IndexInv, NEW w \in Writers, Rotating(w), Advance(w), deployment' = deployment
    PROVE  /\ pc' \in [Writers -> {"idle", "exists", "stat", "probe", "rename", "append"}]
           /\ index' \in [Writers -> Files]
           /\ IndexInv'
<1>1. index[w] \in 0 .. Highest /\ Highest \in Nat /\ Files = 0 .. Highest + 1
  BY Settings DEF IndexInv
<1>2. CASE index[w] = 0
  BY <1>2 DEF TypeOK, Advance, Goto, IndexInv, Rotating, Writers, Files, Highest, MaxFiles
<1>3. CASE index[w] # 0
  <2>1. pc' = [pc EXCEPT ![w] = "probe"] /\ index' = [index EXCEPT ![w] = @ - 1]
    BY <1>3 DEF Advance, Goto
  <2>2. index[w] - 1 \in 0 .. Highest BY <1>1, <1>3
  <2>3. index[w] - 1 \in Files BY <1>1, <2>2
  <2>4. index' \in [Writers -> Files] BY <2>1, <2>3 DEF TypeOK
  <2>5. ASSUME NEW v \in Writers, Rotating(v)' PROVE index'[v] \in 0 .. Highest
    BY <2>1, <2>2, <2>5 DEF TypeOK, IndexInv, Rotating
  <2>6. Files' = Files /\ Writers' = Writers /\ Highest' = Highest
    BY DEF Files, Writers, Highest, MaxFiles
  <2> QED BY <2>1, <2>4, <2>5, <2>6 DEF TypeOK, IndexInv
<1> QED BY <1>2, <1>3

\* Each variable stays in its range, and no file gets a number beyond the highest.
LEMMA StepType == ASSUME SharedInv, Next PROVE TypeOK' /\ IndexInv'
<1> USE DEF SharedInv
<1>1. deployment' = deployment BY DEF Next
<1>2. PICK w \in Writers : Step(w) BY DEF Next
<1>3. /\ Writers' = Writers /\ Files' = Files /\ Lines' = Lines /\ Highest' = Highest
      /\ MaxFiles' = MaxFiles
  BY <1>1 DEF Writers, Files, Lines, Highest, MaxFiles
<1>4. Highest \in Nat /\ Files = 0 .. Highest + 1 /\ Highest \in Files
  BY Settings
<1>5. CASE Record(w)
  <2>1. PICK s \in deployment.sizes : line' = [line EXCEPT ![w] = [id |-> offered + 1, size |-> s]]
    BY <1>5 DEF Record
  <2>2. [id |-> offered + 1, size |-> s] \in Lines BY Settings DEF Lines, TypeOK
  <2>3. line' \in [Writers -> Lines \cup {NoLine}] BY <2>1, <2>2 DEF TypeOK
  <2>4. offered' \in 0 .. deployment.records BY <1>5, Settings DEF Record, TypeOK
  <2>5. pc' = [pc EXCEPT ![w] = "exists"] /\ UNCHANGED <<disk, index, written, crashes>>
    BY <1>5 DEF Record, Goto
  <2> QED BY <1>1, <1>3, <2>3, <2>4, <2>5 DEF TypeOK, IndexInv, Rotating, NoLine
<1>6. CASE Exists(w)
  BY <1>1, <1>3, <1>6 DEF Exists, Goto, TypeOK, IndexInv, Rotating, NoLine
<1>7. CASE Stat(w)
  <2>1. CASE TooLarge(w)
    <3>1. /\ pc' = [pc EXCEPT ![w] = "probe"] /\ index' = [index EXCEPT ![w] = Highest]
          /\ UNCHANGED <<disk, line, offered, written, crashes>>
      BY <1>7, <2>1 DEF Stat, Goto
    <3> QED BY <1>1, <1>3, <1>4, <3>1 DEF TypeOK, IndexInv, Rotating, NoLine
  <2>2. CASE ~TooLarge(w)
    BY <1>1, <1>3, <1>7, <2>2 DEF Stat, Goto, TypeOK, IndexInv, Rotating, NoLine
  <2> QED BY <2>1, <2>2
<1>8. CASE Probe(w)
  <2>1. UNCHANGED <<disk, line, offered, written, crashes>> BY <1>8 DEF Probe
  <2>2. CASE index[w] \in DOMAIN disk
    BY <1>1, <1>3, <1>8, <2>1, <2>2 DEF Probe, Goto, TypeOK, IndexInv, Rotating, NoLine
  <2>3. CASE index[w] \notin DOMAIN disk
    <3>1. Rotating(w) /\ Advance(w) BY <1>8, <2>3 DEF Probe, Rotating
    <3> QED BY <1>1, <1>3, <2>1, <3>1, AdvanceKeeps DEF TypeOK, NoLine
  <2> QED BY <2>2, <2>3
<1>9. CASE Move(w)
  <2>1. /\ Rotating(w) /\ Advance(w) /\ index[w] \in DOMAIN disk
        /\ Rename(index[w], index[w] + 1)
        /\ UNCHANGED <<line, offered, written, crashes>>
    BY <1>9 DEF Move, Rotating, Target
  <2>2. index[w] \in 0 .. Highest BY <2>1 DEF IndexInv
  <2>3. index[w] + 1 \in Files /\ index[w] + 1 # index[w] BY <1>4, <2>2
  <2>4. /\ DOMAIN disk' \subseteq Files
        /\ \A f \in DOMAIN disk' : disk'[f] \in [lines : Seq(Lines), size : Nat]
    <3> DEFINE f == index[w]
               t == index[w] + 1
    <3>1. f \in DOMAIN disk /\ t \in Files /\ t # f /\ Rename(f, t) BY <2>1, <2>3
    <3> HIDE DEF f, t
    <3>2. /\ DOMAIN disk' = (DOMAIN disk \ {f}) \cup {t} /\ disk'[t] = disk[f]
          /\ \A x \in DOMAIN disk' : x # t => x \in DOMAIN disk /\ disk'[x] = disk[x]
      BY <3>1, RenameMoves
    <3> QED BY <3>1, <3>2 DEF TypeOK
  <2> QED BY <1>1, <1>3, <2>1, <2>4, AdvanceKeeps DEF TypeOK, NoLine
<1>10. CASE AppendLine(w)
  <2>1. line[w] \in Lines BY <1>10 DEF NameInv, AppendLine
  <2>2. 0 \in Files BY <1>4
  <2>3. /\ DOMAIN disk' \subseteq Files
        /\ \A f \in DOMAIN disk' : disk'[f] \in [lines : Seq(Lines), size : Nat]
    BY <1>10, <2>1, <2>2, AppendAdds DEF TypeOK
  <2>4. written' \in Seq(Lines) BY <1>10, <2>1 DEF AppendLine, TypeOK
  <2>5. pc' = [pc EXCEPT ![w] = "idle"] /\ UNCHANGED <<index, line, offered, crashes>>
    BY <1>10 DEF AppendLine, Goto
  <2> QED BY <1>1, <1>3, <2>3, <2>4, <2>5 DEF TypeOK, IndexInv, Rotating, NoLine
<1>11. CASE Throw(w)
  BY <1>1, <1>3, <1>11 DEF Throw, Goto, TypeOK, IndexInv, Rotating, NoLine
<1>12. CASE Crash(w)
  <2>1. crashes' \in 0 .. deployment.crashes BY <1>12, Settings DEF Crash, TypeOK
  <2>2. pc' = [pc EXCEPT ![w] = "idle"] /\ UNCHANGED <<disk, index, line, offered, written>>
    BY <1>12 DEF Crash, Goto
  <2> QED BY <1>1, <1>3, <2>1, <2>2 DEF TypeOK, IndexInv, Rotating, NoLine
<1> QED BY <1>2, <1>5, <1>6, <1>7, <1>8, <1>9, <1>10, <1>11, <1>12 DEF Step

\* Names are given once: offered counts the lines.
LEMMA StepNames == ASSUME SharedInv, Next PROVE NameInv'
<1> USE DEF SharedInv
<1>1. /\ deployment' = deployment /\ Writers' = Writers /\ Lines' = Lines
  BY DEF Next, Writers, Lines
<1>2. PICK w \in Writers : Step(w) BY DEF Next
<1>3. offered \in Nat BY Settings DEF TypeOK
<1>4. CASE Record(w)
  <2>1. PICK s \in deployment.sizes : line' = [line EXCEPT ![w] = [id |-> offered + 1, size |-> s]]
    BY <1>4 DEF Record
  <2>2. offered' = offered + 1 /\ written' = written /\ pc' = [pc EXCEPT ![w] = "exists"]
    BY <1>4 DEF Record, Goto
  <2>3. [id |-> offered + 1, size |-> s] \in Lines BY <1>3, Settings DEF Lines
  <2>4. /\ line'[w].id = offered + 1 /\ line'[w] \in Lines
        /\ \A v \in Writers : v # w => line'[v] = line[v] /\ pc'[v] = pc[v]
    BY <2>1, <2>2, <2>3 DEF TypeOK
  <2>5. \A l \in Nat : l \in 1 .. offered => l \in 1 .. offered' /\ l # offered + 1
    BY <1>3, <2>2
  <2> QED BY <1>1, <1>3, <2>2, <2>4, <2>5 DEF NameInv
<1>5. CASE AppendLine(w)
  <2>1. /\ pc[w] = "append" /\ written' = Append(written, line[w])
        /\ pc' = [pc EXCEPT ![w] = "idle"] /\ UNCHANGED <<line, offered>>
    BY <1>5 DEF AppendLine, Goto
  <2>2. written \in Seq(Lines) BY DEF TypeOK
  <2>3. /\ DOMAIN written' = 1 .. Len(written) + 1 /\ DOMAIN written = 1 .. Len(written)
        /\ Len(written) \in Nat
        /\ \A i \in DOMAIN written : written'[i] = written[i]
        /\ written'[Len(written) + 1] = line[w]
    BY <2>1, <2>2
  <2>4. \A v \in Writers : pc'[v] # "idle" => v # w /\ pc[v] # "idle"
    BY <2>1 DEF TypeOK
  <2>5. \A i \in DOMAIN written' : i \in DOMAIN written \/ i = Len(written) + 1
    BY <2>3
  <2> QED BY <1>1, <2>1, <2>3, <2>4, <2>5 DEF NameInv
<1>6. CASE Exists(w) \/ Stat(w) \/ Probe(w) \/ Move(w) \/ Throw(w) \/ Crash(w)
  <2>1. UNCHANGED <<line, offered, written>> /\ pc[w] # "idle"
    BY <1>6 DEF Exists, Stat, Probe, Move, Throw, Crash
  <2>2. \E label : pc' = [pc EXCEPT ![w] = label]
    BY <1>6 DEF Exists, Stat, Probe, Move, Throw, Crash, Advance, Goto
  <2>3. \A v \in Writers : pc'[v] # "idle" => pc[v] # "idle"
    BY <2>1, <2>2 DEF TypeOK
  <2> QED BY <1>1, <2>1, <2>3 DEF NameInv
<1> QED BY <1>2, <1>4, <1>5, <1>6 DEF Step

\* What was recorded before stays so.
LEMMA PrecedesStays ==
    ASSUME NEW h \in Seq(Lines), NEW x, NEW l, NEW m, Precedes(h, l, m)
    PROVE  Precedes(Append(h, x), l, m)
BY DEF Precedes

\* The place of the next line, and what an append does to the places and the history.
NewAt == IF 0 \in DOMAIN disk THEN Len(disk[0].lines) + 1 ELSE 1

LEMMA AppendPlaces ==
    ASSUME SharedInv, NEW w \in Writers, AppendLine(w)
    PROVE  /\ 0 \in DOMAIN disk' /\ NewAt \in Positions(0)' /\ disk'[0].lines[NewAt] = line[w]
           /\ \A f \in DOMAIN disk : \A i \in Positions(f) :
                /\ f \in DOMAIN disk' /\ i \in Positions(f)'
                /\ disk'[f].lines[i] = disk[f].lines[i]
           /\ \A f \in DOMAIN disk' : \A i \in Positions(f)' :
                \/ f \in DOMAIN disk /\ i \in Positions(f) /\ disk'[f].lines[i] = disk[f].lines[i]
                \/ f = 0 /\ i = NewAt /\ disk'[f].lines[i] = line[w]
           /\ \A i \in Positions(0)' : i \in Int /\ i <= NewAt
           /\ written' = Append(written, line[w]) /\ written \in Seq(Lines)
           /\ DOMAIN written' = DOMAIN written \cup {Len(written) + 1}
           /\ written'[Len(written) + 1] = line[w]
           /\ \A i \in DOMAIN written : /\ written'[i] = written[i] /\ written[i] # line[w]
                                        /\ i \in Int /\ i < Len(written) + 1
<1> DEFINE old == IF 0 \in DOMAIN disk THEN disk[0] ELSE [lines |-> <<>>, size |-> 0]
<1>1. line[w] \in Lines /\ \A i \in DOMAIN written : written[i] # line[w]
  BY DEF SharedInv, NameInv, AppendLine
<1>2. /\ old \in [lines : Seq(Lines), size : Nat]
      /\ DOMAIN disk' = DOMAIN disk \cup {0}
      /\ disk'[0].lines = Append(old.lines, line[w])
      /\ \A f \in DOMAIN disk : f # 0 => disk'[f] = disk[f]
  BY <1>1, AppendAdds DEF SharedInv
<1>3. written \in Seq(Lines) /\ written' = Append(written, line[w])
  BY DEF SharedInv, TypeOK, AppendLine
<1>4. /\ DOMAIN written' = DOMAIN written \cup {Len(written) + 1}
      /\ written'[Len(written) + 1] = line[w]
      /\ \A i \in DOMAIN written : written'[i] = written[i] /\ i \in Int /\ i < Len(written) + 1
  BY <1>3
<1>5. NewAt = Len(old.lines) + 1 BY DEF NewAt
<1>6. /\ DOMAIN disk'[0].lines = DOMAIN old.lines \cup {NewAt}
      /\ disk'[0].lines[NewAt] = line[w]
      /\ \A i \in DOMAIN old.lines : disk'[0].lines[i] = old.lines[i] /\ i \in Int /\ i < NewAt
      /\ NewAt \in Int
  BY <1>1, <1>2, <1>5
<1>7. \A i \in DOMAIN old.lines : 0 \in DOMAIN disk /\ old.lines = disk[0].lines
  OBVIOUS
<1>8. 0 \in DOMAIN disk => old.lines = disk[0].lines
  OBVIOUS
<1> HIDE DEF old
<1>9. /\ 0 \in DOMAIN disk' /\ NewAt \in Positions(0)' /\ disk'[0].lines[NewAt] = line[w]
      /\ \A i \in Positions(0)' : i \in Int /\ i <= NewAt
  BY <1>2, <1>6 DEF Positions
<1>10. \A f \in DOMAIN disk : \A i \in Positions(f) :
         /\ f \in DOMAIN disk' /\ i \in Positions(f)'
         /\ disk'[f].lines[i] = disk[f].lines[i]
  BY <1>2, <1>6, <1>8 DEF Positions
<1>11. \A f \in DOMAIN disk' : \A i \in Positions(f)' :
         \/ f \in DOMAIN disk /\ i \in Positions(f) /\ disk'[f].lines[i] = disk[f].lines[i]
         \/ f = 0 /\ i = NewAt /\ disk'[f].lines[i] = line[w]
  BY <1>2, <1>6, <1>7 DEF Positions
<1> QED BY <1>1, <1>3, <1>4, <1>9, <1>10, <1>11

\* Where the files are, the lines in them stay as they are.
LEMMA StepPlaces == ASSUME SharedInv, Next PROVE (Recorded /\ Apart /\ InOrder)'
<1> USE DEF SharedInv
<1>1. PICK w \in Writers : Step(w) BY DEF Next
<1>2. written \in Seq(Lines) BY DEF TypeOK
<1>3. CASE Quiet(w)
  <2>1. UNCHANGED <<disk, written>> BY <1>3, QuietIsQuiet
  <2> QED BY <2>1 DEF Recorded, Apart, InOrder, Positions
<1>4. CASE Move(w)
  <2> DEFINE f == index[w]
             t == index[w] + 1
  <2>1. f \in 0 .. Highest BY <1>4 DEF Move, IndexInv, Rotating
  <2>2. f \in DOMAIN disk /\ t # f /\ Rename(f, t) /\ written' = written
    BY <1>4, <2>1, Settings DEF Move, Target
  <2> HIDE DEF f, t
  <2>3. /\ DOMAIN disk' = (DOMAIN disk \ {f}) \cup {t} /\ disk'[t] = disk[f]
        /\ \A x \in DOMAIN disk' : x # t => x \in DOMAIN disk /\ x # f /\ disk'[x] = disk[x]
    BY <2>2, RenameMoves
  <2>4. Recorded' BY <2>2, <2>3 DEF Recorded, Positions
  <2>5. Apart' BY <2>2, <2>3 DEF Apart, Positions
  <2>6. InOrder' BY <2>2, <2>3 DEF InOrder, Positions
  <2> QED BY <2>4, <2>5, <2>6
<1>5. CASE AppendLine(w)
  <2>1. \A f \in DOMAIN disk' : \A i \in Positions(f)' :
            \/ f \in DOMAIN disk /\ i \in Positions(f) /\ disk'[f].lines[i] = disk[f].lines[i]
            \/ f = 0 /\ i = NewAt /\ disk'[f].lines[i] = line[w]
    BY <1>5, AppendPlaces
  <2>2. /\ DOMAIN written' = DOMAIN written \cup {Len(written) + 1}
        /\ written'[Len(written) + 1] = line[w] /\ written' = Append(written, line[w])
        /\ \A i \in DOMAIN written : /\ written'[i] = written[i] /\ written[i] # line[w]
                                     /\ i \in Int /\ i < Len(written) + 1
    BY <1>5, AppendPlaces
  <2>3. Recorded' BY <2>1, <2>2 DEF Recorded
  <2>4. \A f \in DOMAIN disk : \A i \in Positions(f) : disk[f].lines[i] # line[w]
    BY <2>2 DEF Recorded
  <2>5. Apart' BY <2>1, <2>4 DEF Apart
  <2>6. InOrder'
    <3> SUFFICES ASSUME NEW f \in DOMAIN disk', NEW i \in Positions(f)', NEW j \in Positions(f)', i < j
                 PROVE  Precedes(written', disk'[f].lines[i], disk'[f].lines[j])
      BY DEF InOrder
    <3>1. f = 0 => i \in Int /\ j \in Int /\ i <= NewAt /\ j <= NewAt
      BY <1>5, AppendPlaces
    <3>2. f \in DOMAIN disk /\ i \in Positions(f) /\ disk'[f].lines[i] = disk[f].lines[i]
      <4>1. ~(f = 0 /\ i = NewAt) BY <3>1
      <4> QED BY <2>1, <4>1
    <3>3. CASE disk'[f].lines[j] = line[w]
      <4>1. PICK k \in DOMAIN written : written[k] = disk[f].lines[i] BY <3>2 DEF Recorded
      <4> QED BY <2>2, <3>2, <3>3, <4>1 DEF Precedes
    <3>4. CASE j \in Positions(f) /\ disk'[f].lines[j] = disk[f].lines[j]
      <4>1. Precedes(written, disk[f].lines[i], disk[f].lines[j]) BY <3>2, <3>4 DEF InOrder
      <4> QED BY <1>2, <2>2, <3>2, <3>4, <4>1, PrecedesStays
    <3> QED BY <2>1, <3>3, <3>4
  <2> QED BY <2>3, <2>5, <2>6
<1> QED BY <1>1, <1>3, <1>4, <1>5 DEF Step, Quiet

-----------------------------------------------------------------------------
(* One process: nobody comes between its system calls.                     *)

\* Where a rename of it takes a file: into a hole, or over the oldest one.
LEMMA MoveIntoFree ==
    ASSUME SharedInv, NEW w \in Writers, AloneInv(w), Move(w)
    PROVE  /\ index[w] \in DOMAIN disk /\ index[w] \in 0 .. Highest
           /\ Rename(index[w], index[w] + 1)
           /\ index[w] + 1 \in DOMAIN disk => index[w] = Highest /\ index[w] + 1 = Top
BY Settings DEF SharedInv, Move, IndexInv, Rotating, AloneInv, Undisturbed, Target

\* What it has seen of the files stays so.
LEMMA StepUndisturbed ==
    ASSUME SharedInv, NEW w \in Writers, Writers = {w}, AloneInv(w), Next
    PROVE  Undisturbed(w)'
<1>1. Step(w) /\ deployment' = deployment BY DEF Next
<1>2. MaxBytes' = MaxBytes /\ Highest' = Highest BY <1>1 DEF MaxBytes, Highest, MaxFiles
<1>3. pc \in [Writers -> {"idle", "exists", "stat", "probe", "rename", "append"}]
      /\ index \in [Writers -> Files]
  BY DEF SharedInv, TypeOK
<1>4. Undisturbed(w) BY DEF AloneInv
<1>5. CASE Record(w) BY <1>3, <1>5 DEF Record, Goto, Undisturbed, Rotating
<1>6. CASE Exists(w) BY <1>3, <1>6 DEF Exists, Goto, Undisturbed, Rotating
<1>7. CASE Stat(w)
  <2>1. disk' = disk /\ line' = line BY <1>7 DEF Stat
  <2>2. CASE TooLarge(w)
    <3>1. pc'[w] = "probe" /\ index'[w] = Highest BY <1>3, <1>7, <2>2 DEF Stat, Goto
    <3>2. ~(Highest < Highest) BY Settings DEF SharedInv
    <3> QED BY <1>2, <3>1, <3>2 DEF Undisturbed, Rotating
  <2>3. CASE ~TooLarge(w)
    <3>1. pc'[w] = "append" BY <1>3, <1>7, <2>3 DEF Stat, Goto
    <3>2. 0 \in DOMAIN disk => disk[0].size + line[w].size <= MaxBytes
      <4>1. pc[w] = "stat" BY <1>7 DEF Stat
      <4>2. line[w] \in Lines BY <4>1 DEF SharedInv, NameInv
      <4>3. line[w].size \in Nat BY <4>2, Settings DEF Lines, SharedInv
      <4>4. 0 \in DOMAIN disk => disk[0].size \in Nat BY DEF SharedInv, TypeOK
      <4> QED BY <2>3, <4>3, <4>4, Settings DEF TooLarge, SharedInv
    <3> QED BY <1>2, <2>1, <3>1, <3>2 DEF Undisturbed, Rotating
  <2> QED BY <2>2, <2>3
<1>8. CASE Probe(w)
  <2>1. disk' = disk /\ pc[w] = "probe" BY <1>8 DEF Probe
  <2>2. CASE index[w] \in DOMAIN disk
    <3>1. pc'[w] = "rename" /\ index' = index BY <1>3, <1>8, <2>2 DEF Probe, Goto
    <3> QED BY <1>2, <1>4, <2>1, <2>2, <3>1 DEF Undisturbed, Rotating, Target
  <2>3. CASE index[w] \notin DOMAIN disk /\ index[w] = 0
    <3>1. pc'[w] = "append" BY <1>3, <1>8, <2>3 DEF Probe, Goto, Advance
    <3> QED BY <2>1, <2>3, <3>1 DEF Undisturbed, Rotating
  <2>4. CASE index[w] \notin DOMAIN disk /\ index[w] # 0
    <3>1. pc'[w] = "probe" /\ index'[w] = index[w] - 1
      BY <1>3, <1>8, <2>4 DEF Probe, Goto, Advance
    <3>2. index'[w] + 1 = index[w] BY <1>3, <3>1, Settings DEF SharedInv
    <3> QED BY <2>1, <2>4, <3>1, <3>2 DEF Undisturbed, Rotating, Target
  <2> QED BY <2>2, <2>3, <2>4
<1>9. CASE Move(w)
  <2> DEFINE f == index[w]
  <2>1. f \in DOMAIN disk /\ f \in 0 .. Highest /\ Rename(f, f + 1) BY <1>9, MoveIntoFree
  <2>2. DOMAIN disk' = (DOMAIN disk \ {f}) \cup {f + 1} BY <2>1 DEF Rename
  <2>3. f \notin DOMAIN disk' BY <2>1, <2>2
  <2>4. CASE f = 0
    <3>1. pc'[w] = "append" BY <1>3, <1>9, <2>4 DEF Move, Goto, Advance
    <3> QED BY <2>3, <2>4, <3>1 DEF Undisturbed, Rotating
  <2>5. CASE f # 0
    <3>1. pc'[w] = "probe" /\ index'[w] = f - 1 BY <1>3, <1>9, <2>5 DEF Move, Goto, Advance
    <3>2. index'[w] + 1 = f BY <2>1, <3>1, Settings DEF SharedInv
    <3> QED BY <2>3, <3>1, <3>2 DEF Undisturbed, Rotating, Target
  <2> QED BY <2>4, <2>5
<1>10. CASE AppendLine(w) \/ Throw(w) \/ Crash(w)
  <2>1. pc'[w] = "idle" BY <1>3, <1>10 DEF AppendLine, Throw, Crash, Goto
  <2> QED BY <2>1 DEF Undisturbed, Rotating
<1> QED BY <1>1, <1>5, <1>6, <1>7, <1>8, <1>9, <1>10 DEF Step

\* A file grows within the limit, or is a single line.
LEMMA StepSmall ==
    ASSUME SharedInv, NEW w \in Writers, Writers = {w}, AloneInv(w), Next
    PROVE  \A f \in DOMAIN disk' : Small(disk[f])'
<1>1. Step(w) /\ deployment' = deployment BY DEF Next
<1>2. MaxBytes' = MaxBytes BY <1>1 DEF MaxBytes
<1>3. \A f \in DOMAIN disk : Small(disk[f]) BY DEF AloneInv
<1>4. CASE Quiet(w) BY <1>2, <1>3, <1>4, QuietIsQuiet DEF Small
<1>5. CASE Move(w)
  <2> DEFINE f == index[w]
             t == index[w] + 1
  <2>1. f \in DOMAIN disk /\ t # f /\ Rename(f, t)
    BY <1>5, MoveIntoFree, Settings DEF SharedInv
  <2> HIDE DEF f, t
  <2>2. /\ DOMAIN disk' = (DOMAIN disk \ {f}) \cup {t} /\ disk'[t] = disk[f]
        /\ \A x \in DOMAIN disk' : x # t => x \in DOMAIN disk /\ disk'[x] = disk[x]
    BY <2>1, RenameMoves
  <2> QED BY <1>2, <1>3, <2>1, <2>2 DEF Small
<1>6. CASE AppendLine(w)
  <2> DEFINE old == IF 0 \in DOMAIN disk THEN disk[0] ELSE [lines |-> <<>>, size |-> 0]
  <2>1. line[w] \in Lines BY <1>6 DEF SharedInv, NameInv, AppendLine
  <2>2. /\ old \in [lines : Seq(Lines), size : Nat]
        /\ DOMAIN disk' = DOMAIN disk \cup {0}
        /\ disk'[0].lines = Append(old.lines, line[w])
        /\ disk'[0].size = old.size + line[w].size
        /\ \A f \in DOMAIN disk : f # 0 => disk'[f] = disk[f]
    BY <1>6, <2>1, AppendAdds DEF SharedInv
  <2>3. Small(disk[0])'
    <3>1. CASE 0 \in DOMAIN disk
      BY <1>2, <1>6, <2>2, <3>1 DEF Small, AloneInv, Undisturbed, AppendLine
    <3>2. CASE 0 \notin DOMAIN disk
      BY <2>2, <3>2 DEF Small
    <3> QED BY <3>1, <3>2
  <2> QED BY <1>2, <1>3, <2>2, <2>3 DEF Small
<1> QED BY <1>1, <1>4, <1>5, <1>6 DEF Step, Quiet

\* A line recorded before another stands before it in the history.
LEMMA PrecedesIs ==
    ASSUME NameInv, NEW i \in DOMAIN written, NEW j \in DOMAIN written,
           Precedes(written, written[i], written[j])
    PROVE  i < j
BY DEF NameInv, Precedes

\* Where the lines are after a rename of it: all that were, but those of the oldest file.
LEMMA MovePlaces ==
    ASSUME SharedInv, NEW w \in Writers, AloneInv(w), Move(w)
    PROVE  LET f == index[w]
               t == index[w] + 1
           IN  /\ f \in DOMAIN disk /\ f \in 0 .. Highest /\ t \in Int
               /\ DOMAIN disk' = (DOMAIN disk \ {f}) \cup {t} /\ disk'[t] = disk[f]
               /\ \A x \in DOMAIN disk' : x # t => x \in DOMAIN disk /\ x # f /\ disk'[x] = disk[x]
               /\ \A x \in DOMAIN disk : x # t /\ x # f => x \in DOMAIN disk' /\ disk'[x] = disk[x]
               /\ t \in DOMAIN disk => t = Top
               /\ DOMAIN disk \subseteq 0 .. Top
<1> DEFINE f == index[w]
           t == index[w] + 1
<1>1. /\ f \in DOMAIN disk /\ f \in 0 .. Highest /\ Rename(f, t) /\ t \in Int /\ t # f
      /\ t \in DOMAIN disk => t = Top
      /\ DOMAIN disk \subseteq 0 .. Top
  <2>1. DOMAIN disk \subseteq 0 .. Top BY Settings DEF SharedInv, TypeOK
  <2>2. f \in 0 .. Highest => t \in Int /\ t # f BY Settings DEF SharedInv
  <2> QED BY <2>1, <2>2, MoveIntoFree
<1> HIDE DEF f, t
<1>2. /\ DOMAIN disk' = (DOMAIN disk \ {f}) \cup {t} /\ disk'[t] = disk[f]
      /\ \A x \in DOMAIN disk' : x # t => x \in DOMAIN disk /\ x # f /\ disk'[x] = disk[x]
      /\ \A x \in DOMAIN disk : x # t /\ x # f => x \in DOMAIN disk' /\ disk'[x] = disk[x]
  BY <1>1, RenameMoves
<1> QED BY <1>1, <1>2 DEF f, t

\* What is on disk stays the latest part of the history, and in order.
LEMMA StepLatest ==
    ASSUME SharedInv, NEW w \in Writers, Writers = {w}, AloneInv(w), Next
    PROVE  Latest'
<1>1. Step(w) BY DEF Next
<1>2. Latest BY DEF AloneInv
<1>3. CASE Quiet(w)
  <2>1. UNCHANGED <<disk, written>> BY <1>3, QuietIsQuiet
  <2> QED BY <1>2, <2>1 DEF Latest, Holds, Positions
<1>4. CASE Move(w)
  <2> DEFINE f == index[w]
             t == index[w] + 1
             From(x) == IF x = t THEN f ELSE x
  <2>1. /\ f \in DOMAIN disk /\ f \in Int /\ t = f + 1
        /\ DOMAIN disk' = (DOMAIN disk \ {f}) \cup {t} /\ disk'[t] = disk[f]
        /\ \A x \in DOMAIN disk' : x # t => x \in DOMAIN disk /\ x # f /\ disk'[x] = disk[x]
        /\ \A x \in DOMAIN disk : x # t /\ x # f => x \in DOMAIN disk' /\ disk'[x] = disk[x]
        /\ t \in DOMAIN disk => t = Top
        /\ DOMAIN disk \subseteq 0 .. Top
    BY <1>4, MovePlaces
  <2>2. written' = written BY <1>4 DEF Move
  <2>3. Top \in Int BY Settings DEF SharedInv
  <2> HIDE DEF f, t
  <2>4. \A x \in DOMAIN disk' : From(x) \in DOMAIN disk /\ disk'[x] = disk[From(x)] /\ x \in Int
    BY <2>1, <2>3
  <2>5. ASSUME NEW i \in DOMAIN written, NEW j \in DOMAIN written, i < j, Holds(disk', written'[i])
        PROVE  Holds(disk', written'[j])
    <3>1. PICK x \in DOMAIN disk' : \E k \in Positions(x)' : disk'[x].lines[k] = written[i]
      BY <2>2, <2>5 DEF Holds, Positions
    <3>2. PICK k \in Positions(From(x)) : disk[From(x)].lines[k] = written[i]
      BY <2>4, <3>1 DEF Positions
    <3>3. Holds(disk, written[i]) BY <2>4, <3>2 DEF Holds, Positions
    <3>4. Holds(disk, written[j]) BY <1>2, <2>5, <3>3 DEF Latest
    <3>5. PICK g \in DOMAIN disk : \E m \in Positions(g) : disk[g].lines[m] = written[j]
      BY <3>4 DEF Holds, Positions
    <3>6. PICK m \in Positions(g) : disk[g].lines[m] = written[j] BY <3>5
    <3>7. g # t
      <4>1. SUFFICES ASSUME g = t PROVE FALSE OBVIOUS
      <4>2. g > From(x) /\ From(x) \in DOMAIN disk BY <2>1, <2>3, <2>4, <4>1
      <4>3. Precedes(written, written[j], written[i])
        BY <1>2, <3>2, <3>6, <4>2 DEF Latest
      <4>4. j < i BY <4>3, PrecedesIs DEF SharedInv
      <4>5. i \in Int /\ j \in Int BY DEF SharedInv, TypeOK
      <4> QED BY <2>5, <4>4, <4>5
    <3>8. g = f \/ (g \in DOMAIN disk' /\ disk'[g] = disk[g]) BY <2>1, <3>7
    <3> QED BY <2>1, <2>2, <3>6, <3>8 DEF Holds, Positions
  <2>6. ASSUME NEW x \in DOMAIN disk', NEW y \in DOMAIN disk',
               NEW i \in Positions(x)', NEW j \in Positions(y)', x > y
        PROVE  Precedes(written', disk'[x].lines[i], disk'[y].lines[j])
    <3>1. From(x) > From(y)
      <4>1. y # f BY <2>1
      <4> QED BY <2>1, <2>4, <2>6, <4>1
    <3>2. i \in Positions(From(x)) /\ j \in Positions(From(y)) BY <2>4 DEF Positions
    <3> QED BY <1>2, <2>2, <2>4, <3>1, <3>2 DEF Latest
  <2> QED BY <2>2, <2>5, <2>6 DEF Latest
<1>5. CASE AppendLine(w)
  <2>1. /\ 0 \in DOMAIN disk' /\ NewAt \in Positions(0)' /\ disk'[0].lines[NewAt] = line[w]
        /\ \A f \in DOMAIN disk : \A i \in Positions(f) :
             /\ f \in DOMAIN disk' /\ i \in Positions(f)'
             /\ disk'[f].lines[i] = disk[f].lines[i]
    BY <1>5, AppendPlaces
  <2>2. \A f \in DOMAIN disk' : \A i \in Positions(f)' :
            \/ f \in DOMAIN disk /\ i \in Positions(f) /\ disk'[f].lines[i] = disk[f].lines[i]
            \/ f = 0 /\ i = NewAt /\ disk'[f].lines[i] = line[w]
    BY <1>5, AppendPlaces
  <2>3. /\ DOMAIN written' = DOMAIN written \cup {Len(written) + 1}
        /\ written'[Len(written) + 1] = line[w] /\ written' = Append(written, line[w])
        /\ written \in Seq(Lines)
        /\ \A i \in DOMAIN written : /\ written'[i] = written[i] /\ written[i] # line[w]
                                     /\ i \in Int /\ i < Len(written) + 1
    BY <1>5, AppendPlaces
  <2>4. ASSUME NEW i \in DOMAIN written', NEW j \in DOMAIN written', i < j, Holds(disk', written'[i])
        PROVE  Holds(disk', written'[j])
    <3>1. i \in DOMAIN written /\ written'[i] = written[i] /\ written[i] # line[w]
      BY <2>3, <2>4
    <3>2. CASE j = Len(written) + 1 BY <2>1, <2>3, <3>2 DEF Holds, Positions
    <3>3. CASE j \in DOMAIN written
      <4>1. Holds(disk, written[i]) BY <2>2, <2>4, <3>1 DEF Holds, Positions
      <4>2. Holds(disk, written[j]) BY <1>2, <2>4, <3>1, <3>3, <4>1 DEF Latest
      <4> QED BY <2>1, <2>3, <3>3, <4>2 DEF Holds, Positions
    <3> QED BY <2>3, <3>2, <3>3
  <2>5. ASSUME NEW f \in DOMAIN disk', NEW g \in DOMAIN disk',
               NEW i \in Positions(f)', NEW j \in Positions(g)', f > g
        PROVE  Precedes(written', disk'[f].lines[i], disk'[g].lines[j])
    <3>1. f # 0
      <4>1. DOMAIN disk' \subseteq Nat
        BY StepType, Settings DEF SharedInv, TypeOK, Next, Files, MaxFiles
      <4> QED BY <2>5, <4>1
    <3>2. f \in DOMAIN disk /\ i \in Positions(f) /\ disk'[f].lines[i] = disk[f].lines[i]
      BY <2>2, <3>1
    <3>3. CASE disk'[g].lines[j] = line[w]
      <4>1. PICK k \in DOMAIN written : written[k] = disk[f].lines[i]
        BY <3>2 DEF SharedInv, Recorded
      <4> QED BY <2>3, <3>2, <3>3, <4>1 DEF Precedes
    <3>4. CASE g \in DOMAIN disk /\ j \in Positions(g) /\ disk'[g].lines[j] = disk[g].lines[j]
      <4>1. Precedes(written, disk[f].lines[i], disk[g].lines[j])
        BY <1>2, <2>5, <3>2, <3>4 DEF Latest
      <4> QED BY <2>3, <3>2, <3>4, <4>1, PrecedesStays
    <3> QED BY <2>2, <3>3, <3>4
  <2> QED BY <2>4, <2>5 DEF Latest
<1> QED BY <1>1, <1>3, <1>4, <1>5 DEF Step, Quiet

\* A line is given up only where the oldest file is overwritten, and that file stays.
LEMMA StepLost ==
    ASSUME SharedInv, NEW w \in Writers, Writers = {w}, AloneInv(w), Next
    PROVE  LostAtTop'
<1>1. Step(w) /\ Top' = Top BY DEF Next, Top, MaxFiles
<1>2. LostAtTop BY DEF AloneInv
<1>3. SUFFICES ASSUME NEW i \in DOMAIN written', ~Holds(disk', written'[i])
               PROVE  Top \in DOMAIN disk'
  BY <1>1 DEF LostAtTop
<1>4. CASE Quiet(w)
  <2>1. UNCHANGED <<disk, written>> BY <1>4, QuietIsQuiet
  <2> QED BY <1>2, <1>3, <2>1 DEF LostAtTop
<1>5. CASE Move(w)
  <2> DEFINE f == index[w]
             t == index[w] + 1
  <2>1. /\ f \in DOMAIN disk /\ f \in 0 .. Highest /\ t = f + 1
        /\ DOMAIN disk' = (DOMAIN disk \ {f}) \cup {t} /\ disk'[t] = disk[f]
        /\ \A x \in DOMAIN disk : x # t /\ x # f => x \in DOMAIN disk' /\ disk'[x] = disk[x]
        /\ t \in DOMAIN disk => t = Top
    BY <1>5, MovePlaces
  <2>2. written' = written BY <1>5 DEF Move
  <2>3. f # Top BY <2>1, Settings DEF SharedInv
  <2> HIDE DEF f, t
  <2>4. CASE Top \in DOMAIN disk BY <2>1, <2>3, <2>4
  <2>5. CASE Top \notin DOMAIN disk
    <3>1. Holds(disk, written[i]) BY <1>2, <2>2, <2>5 DEF LostAtTop
    <3>2. PICK g \in DOMAIN disk : \E k \in DOMAIN disk[g].lines : disk[g].lines[k] = written[i]
      BY <3>1 DEF Holds
    <3>3. g # t BY <2>1, <2>5
    <3>4. g = f \/ (g \in DOMAIN disk' /\ disk'[g] = disk[g]) BY <2>1, <3>3
    <3>5. Holds(disk', written'[i]) BY <2>1, <2>2, <3>2, <3>4 DEF Holds
    <3> QED BY <1>3, <3>5
  <2> QED BY <2>4, <2>5
<1>6. CASE AppendLine(w)
  <2>1. /\ 0 \in DOMAIN disk' /\ NewAt \in Positions(0)' /\ disk'[0].lines[NewAt] = line[w]
        /\ \A f \in DOMAIN disk : \A k \in Positions(f) :
             /\ f \in DOMAIN disk' /\ k \in Positions(f)'
             /\ disk'[f].lines[k] = disk[f].lines[k]
    BY <1>6, AppendPlaces
  <2>2. /\ DOMAIN written' = DOMAIN written \cup {Len(written) + 1}
        /\ written'[Len(written) + 1] = line[w]
        /\ \A k \in DOMAIN written : written'[k] = written[k]
    BY <1>6, AppendPlaces
  <2>3. i \in DOMAIN written /\ written'[i] = written[i]
    BY <1>3, <2>1, <2>2 DEF Holds, Positions
  <2>4. ~Holds(disk, written[i]) BY <1>3, <2>1, <2>3 DEF Holds, Positions
  <2>5. DOMAIN disk \subseteq DOMAIN disk' BY <1>6 DEF AppendLine
  <2> QED BY <1>2, <2>3, <2>4, <2>5 DEF LostAtTop
<1> QED BY <1>1, <1>4, <1>5, <1>6 DEF Step, Quiet

\* Counting holes: a set with one more member, and with one member exchanged.
LEMMA OneMore ==
    ASSUME NEW S, IsFiniteSet(S), NEW T, NEW x, T \subseteq S \cup {x}
    PROVE  Cardinality(S) \in Nat /\ Cardinality(T) \in Nat /\ Cardinality(T) <= Cardinality(S) + 1
<1>1. /\ IsFiniteSet(S \cup {x}) /\ Cardinality(S) \in Nat
      /\ Cardinality(S \cup {x}) \in Nat /\ Cardinality(S \cup {x}) <= Cardinality(S) + 1
  BY FS_AddElement, FS_CardinalityType
<1>2. IsFiniteSet(T) /\ Cardinality(T) \in Nat /\ Cardinality(T) <= Cardinality(S \cup {x})
  BY <1>1, FS_Subset, FS_CardinalityType
<1> QED BY <1>1, <1>2

LEMMA OneLess ==
    ASSUME NEW S, IsFiniteSet(S), NEW y \in S, NEW T, T \subseteq S \ {y}
    PROVE  Cardinality(S) \in Nat /\ Cardinality(T) \in Nat /\ Cardinality(T) + 1 <= Cardinality(S)
<1>1. /\ IsFiniteSet(S \ {y}) /\ Cardinality(S) \in Nat
      /\ Cardinality(S \ {y}) \in Nat /\ Cardinality(S \ {y}) = Cardinality(S) - 1
  BY FS_RemoveElement, FS_CardinalityType
<1>2. Cardinality(T) \in Nat /\ Cardinality(T) <= Cardinality(S \ {y})
  BY <1>1, FS_Subset, FS_CardinalityType
<1> QED BY <1>1, <1>2

LEMMA Exchanged ==
    ASSUME NEW S, IsFiniteSet(S), NEW y \in S, NEW T, NEW x, T \subseteq (S \ {y}) \cup {x}
    PROVE  Cardinality(S) \in Nat /\ Cardinality(T) \in Nat /\ Cardinality(T) <= Cardinality(S)
<1>1. /\ IsFiniteSet(S \ {y}) /\ Cardinality(S) \in Nat
      /\ Cardinality(S \ {y}) \in Nat /\ Cardinality(S \ {y}) = Cardinality(S) - 1
  BY FS_RemoveElement, FS_CardinalityType
<1>2. Cardinality(T) \in Nat /\ Cardinality(T) <= Cardinality(S \ {y}) + 1
  BY <1>1, OneMore
<1> QED BY <1>1, <1>2

LEMMA HolesFinite ==
    ASSUME TypeOK
    PROVE  /\ IsFiniteSet(Holes) /\ Cardinality(Holes) \in Nat
           /\ IsFiniteSet(DOMAIN disk) /\ Cardinality(DOMAIN disk) \in Nat
           /\ IsFiniteSet(Files) /\ Cardinality(Files) = Top + 1
<1>1. IsFiniteSet(Files) /\ Cardinality(Files) = Top + 1
  <2>1. Files = 0 .. Top /\ Top \in Nat BY Settings
  <2>2. IsFiniteSet(0 .. Top) /\ Cardinality(0 .. Top) = Top - 0 + 1
    BY <2>1, FS_Interval
  <2> QED BY <2>1, <2>2
<1>2. Holes \subseteq Files /\ DOMAIN disk \subseteq Files BY DEF Holes, TypeOK
<1> QED BY <1>1, <1>2, FS_Subset, FS_CardinalityType

\* A rotation moves the hole it makes down to 0, where the append fills it.
LEMMA StepHoles ==
    ASSUME SharedInv, NEW w \in Writers, Writers = {w}, AloneInv(w), Next
    PROVE  HoleInv(w)'
<1>1. Step(w) /\ deployment' = deployment BY DEF Next
<1>2. Files' = Files /\ Highest' = Highest BY <1>1 DEF Files, Highest, MaxFiles
<1>3. /\ pc \in [Writers -> {"idle", "exists", "stat", "probe", "rename", "append"}]
      /\ index \in [Writers -> Files] /\ DOMAIN disk \subseteq Files /\ crashes \in Nat
      /\ Files = 0 .. Top /\ Top \in Nat /\ Highest \in Nat /\ Top = Highest + 1
  BY Settings DEF SharedInv, TypeOK
<1>4. Undisturbed(w) /\ Cardinality(Holes) <= crashes + Room(w) BY DEF AloneInv, HoleInv
<1>5. IsFiniteSet(Holes) /\ Cardinality(Holes) \in Nat BY HolesFinite DEF SharedInv
<1>6. Room(w) \in {0, 1} /\ Room(w)' \in {0, 1} BY DEF Room
<1>7. CASE Quiet(w) /\ ~Crash(w)
  <2>1. disk' = disk /\ Holes' = Holes
    BY <1>2, <1>7, QuietIsQuiet DEF Holes, Above
  <2>2. crashes' = crashes BY <1>7 DEF Quiet, Record, Exists, Stat, Probe, Throw
  <2>3. Room(w) = 1 => Room(w)' = 1
    <3>1. CASE Record(w) \/ Exists(w) \/ Stat(w)
      BY <3>1 DEF Record, Exists, Stat, Room, Rotating
    <3>2. CASE Throw(w) BY <1>4, <3>2 DEF Throw, Undisturbed
    <3>3. CASE Probe(w) /\ index[w] \in DOMAIN disk
      <4>1. pc[w] = "probe" /\ pc'[w] = "rename" /\ index' = index
        BY <1>3, <3>3 DEF Probe, Goto
      <4> QED BY <1>2, <2>1, <4>1 DEF Room, Rotating, Above
    <3>4. CASE Probe(w) /\ index[w] \notin DOMAIN disk /\ index[w] = 0
      <4>1. pc'[w] = "append" BY <1>3, <3>4 DEF Probe, Goto, Advance
      <4> QED BY <2>1, <3>4, <4>1 DEF Room
    <3>5. CASE Probe(w) /\ index[w] \notin DOMAIN disk /\ index[w] # 0
      <4>1. pc[w] = "probe" /\ pc'[w] = "probe" /\ index'[w] = index[w] - 1
        BY <1>3, <3>5 DEF Probe, Goto, Advance
      <4>2. index[w] \in Int /\ DOMAIN disk \subseteq Int BY <1>3
      <4>3. \A g \in DOMAIN disk : g > index[w] => g > index'[w] BY <4>1, <4>2
      <4>4. index[w] < Highest => index'[w] < Highest BY <1>3, <4>1, <4>2
      <4> QED BY <1>2, <2>1, <4>1, <4>3, <4>4 DEF Room, Rotating, Above
    <3> QED BY <1>7, <3>1, <3>2, <3>3, <3>4, <3>5 DEF Quiet
  <2> QED BY <1>3, <1>4, <1>5, <1>6, <2>1, <2>2, <2>3 DEF HoleInv
<1>8. CASE Crash(w)
  <2>1. disk' = disk /\ crashes' = crashes + 1 BY <1>8 DEF Crash
  <2>2. Holes' = Holes BY <1>2, <2>1 DEF Holes, Above
  <2> QED BY <1>3, <1>4, <1>5, <1>6, <2>1, <2>2 DEF HoleInv
<1>9. CASE Move(w)
  <2> DEFINE f == index[w]
             t == index[w] + 1
  <2>1. /\ f \in DOMAIN disk /\ f \in 0 .. Highest /\ t = f + 1
        /\ DOMAIN disk' = (DOMAIN disk \ {f}) \cup {t}
        /\ t \in DOMAIN disk => t = Top
    BY <1>9, MovePlaces
  <2>2. crashes' = crashes /\ pc[w] = "rename" BY <1>9 DEF Move
  <2>3. Room(w)' = 1
    <3>1. CASE f = 0
      <4>1. pc'[w] = "append" BY <1>3, <1>9, <3>1 DEF Move, Goto, Advance
      <4>2. 0 \notin DOMAIN disk' BY <2>1, <3>1
      <4> QED BY <4>1, <4>2 DEF Room
    <3>2. CASE f # 0
      <4>1. pc'[w] = "probe" /\ index'[w] = f - 1 BY <1>3, <1>9, <3>2 DEF Move, Goto, Advance
      <4>2. index'[w] < Highest /\ t > index'[w] /\ t \in DOMAIN disk' BY <1>3, <2>1, <4>1
      <4> QED BY <1>2, <4>1, <4>2 DEF Room, Rotating, Above
    <3> QED BY <3>1, <3>2
  <2>4. \A n \in Holes' : n \in Files /\ n \notin DOMAIN disk' /\ \E g \in DOMAIN disk' : g > n
    BY <1>2 DEF Holes, Above
  <2> HIDE DEF f, t
  <2>5. Holes' \subseteq Holes \cup {f} /\ t \notin Holes'
    <3> SUFFICES ASSUME NEW n \in Holes', n # f PROVE n \in Holes
      BY <2>1, <2>4
    <3>1. n \in Files /\ n \notin DOMAIN disk /\ n # t BY <2>1, <2>4
    <3>2. PICK g \in DOMAIN disk' : g > n BY <2>4
    <3>3. (g = t /\ f > n) \/ g \in DOMAIN disk BY <1>3, <2>1, <3>1, <3>2
    <3> QED BY <2>1, <3>1, <3>2, <3>3 DEF Holes, Above
  <2>6. CASE f < Highest /\ Above(f)
    <3>1. t \in Holes
      <4>1. t \in Files /\ t \notin DOMAIN disk BY <1>3, <2>1, <2>6
      <4>2. PICK g \in DOMAIN disk : g > f BY <2>6 DEF Above
      <4>3. g > t BY <1>3, <2>1, <4>1, <4>2
      <4> QED BY <4>1, <4>3 DEF Holes, Above
    <3>2. Holes' \subseteq (Holes \ {t}) \cup {f} BY <2>5
    <3>3. Cardinality(Holes') \in Nat /\ Cardinality(Holes') <= Cardinality(Holes)
      BY <1>5, <3>1, <3>2, Exchanged
    <3> QED BY <1>3, <1>4, <1>5, <1>6, <2>2, <2>3, <3>3 DEF HoleInv
  <2>7. CASE ~(f < Highest /\ Above(f))
    <3>1. Room(w) = 0 BY <2>2, <2>7 DEF Room, Rotating, f
    <3>2. Cardinality(Holes') \in Nat /\ Cardinality(Holes') <= Cardinality(Holes) + 1
      BY <1>5, <2>5, OneMore
    <3> QED BY <1>3, <1>4, <1>5, <2>2, <2>3, <3>1, <3>2 DEF HoleInv
  <2> QED BY <2>6, <2>7
<1>10. CASE AppendLine(w)
  <2>1. /\ pc[w] = "append" /\ pc'[w] = "idle" /\ crashes' = crashes
        /\ DOMAIN disk' = DOMAIN disk \cup {0}
    BY <1>3, <1>10 DEF AppendLine, Goto
  <2>2. \A n \in Holes' : n \in Files /\ n \notin DOMAIN disk' /\ \E g \in DOMAIN disk' : g > n
    BY <1>2 DEF Holes, Above
  <2>3. Room(w)' = 0 BY <2>1 DEF Room, Rotating
  <2>4. Holes' \subseteq Holes \ {0}
    <3> SUFFICES ASSUME NEW n \in Holes' PROVE n \in Holes /\ n # 0 OBVIOUS
    <3>1. n \in Files /\ n \notin DOMAIN disk /\ n # 0 BY <2>1, <2>2
    <3>2. PICK g \in DOMAIN disk' : g > n BY <2>2
    <3>3. g \in DOMAIN disk BY <1>3, <2>1, <3>1, <3>2
    <3> QED BY <3>1, <3>2, <3>3 DEF Holes, Above
  <2>5. CASE 0 \in Holes
    <3>1. Cardinality(Holes') \in Nat /\ Cardinality(Holes') + 1 <= Cardinality(Holes)
      BY <1>5, <2>4, <2>5, OneLess
    <3> QED BY <1>3, <1>4, <1>5, <1>6, <2>1, <2>3, <3>1 DEF HoleInv
  <2>6. CASE 0 \notin Holes /\ 0 \in DOMAIN disk
    <3>1. Room(w) = 0 BY <2>1, <2>6 DEF Room, Rotating
    <3>2. Cardinality(Holes') \in Nat /\ Cardinality(Holes') <= Cardinality(Holes)
      BY <1>5, <2>4, FS_Subset, FS_CardinalityType
    <3> QED BY <1>3, <1>4, <1>5, <2>1, <2>3, <3>1, <3>2 DEF HoleInv
  <2>7. CASE 0 \notin Holes /\ 0 \notin DOMAIN disk
    <3>1. DOMAIN disk = {}
      <4>1. SUFFICES ASSUME NEW g \in DOMAIN disk PROVE FALSE OBVIOUS
      <4>2. g > 0 /\ 0 \in Files BY <1>3, <2>7
      <4> QED BY <2>7, <4>2 DEF Holes, Above
    <3>2. Holes' = {} BY <1>3, <2>1, <2>2, <3>1
    <3> QED BY <1>3, <2>1, <2>3, <3>2, FS_EmptySet DEF HoleInv
  <2> QED BY <2>5, <2>6, <2>7
<1> QED BY <1>1, <1>7, <1>8, <1>9, <1>10 DEF Step, Quiet

-----------------------------------------------------------------------------
(* The inductive invariant.                                                *)

LEMMA InitIInv == ASSUME Init PROVE IInv
<1>1. /\ deployment \in Deployments /\ disk = [f \in {} |-> <<>>] /\ DOMAIN disk = {}
      /\ written = <<>> /\ DOMAIN written = {} /\ crashes = 0 /\ offered = 0
      /\ pc = [w \in Writers |-> "idle"] /\ index = [w \in Writers |-> 0]
      /\ line = [w \in Writers |-> NoLine]
  BY DEF Init
<1>2. TypeOK
  <2>1. deployment.records \in Nat /\ deployment.crashes \in Nat /\ MaxFiles \in Nat
    BY <1>1, DeploymentsAssumption DEF MaxFiles
  <2>2. 0 \in Files BY <2>1 DEF Files
  <2>3. 0 \in 0 .. deployment.records /\ 0 \in 0 .. deployment.crashes BY <2>1
  <2> QED BY <1>1, <2>2, <2>3 DEF TypeOK
<1>3. IndexInv /\ NameInv /\ Recorded /\ Apart /\ InOrder
  BY <1>1 DEF IndexInv, NameInv, Recorded, Apart, InOrder, Rotating
<1>4. Holes = {} BY <1>1 DEF Holes, Above
<1>5. ASSUME NEW w \in Writers PROVE AloneInv(w)
  <2>1. Undisturbed(w) /\ Latest /\ LostAtTop
    BY <1>1 DEF Undisturbed, Rotating, Latest, LostAtTop
  <2>2. Room(w) = 0 BY <1>1 DEF Room, Rotating
  <2>3. HoleInv(w) BY <1>1, <1>4, <2>2, FS_EmptySet DEF HoleInv
  <2> QED BY <1>1, <2>1, <2>3 DEF AloneInv
<1> QED BY <1>2, <1>3, <1>5 DEF IInv, SharedInv

LEMMA StepIInv == ASSUME IInv, [Next]_vars PROVE IInv'
<1>1. CASE Next
  <2>1. SharedInv' BY <1>1, StepType, StepNames, StepPlaces DEF IInv, SharedInv
  <2>2. ASSUME NEW w \in Writers', Writers' = {w} PROVE AloneInv(w)'
    <3>1. w \in Writers /\ Writers = {w} BY <1>1, <2>2 DEF Next, Writers
    <3>2. SharedInv /\ AloneInv(w) BY <3>1 DEF IInv
    <3> QED BY <1>1, <3>1, <3>2, StepUndisturbed, StepSmall, StepLatest, StepLost, StepHoles
        DEF AloneInv
  <2> QED BY <2>1, <2>2 DEF IInv
<1>2. CASE UNCHANGED vars
  <2>1. SharedInv'
    BY <1>2 DEF vars, IInv, SharedInv, TypeOK, Files, Lines, NoLine, Writers, MaxFiles, IndexInv,
       Rotating, Highest, NameInv, Recorded, Apart, InOrder, Positions
  <2>2. ASSUME NEW w \in Writers', Writers' = {w} PROVE AloneInv(w)'
    <3>1. w \in Writers /\ Writers = {w} BY <1>2, <2>2 DEF vars, Writers
    <3>2. AloneInv(w) BY <3>1 DEF IInv
    <3>3. Highest' = Highest /\ Top' = Top /\ MaxBytes' = MaxBytes /\ Files' = Files
      BY <1>2 DEF vars, Highest, Top, MaxFiles, MaxBytes, Files
    <3>4. Undisturbed(w)' /\ (\A f \in DOMAIN disk' : Small(disk[f])') /\ Latest' /\ LostAtTop'
      BY <1>2, <3>2, <3>3 DEF vars, AloneInv, Undisturbed, Rotating, Target, Small, Latest,
         LostAtTop, Positions
    <3>5. HoleInv(w)'
      BY <1>2, <3>2, <3>3 DEF vars, AloneInv, HoleInv, Holes, Above, Room, Rotating
    <3> QED BY <3>4, <3>5 DEF AloneInv
  <2> QED BY <2>1, <2>2 DEF IInv
<1> QED BY <1>1, <1>2

LEMMA Invariance == Spec => []IInv
BY InitIInv, StepIInv, PTL DEF Spec

-----------------------------------------------------------------------------
\* The places of AuditLog, as a file and a position in it.
LEMMA PlaceIs ==
    ASSUME NEW p
    PROVE  p \in Places <=> \E f \in DOMAIN disk : \E i \in Positions(f) : p = <<f, i>>
BY DEF Places, Positions

LEMMA OnDiskIs == ASSUME NEW l PROVE OnDisk(l) <=> Holds(disk, l)
<1>1. ASSUME OnDisk(l) PROVE Holds(disk, l)
  <2>1. PICK p \in Places : At(p) = l BY <1>1 DEF OnDisk
  <2>2. PICK f \in DOMAIN disk : \E i \in Positions(f) : p = <<f, i>> BY <2>1, PlaceIs
  <2> QED BY <2>1, <2>2 DEF At, Holds, Positions
<1>2. ASSUME Holds(disk, l) PROVE OnDisk(l)
  <2>1. PICK f \in DOMAIN disk : \E i \in Positions(f) : disk[f].lines[i] = l
    BY <1>2 DEF Holds, Positions
  <2>2. PICK i \in Positions(f) : disk[f].lines[i] = l BY <2>1
  <2>3. <<f, i>> \in Places /\ At(<<f, i>>) = l BY <2>2, PlaceIs DEF At
  <2> QED BY <2>3 DEF OnDisk
<1> QED BY <1>1, <1>2

\* Whatever the limits, the files and the processes: no file gets a number beyond the
\* highest, and every writer's variables keep their types.
THEOREM TypeCorrect == Spec => []TypeOK
<1>1. IInv => TypeOK BY DEF IInv, SharedInv
<1> QED BY <1>1, Invariance, PTL

\* With one process, killed wherever it may be and however often: what is on disk is
\* the latest part of what was recorded, in order, without a gap or a duplicate.
THEOREM KeptIsLatestHolds == Spec => []KeptIsLatest
<1>1. ASSUME IInv PROVE KeptIsLatest
  <2> SUFFICES ASSUME OneProcess
               PROVE  /\ \A i, j \in DOMAIN written :
                           i < j /\ OnDisk(written[i]) => OnDisk(written[j])
                      /\ \A p, q \in Places : Older(p, q) => Before(At(p), At(q))
    BY DEF KeptIsLatest
  <2>1. Latest BY <1>1 DEF IInv, OneProcess, AloneInv
  <2>2. InOrder BY <1>1 DEF IInv, SharedInv
  <2>3. ASSUME NEW p \in Places, NEW q \in Places, Older(p, q) PROVE Before(At(p), At(q))
    <3>1. PICK f \in DOMAIN disk : \E i \in Positions(f) : p = <<f, i>> BY PlaceIs
    <3>2. PICK i \in Positions(f) : p = <<f, i>> BY <3>1
    <3>3. PICK g \in DOMAIN disk : \E j \in Positions(g) : q = <<g, j>> BY PlaceIs
    <3>4. PICK j \in Positions(g) : q = <<g, j>> BY <3>3
    <3>5. f > g \/ (f = g /\ i < j) BY <2>3, <3>2, <3>4 DEF Older
    <3>6. Precedes(written, disk[f].lines[i], disk[g].lines[j])
      BY <2>1, <2>2, <3>5 DEF Latest, InOrder
    <3> QED BY <3>2, <3>4, <3>6 DEF At, Before, Precedes
  <2> QED BY <2>1, <2>3, OnDiskIs DEF Latest
<1> QED BY <1>1, Invariance, PTL

\* With one process, a recorded line is given up only when MaxFiles files of newer ones
\* are there, but for one file for each record cut short.
THEOREM LostOnlyWhenFullHolds == Spec => []LostOnlyWhenFull
<1>1. ASSUME IInv PROVE LostOnlyWhenFull
  <2> SUFFICES ASSUME OneProcess, NEW i \in DOMAIN written, ~OnDisk(written[i])
               PROVE  Cardinality(DOMAIN disk) + crashes >= MaxFiles
    BY DEF LostOnlyWhenFull
  <2>1. PICK w \in Writers : Writers = {w} BY DEF OneProcess
  <2>2. TypeOK /\ LostAtTop /\ HoleInv(w) BY <1>1, <2>1 DEF IInv, SharedInv, AloneInv
  <2>3. Top \in DOMAIN disk BY <2>2, OnDiskIs DEF LostAtTop
  <2>4. /\ MaxFiles \in Nat /\ Top \in Nat /\ Files = 0 .. Top /\ Top >= MaxFiles
        /\ crashes \in Nat
    BY <2>2, Settings DEF TypeOK
  <2>5. Files \subseteq DOMAIN disk \cup Holes
    <3> SUFFICES ASSUME NEW n \in Files, n \notin DOMAIN disk PROVE n \in Holes OBVIOUS
    <3>1. Top > n BY <2>3, <2>4
    <3> QED BY <2>3, <3>1 DEF Holes, Above
  <2>6. /\ IsFiniteSet(Holes) /\ Cardinality(Holes) \in Nat
        /\ IsFiniteSet(DOMAIN disk) /\ Cardinality(DOMAIN disk) \in Nat
        /\ Cardinality(Files) = Top + 1
    BY <2>2, HolesFinite
  <2>7. /\ IsFiniteSet(DOMAIN disk \cup Holes)
        /\ Cardinality(DOMAIN disk \cup Holes)
             = Cardinality(DOMAIN disk) + Cardinality(Holes) - Cardinality(DOMAIN disk \cap Holes)
    BY <2>6, FS_Union
  <2>8. Cardinality(DOMAIN disk \cap Holes) = 0
    <3>1. DOMAIN disk \cap Holes = {} BY DEF Holes
    <3> QED BY <3>1, FS_EmptySet
  <2>9. Cardinality(Files) <= Cardinality(DOMAIN disk \cup Holes)
    BY <2>5, <2>7, FS_Subset
  <2>10. Cardinality(Holes) <= crashes + 1 BY <2>2, <2>4, <2>6 DEF HoleInv, Room
  <2> QED BY <2>4, <2>6, <2>7, <2>8, <2>9, <2>10
<1> QED BY <1>1, Invariance, PTL

\* With one process, only a line that is itself larger makes a file larger than MaxBytes.
THEOREM FilesBoundedHolds == Spec => []FilesBounded
<1>1. ASSUME IInv PROVE FilesBounded
  BY <1>1 DEF IInv, AloneInv, Small, FilesBounded, OneProcess
<1> QED BY <1>1, Invariance, PTL

\* Whatever processes share the file: nothing is on disk that was not recorded, no line
\* is there twice, and each file is in the order of the history.
THEOREM NoLineTwiceHolds == Spec => []NoLineTwice
<1>1. ASSUME IInv PROVE NoLineTwice
  <2>1. Recorded /\ Apart /\ InOrder BY <1>1 DEF IInv, SharedInv
  <2>2. ASSUME NEW p \in Places
        PROVE  /\ p = <<p[1], p[2]>> /\ p[1] \in DOMAIN disk /\ p[2] \in Positions(p[1])
               /\ At(p) = disk[p[1]].lines[p[2]]
    <3>1. PICK f \in DOMAIN disk : \E i \in Positions(f) : p = <<f, i>> BY PlaceIs
    <3>2. PICK i \in Positions(f) : p = <<f, i>> BY <3>1
    <3> QED BY <3>2 DEF At
  <2>3. \A p \in Places : \E i \in DOMAIN written : written[i] = At(p)
    BY <2>1, <2>2 DEF Recorded
  <2>4. \A p, q \in Places : p # q => At(p) # At(q) BY <2>1, <2>2 DEF Apart
  <2>5. \A p, q \in Places : p[1] = q[1] /\ p[2] < q[2] => Before(At(p), At(q))
    BY <2>1, <2>2 DEF InOrder, Before, Precedes
  <2> QED BY <2>3, <2>4, <2>5 DEF NoLineTwice
<1> QED BY <1>1, Invariance, PTL
=============================================================================
