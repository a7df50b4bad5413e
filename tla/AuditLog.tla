------------------------------ MODULE AuditLog ------------------------------
(***************************************************************************)
(* The audit sink of src/src/observability/audit.ts: a file that is moved  *)
(* aside when the next line would make it larger than MaxBytes.            *)
(*                                                                         *)
(* One action per system call: a process is killed, or another process     *)
(* with the same MCP_AUDIT_FILE gets in, between any two of them.  Inside  *)
(* one process record() is synchronous, so a process is one writer.        *)
(* A line is appended whole.                                               *)
(***************************************************************************)
EXTENDS Integers, FiniteSets, Sequences

CONSTANT Deployments
    \* Settings and bounds to look at, each a record: the processes that share the file
    \* (writers), options.maxBytes and maxFiles, the sizes a line may have, and the
    \* bounds: lines offered (records) and records cut short (crashes) in a run

ASSUME DeploymentsAssumption == \A d \in Deployments :
    /\ d.maxBytes \in Nat /\ d.maxFiles \in Nat      \* MCP_AUDIT_MAX_FILES: /^\d+$/
    /\ d.sizes \subseteq Nat \ {0}
    /\ d.records \in Nat /\ d.crashes \in Nat

VARIABLES
    deployment,      \* the one at hand
    disk,            \* the files that exist, each with its lines and its size: 0 is
                     \* filePath, n is filePath.n
    pc,              \* where each writer is in writeAuditLine
    index,           \* rotateAuditFile's loop variable; 0 for filePath itself
    line,            \* the line each writer is recording
    offered,         \* number of lines offered so far, the next line's name
    crashes,         \* number of records cut short so far
    written          \* history: the lines for which record() returned, in order

vars == <<deployment, disk, pc, index, line, offered, crashes, written>>

Writers == deployment.writers
MaxBytes == deployment.maxBytes
MaxFiles == deployment.maxFiles

Lines == [id : Nat, size : deployment.sizes]
Files == 0 .. IF MaxFiles = 0 THEN 1 ELSE MaxFiles
NoLine == [id |-> 0, size |-> 0]

TypeOK ==
    /\ deployment \in Deployments
    /\ DOMAIN disk \subseteq Files
    /\ \A f \in DOMAIN disk : disk[f] \in [lines : Seq(Lines), size : Nat]
    /\ pc \in [Writers -> {"idle", "exists", "stat", "probe", "rename", "append"}]
    /\ index \in [Writers -> Files]
    /\ line \in [Writers -> Lines \cup {NoLine}]
    /\ offered \in 0 .. deployment.records
    /\ crashes \in 0 .. deployment.crashes
    /\ written \in Seq(Lines)

-----------------------------------------------------------------------------
Goto(w, label) == pc' = [pc EXCEPT ![w] = label]

\* mutant: the file is copied
RenameCopies(f, target) ==
    disk' = [x \in DOMAIN disk \cup {target} |-> IF x = target THEN disk[f] ELSE disk[x]]

\* renameSync replaces the target
Rename(f, target) ==
    disk' = [x \in (DOMAIN disk \ {f}) \cup {target} |-> IF x = target THEN disk[f] ELSE disk[x]]

\* record(): the line is made and the directory exists from here on
Record(w) ==
    /\ pc[w] = "idle" /\ offered < deployment.records
    /\ offered' = offered + 1
    /\ \E s \in deployment.sizes : line' = [line EXCEPT ![w] = [id |-> offered + 1, size |-> s]]
    /\ Goto(w, "exists")
    /\ UNCHANGED <<disk, index, written, crashes>>

\* existsSync(filePath)
Exists(w) ==
    /\ pc[w] = "exists"
    /\ Goto(w, IF 0 \in DOMAIN disk THEN "stat" ELSE "append")
    /\ UNCHANGED <<disk, index, line, offered, written, crashes>>

\* mutant: the size of the file alone, without the line to come
TooLargeAlready(w) == disk[0].size > MaxBytes

TooLarge(w) == disk[0].size + line[w].size > MaxBytes

\* mutant: off by one, the oldest file but one is overwritten
HighestLow == IF MaxFiles > 2 THEN MaxFiles - 2 ELSE 0

\* mutant: off by one the other way, the oldest file is kept as one too many
HighestLate == MaxFiles

\* the first file rotateAuditFile moves
Highest == IF MaxFiles > 1 THEN MaxFiles - 1 ELSE 0

\* statSync(filePath).size; the file may be gone since existsSync saw it
Stat(w) ==
    /\ pc[w] = "stat" /\ 0 \in DOMAIN disk
    /\ IF TooLarge(w)
       THEN /\ Goto(w, "probe")
            /\ index' = [index EXCEPT ![w] = Highest]
       ELSE Goto(w, "append") /\ UNCHANGED index
    /\ UNCHANGED <<disk, line, offered, written, crashes>>

\* after a file has been seen to: the next lower one, then the append
Advance(w) ==
    IF index[w] = 0
    THEN Goto(w, "append") /\ UNCHANGED index
    ELSE Goto(w, "probe") /\ index' = [index EXCEPT ![w] = @ - 1]

\* existsSync(source)
Probe(w) ==
    /\ pc[w] = "probe"
    /\ IF index[w] \in DOMAIN disk
       THEN Goto(w, "rename") /\ UNCHANGED index
       ELSE Advance(w)
    /\ UNCHANGED <<disk, line, offered, written, crashes>>

Target(w) == index[w] + 1

\* renameSync(source, target)
Move(w) ==
    /\ pc[w] = "rename" /\ index[w] \in DOMAIN disk
    /\ Rename(index[w], Target(w))
    /\ Advance(w)
    /\ UNCHANGED <<line, offered, written, crashes>>

\* appendFileSync(filePath, payload), which creates the file; record() returns
AppendLine(w) ==
    /\ pc[w] = "append"
    /\ LET file == IF 0 \in DOMAIN disk THEN disk[0] ELSE [lines |-> <<>>, size |-> 0]
           longer == [lines |-> Append(file.lines, line[w]), size |-> file.size + line[w].size]
       IN  disk' = [x \in DOMAIN disk \cup {0} |-> IF x = 0 THEN longer ELSE disk[x]]
    /\ written' = Append(written, line[w])
    /\ Goto(w, "idle")
    /\ UNCHANGED <<index, line, offered, crashes>>

\* ENOENT: statSync or renameSync on a file another process has moved; record() throws
Throw(w) ==
    /\ \/ pc[w] = "stat" /\ 0 \notin DOMAIN disk
       \/ pc[w] = "rename" /\ index[w] \notin DOMAIN disk
    /\ Goto(w, "idle")
    /\ UNCHANGED <<disk, index, line, offered, written, crashes>>

\* the process is killed and started again, or the system call fails (a full disk, a
\* file in use): what the earlier calls did stays done
Crash(w) ==
    /\ pc[w] # "idle" /\ crashes < deployment.crashes
    /\ crashes' = crashes + 1
    /\ Goto(w, "idle")
    /\ UNCHANGED <<disk, index, line, offered, written>>

Init ==
    /\ deployment \in Deployments
    /\ disk = [f \in {} |-> <<>>]
    /\ pc = [w \in Writers |-> "idle"]
    /\ index = [w \in Writers |-> 0]
    /\ line = [w \in Writers |-> NoLine]
    /\ offered = 0
    /\ crashes = 0
    /\ written = <<>>

Step(w) ==
    \/ Record(w) \/ Exists(w) \/ Stat(w) \/ Probe(w) \/ Move(w)
    \/ AppendLine(w) \/ Throw(w) \/ Crash(w)

Next == UNCHANGED deployment /\ \E w \in Writers : Step(w)

Spec == Init /\ [][Next]_vars

-----------------------------------------------------------------------------
\* where a line is on disk: a file, and a position in it
Places == UNION {{f} \X DOMAIN disk[f].lines : f \in DOMAIN disk}
At(place) == disk[place[1]].lines[place[2]]
Older(p, q) == p[1] > q[1] \/ (p[1] = q[1] /\ p[2] < q[2])

OnDisk(l) == \E place \in Places : At(place) = l

\* l was recorded before m
Before(l, m) == \E i, j \in DOMAIN written : i < j /\ written[i] = l /\ written[j] = m

OneProcess == \E w \in Writers : Writers = {w}

\* With one process, wherever it was killed: what is on disk, read from the oldest
\* file to the newest, is the latest part of what was recorded - in order, without a
\* gap or a duplicate.
KeptIsLatest ==
    OneProcess =>
        /\ \A i, j \in DOMAIN written : i < j /\ OnDisk(written[i]) => OnDisk(written[j])
        /\ \A p, q \in Places : Older(p, q) => Before(At(p), At(q))

\* With one process, nothing is given up before there are MaxFiles files of newer
\* lines, except that a record cut short in the middle of a rotation costs one file.
LostOnlyWhenFull ==
    OneProcess /\ (\E i \in DOMAIN written : ~OnDisk(written[i])) =>
        Cardinality(DOMAIN disk) + crashes >= MaxFiles

\* With one process, a file is larger than MaxBytes only when it holds a single line that is.
FilesBounded ==
    OneProcess => \A f \in DOMAIN disk : disk[f].size <= MaxBytes \/ Len(disk[f].lines) = 1

\* With several processes: what is on disk was recorded, no line is in two places, and
\* each file's lines are in the order in which they were recorded.
NoLineTwice ==
    /\ \A p \in Places : \E i \in DOMAIN written : written[i] = At(p)
    /\ \A p, q \in Places : p # q => At(p) # At(q)
    /\ \A p, q \in Places : p[1] = q[1] /\ p[2] < q[2] => Before(At(p), At(q))
=============================================================================
