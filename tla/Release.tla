-------------------------------- MODULE Release --------------------------------
(***************************************************************************)
(* How the package follows its upstream: the scripts that pin a release,   *)
(* fetch its routes and regenerate the sources and documents made from     *)
(* them (src/scripts), the workflows that run them nightly, weekly and     *)
(* before a release (src/.github/workflows), and the people who edit the   *)
(* repository meanwhile.  A script reads its inputs when it starts and     *)
(* writes its files one after the other, and may fail between any two.  Of *)
(* a script that somebody runs, what it has written stays; the weekly job  *)
(* runs in a checkout of its own and ends in a pull request, or in nothing.*)
(***************************************************************************)
EXTENDS Routes

CONSTANTS
    History,       \* the router source of the upstream, one per commit
    Prereleases,   \* the versions that are tagged as such
    Fetches,       \* the pairs of a commit and a directory that people fetch with, and that
                   \* they classify routes and set SNAPSHOT_VERSION for (bound)
    MaxFailures,   \* scripts that fail (bound)
    MaxPackages    \* versions of the package (bound)

Versions == DOMAIN History      \* a version is the number of the commit it tags

\* The first version is stable.
ASSUME HistoryAssumption ==
    /\ History \in Seq(Sources) /\ \A v \in Versions : Legible(History[v])
    /\ Versions # {} /\ 1 \notin Prereleases

ASSUME BoundsAssumption ==
    Fetches \subseteq Versions \X Versions /\ MaxFailures \in Nat /\ MaxPackages \in Nat

Parsed == [v \in Versions |-> parseRoutesFromSource(History[v])]

-----------------------------------------------------------------------------
VARIABLES
    head,          \* the upstream's last commit
    released,      \* its last tagged version
    repo,          \* the repository's files, as far as one of them depends on another
    job,           \* the scripts still to be run, what the current one has yet to write,
                   \* and for the weekly job what differs in its checkout
    watch,         \* what the nightly watch has just found
    failures,
    published      \* the package's last version on npm

vars == <<head, released, repo, job, watch, failures, published>>

\* A directory of snapshots has the name of a version; it holds the routes of the commit
\* they were fetched from (0: none), and perhaps sources and a note of where all is from.
Snapshots == [Versions -> [sources : BOOLEAN, routes : 0 .. Len(History), metadata : BOOLEAN]]

Idle == [steps |-> <<>>, writes |-> <<>>, weekly |-> FALSE, changes |-> <<>>]

With(files, file, content) ==
    [f \in DOMAIN files \cup {file} |-> IF f = file THEN content ELSE files[f]]

\* the files as the running script sees them
tree == [f \in DOMAIN repo |-> IF f \in DOMAIN job.changes THEN job.changes[f] ELSE repo[f]]

File(name, content) == [file |-> name, content |-> content]

hasRouteSnapshot(files, version) == files.snapshots[version].routes # 0

\* the commit that the routes of SNAPSHOT_VERSION's directory are from
Source(files) == files.snapshots[files.SNAPSHOT_VERSION].routes

COVERAGE(files) == Coverageable(Parsed[Source(files)])

StartsWith(text, start) ==
    Len(start) <= Len(text) /\ SubSeq(text, 1, Len(start)) = start

\* Under these paths a route that has no case of its own goes by the last one.
CaughtAnyway(path) ==
    \/ /\ Len(path) > 1 /\ path[1] = "api"
       /\ StartsWith(path[2], "prompts") \/ StartsWith(path[2], "resources")
    \/ /\ Len(path) > 4 /\ SubSeq(path, 1, 3) = <<"api", "servers", ":serverName">>
       /\ path[4] \in {"tools", "prompts", "resources"}

\* whether it returns; classified: the routes that have a case of their own
classifyRoute(classified, key) == key \in classified \/ CaughtAnyway(key[2])

\* routes.json is there to read, and classifyRoute throws on none of its routes
CoverageLoads(files) ==
    /\ hasRouteSnapshot(files, files.SNAPSHOT_VERSION)
    /\ \A key \in KeysOf(COVERAGE(files)) : classifyRoute(files.classified, key)

\* newest first, the first that is neither a draft nor a prerelease
latestStableRelease ==
    CHOOSE v \in 1 .. released : /\ v \notin Prereleases
                                 /\ \A w \in 1 .. released : w > v => w \in Prereleases

-----------------------------------------------------------------------------
\* What each script writes, and in which order.

NoSnapshot == [sources |-> FALSE, routes |-> 0, metadata |-> FALSE]

Snapshot(ref) == [sources |-> TRUE, routes |-> ref, metadata |-> TRUE]

Into(directory, snapshot) == File("snapshots", [tree.snapshots EXCEPT ![directory] = snapshot])

\* mutant: what the parser makes of the sources is written before the sources are
routesFirst(ref, directory) ==
    LET old == tree.snapshots[directory]
    IN  <<Into(directory, [old EXCEPT !.routes = ref]),
          Into(directory, [old EXCEPT !.sources = TRUE, !.routes = ref]),
          Into(directory, Snapshot(ref))>>

\* commit and directory
DEFAULT_OPTIONS == <<1, 1>>

\* With --ref and --output-dir, neither of which decides the other: the sources, what the
\* parser makes of the first of them, and a note of where they are from.
fetchRoutesSnapshot(ref, directory) ==
    LET old == tree.snapshots[directory]
    IN  <<Into(directory, [old EXCEPT !.sources = TRUE]),
          Into(directory, [old EXCEPT !.sources = TRUE, !.routes = ref]),
          Into(directory, Snapshot(ref))>>

refreshPinnedCompatibility ==
    IF latestStableRelease = tree.pinned THEN <<>> ELSE <<File("pinned", latestStableRelease)>>

renderTargetsModule ==
    [pinned |-> tree.pinned, hasRouteSnapshot |-> hasRouteSnapshot(tree, tree.pinned)]

renderUpstreamDocs == tree.pinned

syncCompatibilityTargets ==
    <<File("targets", renderTargetsModule), File("upstream-mcphub.md", renderUpstreamDocs)>>

buildCompatibilityDocument(files) == files.targets
updateCompatibility == <<File("compatibility.md", buildCompatibilityDocument(tree))>>

renderCoverage(files) ==
    [version |-> files.SNAPSHOT_VERSION, routes |-> KeysOf(COVERAGE(files))]
updateCoverage ==
    <<File("api-coverage.md", renderCoverage(tree)), File("api-coverage.json", renderCoverage(tree))>>

renderTools(files) == KeysOf(COVERAGE(files))
updateToolsDocs == <<File("tools", renderTools(tree))>>

Scripts == {"fetch-routes-snapshot", "sync-compatibility-targets", "update-compatibility",
            "update-coverage", "update-tools-docs"}

\* mutant: the sources are left out of the weekly job
WeeklyStepsForgotten == <<"refresh-pinned-compatibility", "update-compatibility">>

\* the weekly job
WeeklySteps ==
    <<"refresh-pinned-compatibility", "sync-compatibility-targets", "update-compatibility">>

\* what a script that can be started may be about to write
Plans(script) ==
    CASE script = "fetch-routes-snapshot" ->
            {fetchRoutesSnapshot(f[1], f[2]) :
                f \in {DEFAULT_OPTIONS} \cup {g \in Fetches : g[1] <= head}}
      [] script = "refresh-pinned-compatibility" -> {refreshPinnedCompatibility}
      [] script = "sync-compatibility-targets" -> {syncCompatibilityTargets}
      [] script = "update-compatibility" -> {updateCompatibility}
      [] script = "update-coverage" -> {updateCoverage}
      [] script = "update-tools-docs" -> {updateToolsDocs}

Starts(script) ==
    script \in {"update-coverage", "update-tools-docs"} => CoverageLoads(tree)

-----------------------------------------------------------------------------
\* somebody runs a script
Run(script) ==
    /\ job = Idle
    /\ job' = [Idle EXCEPT !.steps = <<script>>]
    /\ watch' = "none"
    /\ UNCHANGED <<head, released, repo, failures, published>>

\* the weekly job is due
Weekly ==
    /\ job = Idle
    /\ job' = [Idle EXCEPT !.steps = WeeklySteps, !.weekly = TRUE]
    /\ watch' = "none"
    /\ UNCHANGED <<head, released, repo, failures, published>>

\* the next script reads its inputs, or throws, which ends the job
Start ==
    /\ job.steps # <<>> /\ job.writes = <<>>
    /\ IF Starts(Head(job.steps))
       THEN \E writes \in Plans(Head(job.steps)) :
                job' = [job EXCEPT !.steps = Tail(@), !.writes = writes]
       ELSE job' = Idle
    /\ watch' = "none"
    /\ UNCHANGED <<head, released, repo, failures, published>>

Write ==
    /\ job.writes # <<>>
    /\ LET write == Head(job.writes) IN
        IF job.weekly
        THEN /\ job' = [job EXCEPT !.writes = Tail(@),
                                   !.changes = With(@, write.file, write.content)]
             /\ UNCHANGED repo
        ELSE /\ job' = [job EXCEPT !.writes = Tail(@)]
             /\ repo' = With(repo, write.file, write.content)
    /\ watch' = "none"
    /\ UNCHANGED <<head, released, failures, published>>

\* the pull request of the weekly job is merged; nothing else writes the files it changes
\* meanwhile
Merge ==
    /\ job.weekly /\ job.steps = <<>> /\ job.writes = <<>>
    /\ repo' = tree /\ job' = Idle
    /\ watch' = "none"
    /\ UNCHANGED <<head, released, failures, published>>

\* a request for a file or for the releases is answered with an error, the job is killed,
\* or its pull request closed
Fail ==
    /\ job # Idle
    /\ failures < MaxFailures
    /\ failures' = failures + 1
    /\ job' = Idle
    /\ watch' = "none"
    /\ UNCHANGED <<head, released, repo, published>>

\* the coverage of now holds the routes, as the tests and verify-coverage have it
Covers(routes) ==
    LET found == verifyCoverageRoutes(COVERAGE(repo), routes)
    IN  /\ found.missingCoverageKeys = {} /\ found.extraCoverageKeys = {}
        /\ found.duplicateCoverageKeys = {}

\* nightly: the upstream's routes of now against the coverage of now; a load that throws
\* is a run that fails
Watch ==
    /\ watch' = IF CoverageLoads(repo) /\ Covers(Parsed[head]) THEN "passed" ELSE "failed"
    /\ UNCHANGED <<head, released, repo, job, failures, published>>

\* mutant: only the first of the two documents is compared
docsCurrentFirst ==
    /\ repo["compatibility.md"] = buildCompatibilityDocument(repo)
    /\ CoverageLoads(repo)
    /\ repo["api-coverage.md"] = renderCoverage(repo)
    /\ repo["tools"] = renderTools(repo)

\* the checks of the generated documents, each of which renders them anew; none is of
\* upstream-mcphub.md
docsCurrent ==
    /\ repo["compatibility.md"] = buildCompatibilityDocument(repo)
    /\ CoverageLoads(repo)
    /\ repo["api-coverage.md"] = renderCoverage(repo)
    /\ repo["api-coverage.json"] = renderCoverage(repo)
    /\ repo["tools"] = renderTools(repo)

\* a push to the main branch, or a run by hand: the checks, against the routes COVERAGE is
\* made from and those in the directory of the first version, and the package is published
\* unless npm has its version
Publish ==
    /\ docsCurrent
    /\ Covers(Parsed[Source(repo)])
    /\ hasRouteSnapshot(repo, 1) /\ Covers(Parsed[repo.snapshots[1].routes])
    /\ published < repo.package
    /\ published' = repo.package
    /\ watch' = "none"
    /\ UNCHANGED <<head, released, repo, job, failures>>

\* people: the classification and the version of the snapshot are kept by hand
Edit ==
    /\ \/ \E f \in Fetches :
            repo' = [repo EXCEPT !.classified = KeysOf(Coverageable(Parsed[f[1]]))]
       \/ \E f \in Fetches : repo' = [repo EXCEPT !.SNAPSHOT_VERSION = f[2]]
       \/ repo.package < MaxPackages /\ repo' = [repo EXCEPT !.package = @ + 1]
    /\ watch' = "none"
    /\ UNCHANGED <<head, released, job, failures, published>>

\* the upstream
Upstream ==
    /\ \/ head < Len(History) /\ head' = head + 1 /\ UNCHANGED released
       \/ released < head /\ released' = released + 1 /\ UNCHANGED head
    /\ watch' = "none"
    /\ UNCHANGED <<repo, job, failures, published>>

Init ==
    /\ head = 1 /\ released = 1
    /\ LET keys == KeysOf(Coverageable(Parsed[1]))
           targets == [pinned |-> 1, hasRouteSnapshot |-> TRUE]
           coverage == [version |-> 1, routes |-> keys]
       IN  repo = [file \in {"pinned", "targets", "upstream-mcphub.md", "compatibility.md",
                             "api-coverage.md", "api-coverage.json", "tools", "snapshots",
                             "SNAPSHOT_VERSION", "classified", "package"} |->
                    CASE file \in {"pinned", "upstream-mcphub.md", "SNAPSHOT_VERSION"} -> 1
                      [] file = "package" -> 0
                      [] file \in {"targets", "compatibility.md"} -> targets
                      [] file \in {"api-coverage.md", "api-coverage.json"} -> coverage
                      [] file \in {"tools", "classified"} -> keys
                      [] file = "snapshots" ->
                            [v \in Versions |-> IF v = 1 THEN Snapshot(1) ELSE NoSnapshot]]
    /\ job = Idle /\ watch = "none" /\ failures = 0 /\ published = 0

Next ==
    \/ \E script \in Scripts : Run(script)
    \/ Weekly \/ Start \/ Write \/ Merge \/ Fail \/ Watch \/ Publish \/ Edit \/ Upstream

Spec == Init /\ [][Next]_vars

\* Nothing keeps the people from their scripts, but the weekly job is due again and again;
\* what has been started runs on, and its pull requests are merged.
FairSpec == Spec /\ SF_vars(Weekly) /\ WF_vars(Start) /\ WF_vars(Write) /\ WF_vars(Merge)

TypeOK ==
    /\ released \in Versions /\ head \in released .. Len(History)
    /\ repo.pinned \in Versions /\ repo.SNAPSHOT_VERSION \in Versions
    /\ repo.snapshots \in Snapshots
    /\ \A v \in Versions : hasRouteSnapshot(repo, v) => repo.snapshots[v].sources
    /\ job.steps \in Seq(Scripts \cup {"refresh-pinned-compatibility"})
    /\ watch \in {"none", "passed", "failed"}
    /\ failures \in 0 .. MaxFailures /\ published \in 0 .. repo.package

-----------------------------------------------------------------------------
\* The nightly watch passes only when every route that the upstream serves, and that is not
\* one of those the parser gives up on, is one the package covers, each with a case of its
\* own in classify.ts or under a path whose last case takes all; and it fails only when one
\* is not covered, when classify.ts does not take one of the package's own snapshot, or when
\* two calls of it register the same (docs/upstream-mcphub.md: "New upstream management
\* routes should fail route-drift and coverage checks until they are classified").
ReadableOf == [v \in Versions |-> Readable(History[v])]

WatchTellsDrift ==
    LET covered == ReadableOf[Source(repo)]
        unknown == {key \in covered : key \notin repo.classified /\ ~CaughtAnyway(key[2])}
    IN  /\ watch = "passed" => /\ hasRouteSnapshot(repo, repo.SNAPSHOT_VERSION)
                               /\ ReadableOf[head] \subseteq covered /\ unknown = {}
        /\ watch = "failed" => \/ ~hasRouteSnapshot(repo, repo.SNAPSHOT_VERSION)
                               \/ ~(ReadableOf[head] \subseteq covered)
                               \/ unknown # {}
                               \/ Duplicate(COVERAGE(repo)) # {}

\* What is published describes itself, whatever was edited, run or cut short before: its
\* coverage and its tool catalogs list the routes the upstream served at the commit that its
\* SNAPSHOT_VERSION directory was last filled from, compatibility.md the targets it is built
\* with (docs/release-process.md: "These files must stay in sync with code"), and where
\* those say that a snapshot is committed there are sources and routes in its directory.
PublishesWhatItDescribes ==
    [][published' # published =>
        /\ hasRouteSnapshot(repo, repo.SNAPSHOT_VERSION)
        /\ \A doc \in {"api-coverage.md", "api-coverage.json"} :
                repo[doc] = [version |-> repo.SNAPSHOT_VERSION,
                             routes |-> ReadableOf[Source(repo)]]
        /\ repo["tools"] = ReadableOf[Source(repo)]
        /\ repo["compatibility.md"] = repo.targets
        /\ repo.targets.hasRouteSnapshot =>
                repo.snapshots[repo.targets.pinned].sources
                /\ hasRouteSnapshot(repo, repo.targets.pinned)]_vars

\* Again and again the pinned release is the upstream's latest stable one, and the targets
\* and both documents say so, though jobs are cut short between any two files.
CatchesUp ==
    []<>(/\ repo.pinned = latestStableRelease
         /\ repo.targets.pinned = repo.pinned
         /\ repo["upstream-mcphub.md"] = repo.pinned
         /\ repo["compatibility.md"] = repo.targets)
=============================================================================
