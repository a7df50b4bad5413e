# TLA+ models of the MCPHub Management MCP server

`@garvae/mcp-mcphub` is a Node process that offers the REST Management API of
an MCPHub instance (the *upstream*) as MCP tools: over stdio to one client, or
over Streamable HTTP to many. This directory models the parts of it whose
correctness depends on the order of things (awaits, timers, retries, shared
caches, counters, files, scripts run one after the other) and on tables and
lists that are kept apart and have to agree. Paths below are relative to the
repository's `src/` (so `src/core/…` is the package's code, `scripts/…` its
build scripts).

A module is run with `tlc -config X.cfg M`, its proofs with `tlapm M.tla`.
`PROJECT.json` lists the runs, the lines each definition models (`map`), the
hazards, the findings and, for each property, a mutant of the code that breaks it
(the definitions commented *mutant*, which no specification uses).

## 1. The system

```
 files, environment, options --> cli, config --> doctor | stdio | http
                                                          |
 MCP client --stdio--> transports/stdio --+<--------------'
                                          v
 MCP client --HTTP---> transports/http/server (host, origin, authentication,
                         |   limiter, body)
                         |-- stateless mode: transports/http/stateless --+
                         '-- stateful mode: the SDK's transport ---------+
                                          |           audit ------------+--> file
                                          v
                 mcp/server, mcp/registry (tools, policy checks, redactor, log poller)
                                          v
                 core/mcphub-client (credentials, request executor) --HTTP--> upstream
                                                                               |
 scripts/*, workflows: routes snapshot, coverage, targets, documents <--routes-'
```

| Component | State it keeps | Operations | Interacts through | What is hard | What makes it correct |
|---|---|---|---|---|---|
| **Upstream client** `core/mcphub-client/{request,auth-headers,errors}.ts` | `currentToken` and `refreshPromise`, closure variables shared by every call; per attempt its timer, `remainingRetries`, `authRetryAvailable` | `execute`/`run`, `getHeaders`, `invalidate`, `login`, `exchangeOAuthToken` | one `refreshPromise` many calls await; the upstream over HTTP | calls interleave at every await; the timer races headers and answers; a late 401 invalidates a token that is no longer the one refused; three recursive calls share two budgets | one refresh at a time; a call that is not idempotent takes effect at most once; bounded messages; a truthful outcome; every call settles |
| **HTTP server** `transports/http/server.ts` | `rateLimitBuckets`; per request its position in the handler | gates (host, path, origin, method), four authentication modes, limiter, body, dispatch | introspection endpoint, session endpoint, limiter, audit log, MCP server | two awaits in authentication with a fall-through between mechanisms; a counter between authentication and body; anything may throw | what is done is vouched for at the right rank and recorded; counted exactly once; always answered |
| **Rate limiter** `checkRateLimit` | bucket (`count`, `resetAt`) per credential and path | one check, counting | called by the HTTP server | the reset instant; the bound over windows that are not its own | at most 2·max−1 in any window; nobody refused without cause |
| **Stateless dispatch** `transports/http/stateless.ts` | per request: `pending` (resolver and 10 s timer), its own server, transport and client | validate, audit, dispatch, time out, respond, close | audit log before, MCP server after | the handler goes on when its caller has been answered; late answers | nothing done without a line in the log; an answer never says more than is known |
| **Audit log** `observability/audit.ts` | the file and its numbered predecessors | `record` = check the size, rotate, append | synchronous; other processes share the file | a crash between two renames; two processes rotating at once; loop bounds at 0 and 1 files | what is on disk is the latest part of what was recorded |
| **Log poller** `mcp/server.ts` | `lastLogsPayload`, an interval | poll, compare, announce | upstream client; `resources/updated` to the MCP client | polls overlap; a rejected poll is nobody's; the client reads later than the poll | a client that rereads when told comes to hold the logs |
| **Tool registry** `mcp/registry.ts`, `core/coverage/classify.ts`, `core/mcphub-client/client.ts`, `core/risk` | none (built from configuration); three tables | filter, gate, validate, call | configuration, policy checks, redactor, upstream client | profile and risk, feature flags, confirmation schemas and endpoints are declared apart, for 109 tools | read-only and safe mean that nothing changes; annotations are honest |
| **Redaction** `core/redaction` | none | `redactValue` of a JSON value | every tool result and resource | keys redacted at any depth, secrets inside longer strings | nothing of a secret shape is left |
| **Policy checks** `security/*` | none | URL, command and description predicates | registry | URLs at any depth of any body of a batch; ranges octet by octet | what is written names no private IPv4 or unlisted target; a description that passes the lint is shown as it was written |
| **Configuration** `config/*`, `cli/config-loader.ts` | the frozen configuration | merge file and environment, schema, profiles, tokens | read once by each command | precedence of sources; a credential may be the *name* of a variable | a file's settings are not hidden by empty variables |
| **CLI and doctor** `cli/*`, `transports/stdio/server.ts`, `core/mcphub-client/factory.ts` | one process per command | `doctor`, `stdio`, `http` | files, environment, upstream | three commands load, select and retry on their own, while people edit | what the doctor vouches for holds for the server |
| **Coverage and release** `scripts/*`, `core/coverage/{matrix,verify,routes-snapshot}.ts`, `core/compatibility`, `.github/workflows` | snapshots, pinned release, generated sources and documents | fetch, parse, refresh, sync, render, verify, publish | files made from one another; the upstream's repository | scripts fail between two files; lists kept by hand; a static reading of a router | drift is reported; what is published describes itself; the weekly job catches up |
| **Logger**, **response schemas**, **package maintenance scripts** | none | formatting, parsing, listing | – | – | – |

## 2. Modules

Every stretch of code between two awaits is one action (Node runs it without
interruption); for the audit log, which other processes share, every system
call is; for the scripts, every file written.

| Module | Models | State ↔ code |
|---|---|---|
| `UpstreamCall` | what a call promises its caller: the abstract specification | `answer` what the caller knows, `effects` how often the upstream carried it out |
| `UpstreamClient` | `request.ts`, `auth-headers.ts`, `errors.ts`, and, as its environment, the authorization server, the API, the network and token lifetimes | `currentToken`, `refresh` = `refreshPromise`; `remaining`, `authRetry`, `timedOut` are the parameters and the abort controller of the innermost `run()`; `sent`, `reply`, `asked`, `issued` are messages under way; `fetches`, `applied`, `rejected` are history |
| `MCUpstreamClient`, `UpstreamClientProofs` | a GET and a POST for TLC; the proofs | |
| `RateLimiter`, `RateLimiterProofs` | `checkRateLimit`; its proofs | `buckets` = `rateLimitBuckets`, `now` = `Date.now()`, `granted` is history |
| `StatelessDispatch` | `handleStatelessHttpRequest`, `DirectResponseTransport` | `pending` = `transport.pending`, `settled` what its promise got, `handler` the MCP server's side, `status` the code written |
| `MCStatelessDispatch` | a message for every outcome of the checks (its proofs are in `HttpGatewayProofs`) | |
| `HttpGateway` | the request handler of `transports/http/server.ts`; **composes** `StatelessDispatch` (`EXTENDS`; its specification goes by `DispatchInit`, `DispatchNext`, …) and `RateLimiter` (`INSTANCE`) | `stage` is the await a request is at, `auth` the `HttpAuthResult`, `up` whether the process is |
| `MCHttpGateway`, `HttpGatewayProofs` | inputs, tokens, deployments (`config`); the proofs, of the dispatch by itself and of the server | |
| `AuditLog`, `MCAuditLog`, `AuditLogProofs` | `writeAuditLine`, `rotateAuditFile`; deployments (number and size of files, writers); the proofs | `disk` the files that exist by number, each with its lines and size, `pc` the next system call, `index` the loop variable, `written` is history |
| `ResourcePoller`, `ResourcePollerProofs` | the interval in `createManagedMcpServer`, the upstream's logs, a client that rereads; the proof | `last` = `lastLogsPayload`, `listing`/`reply` the polls at their await |
| `Tools` | the tables: `classify.ts`, `requiredFeatureFlags`, the endpoints of `client.ts`, annotations, `filterEnabledTools` | one operator per classification function and per section of endpoints |
| `Redaction`, `Policies` | `core/redaction`; `security/*` | documents as sets of leaves |
| `ToolRegistry` | `tools/call`; **composes** `Tools`, `Policies` and `Redaction` | the settings are the options of `createToolRegistry`, `performed` the last call that reached the upstream with the result the client sees |
| `MCToolRegistry`, `ToolRegistryProofs` | eight kinds of input; the proofs, of the tables tool by tool and of the calls | |
| `Config` | `config/*`, `cli/config-loader.ts`, `collectConfigWarnings` | pure: environments are functions from keys to texts |
| `Launch` | `doctor`, `stdio` and `http`; **composes** `Config` and `Tools` | `doctor`, `server` the two processes with the configuration each has loaded (and `failure`, why a command did not start); `files`, `env`, `accepted` what lies outside them |
| `MCLaunch`, `LaunchProofs` | files, environments, options, edits; the proofs | |
| `Routes` | `scripts/parse-routes.ts`, `core/coverage/verify.ts`, and what Express serves | pure: a source is a sequence of calls on three routers |
| `Release` | the scripts, the workflows and the people who edit; **composes** `Routes` | `repo` the files, with the directories of snapshots (sources, the commit of the routes, metadata) and the routes that `classify.ts` has a case for; `job` the scripts yet to run and what the current one has yet to write, `watch` the nightly result |
| `MCRelease`, `ReleaseProofs` | three commits of the upstream; the proofs, of the parser and of the scripts | |

**Order of writing.** The upstream client came first, every effect passing
through it; then the limiter, the audit log and the poller, which stand alone;
the stateless dispatch and, on top of it and of the limiter, the HTTP server;
the tables and the registry, with redaction and the policy checks; then what is
around the process: configuration and commands, the scripts and the release.

**Abstract specifications.**

- `UpstreamCall` says what a call is worth to its caller: it is answered once;
  *done* and *refused* are true and stay true; only *unknown* leaves open what
  the upstream did; a call that is not repeatable takes effect once at the most,
  and never after it was refused. `UpstreamClient` implements it
  (`KeepsPromise == Call!Spec`, with `answer` read off stage and outcome), which
  is checked by `client_live` and proved as `KeepsPromiseHolds`.
- `RateLimiter` is the abstract specification of the limiter inside
  `HttpGateway`: `LimiterRefined == Limiter!Spec` is checked as a property of the
  composed system and proved as `LimiterRefinedHolds`. With it what is proved of
  `RateLimiter` alone carries over to the whole server (`ServerSlidingBound`).
- `ServedBy` in `Routes` (a route under the paths of every chain of mounts that
  leads to its router) is the reference definition that the parser's fixpoint over
  prefixes is held against, by the runs for the sources of three commits and by
  `ParserReadsWhatExpressServes` for every source; and `PrivateNetworks`
  in `ToolRegistry` (ranges of numbers) the one for the octet comparisons of
  `isPrivateIpv4`.

## 3. Runs

| Run | Question | Bounds |
|---|---|---|
| `client_jwt` | A GET and a POST share a JWT provider: single flight, two tokens before *unauthorized*, at most once, message budget, honest outcome, no older token put back | 1 retry; a configured token of any age and 2 minted |
| `client_live` | Every call settles though the API never answers; the client implements `UpstreamCall` | 1 retry; 1 token minted |
| `rate_limiter` | The limit seen from any window, not only the limiter's own; nobody refused without cause | 2 keys, limit 2, window 3, 8 instants |
| `audit` | What is on disk is the latest part of what was recorded, no file is given up early, files stay within the limit, no line is written twice – by one process cut short between any two system calls, and by two processes on one file | alone: 0, 1, 2 and 4 files, 4 lines more than files, of 3 sizes, limit 3, 2 cuts; shared: 2 files, 4 lines, 2 cuts |
| `poller_updates` | Overlapping polls do not lose the last change | 2 polls, 3 entries, 1 clearing, 1 failure |
| `poller_failure` | *finding* – one failing poll ends the process | 1 poll, 1 entry, 1 failure |
| `stateless` | Audit before effect, truthful answers, always an answer | 2 requests, 10 messages |
| `gateway` | Stateless mode with hybrid authentication, stateful mode with each: effects vouched for and audited, counted once, the limiter refined, every request answered unless the process ends over a target that is no URL | 2 requests, one of 4 ordinary kinds, one of 15; limit 1 per window of 1 |
| `registry` | All 109 tools under each combination of profile, feature flags, read-only mode, target hosts and redaction: read-only changes nothing, annotations are honest, what cannot be undone was confirmed, what is written was vetted, updated descriptions read back, secrets stay inside | 8 inputs, an upstream answer of 4 leaves and the description; settings change between calls |
| `launch` | What a doctor that passed, and one that had no warning, is worth to the server started after it; `--readonly`; empty variables | 3 sets of files, 3 environments, 5 sets of options, 8 edits of which 1 is made, 2 credentials that may be withdrawn at any time; the address and the audit file may fail |
| `launch_readonly` | *finding* – `MCP_FORCE_READONLY=true` does not reach a server started from the command line | as `launch` |
| `coverage` | The nightly watch tells every drift and no other; what is published describes itself; the weekly job catches up | 3 commits, the second a prerelease, the third with a route under a path whose last case takes all; fetches of the first commit, of the third into its own directory and of the second into that of the first; 1 failure; 1 new version of the package |

**Why the bounds are enough.** Two calls, requests, polls or writers exhibit
every race that is pairwise, and these are the only ones the code has: the
shared state is a token, a promise, a counter, a remembered sample. One retry
has both sides of `remainingRetries > 0` and its combination with the 401
retry; the configured token and two more are what `UnauthorizedAfterTwoTokens`
needs to be violated by an invalidated newer token; for `KeepsPromise` one
minted token is enough, since its counterexamples are about messages and not
about tokens. Eight instants are more than two windows of three, so a request
falls before, on and after a reset. Four lines more than there are files, of
sizes up to the limit and beyond, fill every file and rotate the oldest away;
0, 1, 2 and 4 files are the loop of `rotateAuditFile` not run, run once and run often.
The inputs of `registry` pass, or fail, one check each, with addresses on both
sides of a range's border. In `launch` one edit falls into any gap between
doctor and server, which is all that `unchanged` can be lost by; two files with
different credentials and two kinds of token reach every branch of the doctor,
and one of them names an audit file.
Three commits give a release that is skipped, a route that the parser does not
see, a router mounted twice, mounts in the wrong order and a route that is
covered without having been classified; a failure cuts a script or the weekly job
short between any two files, after which each can be run again, and the two extra
fetches are the two things that a directory's name can be to what is in it. Where
something is proved it does not depend on bounds at all; in particular the other
kinds of credential (OAuth, a token that cannot be renewed) and any number of
retries are covered by the theorems about `UpstreamClient`, and any files,
options and number of edits by those about `Launch`.

**Fairness.** Every `FairSpec` states the scheduling the code relies on and no
more.
- `UpstreamClient`: `setTimeout` callbacks and promise continuations run
  (`Send`, `Wake`, `Timeout`). A token exchange ends somehow: it is fetched
  without a signal, but undici gives up on a silent server (its headers timeout,
  five minutes by default). API answers are *not* assumed: the timer ends them.
- `StatelessDispatch`: the 10 s timer fires and continuations run; a tool
  handler need not return.
- `HttpGateway`: in addition the fetches of authentication end, each bounded by
  `authValidationTimeoutCapMs`, and a body arrives or its connection is cut
  (`requestTimeout` of `node:http`). In stateful mode liveness ends with the
  opening of the stream, which may stay open.
- `ResourcePoller`: the interval fires, reads that do not fail are answered,
  and the client rereads when told to. Failures and clearings are not fair.
- `Release`: a script that has been started runs on (`Start`, `Write`); the
  weekly job is due again and again, but only starts when nothing else is
  running (`SF`), and a pull request that it opens is merged (`Merge`). The last
  is an assumption about the maintainers, without which nothing catches up.
  Failures are bounded, edits and manual scripts are not fair.

`CHECK_DEADLOCK FALSE` stands where a bounded run really ends: all calls
settled, all lines recorded, the session closed.

## 4. Proofs

TLAPS proves, for every value of the constants, with no assumption beyond the
named ones in the modules (`RetryAttempts \in Nat`, `Retryable \subseteq
Requests`, `NoToken \notin Nat`, `MaxRequests` and `Window` positive, inputs
whose leaves are leaves and whose octets are octets, …):

| Theorem | Inductive invariant and why it is needed |
|---|---|
| `UpstreamClientProofs!TypeCorrect` | `TypeInv`: `remaining[r] - 1` is a natural number only because a call backs off with a retry left, and a message carries a token only because a call past `getHeaders` holds one |
| `AtMostOnceHolds`, `HonestOutcomeHolds` | `CallInv`: that a POST was applied at most once is not inductive; it is that it has at most one message under way, never applied yet, and none once it was refused |
| `FetchBudgetHolds` | `BudgetInv`: messages sent plus those the current budgets still allow never exceed the total; each recursive call of `run()` pays from one of the two budgets |
| `SingleFlightHolds`, `TokenNeverRegressesHolds` | `RefreshInv`: `refreshPromise` is pending exactly while one exchange is asked for or its token, the newest one, is on its way back; `invalidate()` cannot disturb this because it leaves `refreshPromise` alone |
| `UnauthorizedAfterTwoTokensHolds` | `RejectedInv`: a token under way is held by nobody (`FreshToken`), so the token a call gets after its 401 is one that was not refused to it before – even when another call refreshes in between |
| `KeepsPromiseHolds` | the refinement of `UpstreamCall`: initial states map to initial states, and each action, under `TypeInv` and `CallInv`, maps to `Ask`, `TurnAway`, `CarryOut`, `Settle` or a stutter; a failing refresh settles all its waiters at once, which is why `Settle` takes a set of calls |
| `SlidingBoundHolds`, `RefusedOnlyAfterMaxHolds` | `Inv`: the bucket counts the latest requests of its key, `resetAt` is a window after the first of them, and a request that has no request a window later at most 2·max−1 places on lies in the current window, or in the one before and not first |
| `AuditBeforeEffectHolds`, `AnswerTellsTheTruthHolds` (in `HttpGatewayProofs`) | `DispatchInv`: a handler is at work on a settled request only if its timer ran out; `pending` is set exactly while the request waits |
| `ToolRegistryProofs!TypeCorrect` and the six theorems on what a call went through | `IInv`: a performed call still satisfies what it was let through for (`Vetted`), its result is the redacted answer with the description of now, and every description that an update tool has set has passed the lint, whichever tools were called since (`Described`). The rest is about the tables: `ToolsConsistent` goes through all 109 tools, operator by operator; `RemovalsTakeConfirmation` compares endpoints with confirmation schemas; `NetworkOctets` is the arithmetic of the address ranges; `RedactedLeaf` says of the redactor, for documents of any shape and depth, that nothing of a secret shape is left |
| `DoctorVouchesHolds`, `SilentDoctorIsSafeHolds`, `ReadonlyOptionHoldsAlways` | `LaunchProofs!IInv`: while nothing has changed the doctor's configuration is the one a command would load (`LoadedNow`), and a credential it has got through with is still among those the server's client would try (`Heard`, `Vouched`), so of the ways to fail only those of the address and the audit file are left. How an environment becomes a configuration is never expanded |
| `BlankHidesNothingHolds` | an action property: only `Start` brings a server up, and merging a file with an environment drops the blanks in any case (`BlanksDropOut`) |
| `EffectsVouchedAndAuditedHolds`, `CountedOnceHolds` | `HttpGatewayProofs!IInv`: a request that waits on an authentication service came through the gates in a mode that has it and carries nothing of another mechanism (`AwaitInv`); whoever is past the limiter was admitted, and whatever is at work was recorded before (`PassInv`); a key's grants number the requests admitted under it (`CountInv`), which needs that a 429 closes its request |
| `LimiterRefinedHolds`, `ServerSlidingBound` | initial states map to initial states; under `IInv` a step that asks the limiter maps to `Grant` of `RateLimiter`, a tick to `Tick`, every other step stutters. The second instantiates `SlidingBoundHolds` with the server's buckets |
| `ServerTellsTheTruth` | `TurnInv`: in stateless mode `DispatchInv` holds among the requests of the server, and a request that is not with the dispatch has not been there; every answer that is given without the dispatch (a 401, a 429, a broken body) is therefore about a request of which nothing was done |
| `KeptIsLatestHolds`, `LostOnlyWhenFullHolds`, `FilesBoundedHolds` (one process) | `AloneInv`, on top of `SharedInv`: what the earlier system calls of a record saw still holds (`Undisturbed`), above all that a file is moved onto a free number unless it is the highest, so that nothing but the oldest file is ever overwritten (`LostAtTop`); the numbers without a file are no more than the records cut short (`HoleInv`), and a file is larger than the limit only with its first line (`Small`) |
| `NoLineTwiceHolds`, `AuditLogProofs!TypeCorrect` (any processes) | `SharedInv`: every line has a name of its own, those being recorded too (`NameInv`), a rename takes a file whole and leaves nothing behind (`Apart`, `InOrder`), and the loop variable stays below the highest number (`IndexInv`) |
| `ParserReadsWhatExpressServes` | no invariant, a fact about `Routes`: the prefixes of the fixpoint are always paths of chains of mounts (`PassWithin`), the chains in a source without a cycle are at most two mounts long (`ChainsAre`), and three passes over three routers find them in whatever order the calls are written (`ComputePrefixesIs`) |
| `WatchTellsDriftHolds`, `PublishesWhatItDescribesHolds`, `ReleaseProofs!TypeCorrect` | `IInv`: routes are of a commit the upstream had and never stand in a directory without sources (`HasSources`), the content of the directories only grows (`Grows`), so what a script has yet to write goes on fitting what is there (`Pending`, `WritesInv`) although others edit and publish in between; what decides `WatchTellsDrift` is then a fact about the parser and the two lists; of a release that is looked for the newest stable one exists (`LatestStableReleaseIs`, by induction over the version's number) |
| `NextPollNoticesHolds` | `Grown`: logs that are not cleared only grow, no sample is newer than they are, and when the last sample is the logs of now the client holds them or has been told |

Each follows Init ⇒ Inv, Inv ∧ [Next] ⇒ Inv′ with a step per action, Inv ⇒ the
property; the temporal step is PTL.

About the assumptions: `HistoryAssumption` says that the upstream's router
sources are legible, without a cycle of mounts, on which the parser would not end,
and without a mount through a middleware, which it does not see (section 5,
no. 10), and that its first version is a stable one, without which the refresh
script has nothing to pin. `AuditLog` assumes nothing but natural numbers for its
settings, of which 0 is one. The library's induction theorems take an operator
as a parameter and cannot be used here; induction over a *set* of numbers can be
had from the well-foundedness of `<` on the naturals (`SetInduction` in
`ReleaseProofs`), which the searches for a version and the unfolding of the
parser's passes rest on.

**Only model-checked:** liveness (`EveryCallSettles`, `UpdatesWhileAlive`,
`EveryMessageAnswered`, `EveryRequestAnswered`, `CatchesUp`), which is out of the
prover's reach, and the counterexamples of the two findings. Every other property
of the runs is proved.

## 5. Where the code and its documentation disagree

Shown by a run:

1. `poller_failure` – `mcp/server.ts:133`: a rejected poll is an unhandled
   rejection, which ends the process.
2. `launch_readonly` – `transports/stdio/server.ts:48`,
   `transports/http/server.ts:536` and `:564`: the commands always pass
   `forceReadonly`, so `options.forceReadonly ?? config.forceReadonly` never comes
   to the configured value, and `MCP_FORCE_READONLY=true` has no effect on a
   server started from the command line. `--readonly` does what it says
   (`ReadonlyOptionHolds`).

Seen while modelling, without a run:

3. `core/mcphub-client/auth-headers.ts:122`: token exchanges take no signal;
   `MCPHUB_REQUEST_TIMEOUT_MS` ("Timeout for one upstream HTTP request") does not
   bound them. `docs/configuration.md` gives its default as 30000, the code
   (`config/defaults.ts:8`) as 10000.
4. `transports/http/server.ts:72`: `MCP_EXPOSE_ENDPOINTS` does not decide which
   paths exist; it feeds a warning of the doctor, and all four paths are served.
5. `mcp/server.ts:142`: the poller compares with its own last sample, so a change
   back to it between two polls is not announced to a client that has read the
   state in the middle (`UpdatesKeepComing` with `MaxClears = 1`, no failure).
   This is why `NextPollNotices` and `UpdatesWhileAlive` leave clearings out.
6. `observability/audit.ts:34`: `MCP_AUDIT_MAX_FILES=0` retains one rotated file.
7. `observability/audit.ts:25`: a rotation cut short leaves a gap, and the next
   one overwrites the oldest file before it fills the gap; hence the `crashes`
   in `LostOnlyWhenFull`.
8. `mcp/registry.ts:1148`: the tools that create or update servers, groups,
   users, and create built-in prompts and resources, of class *destructive*, take
   no confirmation, while docs/security.md says destructive tools require one
   (and `classify.ts` notes it of `update_server`); `RemovalsConfirmed` says what
   is left of it.
9. `core/coverage/verify.ts:36`: coverage keys that the upstream no longer serves
   are never reported, the coverage being compared with the routes that it is made
   from, though `scripts/verify-coverage.ts:25` has a message for them.
10. `scripts/parse-routes.ts` does not see PATCH routes, nor routers mounted
   through a middleware, so such a route is no drift (`WatchTellsDrift` is stated
   for the readable ones); on a cycle of mounts it does not end.
11. `core/coverage/routes-snapshot.ts:9`: the coverage documents are made from
   `SNAPSHOT_VERSION`, while the compatibility document names the baseline of
   `config/upstream-compatibility.json`; nothing compares the two.
12. `scripts/refresh-pinned-compatibility.ts`: the pinned target is the newest
   stable release by date, and may go back when an old line is patched.
13. `transports/http/server.ts:457`: `new URL(request.url …)` comes before the `try`
   of the handler, which is async: a target that it does not take (`//`) gets no
   answer, and the rejection nobody handles ends the process, with every other
   request. `RejectTarget` is this step, and `EveryRequestAnswered` leaves it out.
14. `security/ssrf.ts:62`: `URL.hostname` has IPv6 addresses in brackets, for
   which `isIP` gives 0, so that `http://[::1]` and `http://[fd12::1]` are let
   through, while docs/security.md:83 says that literal private-network URLs are
   blocked and tests/unit/security.test.ts:20-22 try the predicate without the
   brackets. `TargetsVetted` speaks of localhost and of IPv4 hosts, and of IPv6
   addresses only where target hosts are listed.
15. `mcp/registry.ts:1116` and `:1131`: the tools that create built-in prompts and
   resources write a description that no lint has seen, and so do those that send
   a loose body (servers, groups, users, keys, clients). docs/security.md:100
   promises it of update handlers only; such a description may read back with a
   placeholder, so `DescriptionReadsBack` is about the update tools.
16. `transports/stdio/server.ts:54-60`: the line *stdio.start* is written after the
   transport was connected. When the audit file cannot be written the command
   says "Failed to start stdio transport" and sets exit code 1, but the process
   goes on serving its client; over HTTP each request gets a 500. The doctor
   tries neither the audit file nor the address to listen on.
17. `core/coverage/classify.ts:148`, `:179`, `:209`, `:401` and `:462`: under
   `/api/servers/:serverName/{tools,prompts,resources}/`, `/api/prompts` and
   `/api/resources` the last case takes every route, so a new one (say
   `DELETE /api/prompts/cache`) is covered as *delete built-in prompt* though
   nobody classified it, and, once it is in the snapshot, passes the watch that
   docs/upstream-mcphub.md:38 says it should fail. `WatchTellsDrift` says what the
   watch does tell.
18. `scripts/sync-compatibility-targets.ts:188`: `docs/upstream-mcphub.md` is generated
   like `compatibility.md`, but no check compares it, so a script cut short between
   its two files leaves it stale, also in a published version. `CatchesUp` has it
   repaired by the next weekly job; `PublishesWhatItDescribes` cannot include it.
19. `scripts/fetch-routes-snapshot.ts:24-28` and `:53-55`: the directory does not depend
   on the version label or on the commit, and is that of 1.0.15 by default (as is
   the file that `scripts/verify-coverage.ts:16` reads): `--ref` alone overwrites
   that baseline with the routes of another commit, and the coverage documents
   then list them under its version. `PublishesWhatItDescribes` speaks of the
   commit a directory was last filled from.
20. `--exposure` is not validated: an unknown profile gives a server without
   tools. `ALLOW_SECRET_EXPORT` is read and used nowhere. The doctor's probe has
   no timeout, and retries with a fresh login after any error.

## 6. Abstractions

- A call's URL, headers and body and a log's text are left out; one
  representative stands for each outcome the code distinguishes (`busy` = 429 and
  5xx, `refused` = any other 4xx, `garbled` = not JSON).
- Headers and body of an upstream answer arrive together; a body that breaks off
  is a transport failure, as it is in the code's `catch`.
- `RefreshResolves` caches the token, clears `refreshPromise` and resumes the
  waiters in one step; in the code these are successive microtasks of one turn,
  which nothing else gets between.
- A token's `exp` claim, its real validity and its revocation are one `age`; the
  provider sees only the claim, the upstream only validity.
- An audit line is appended whole (`appendFileSync`); what fails before counts as
  a crash, whatever the reason.
- `status` is the code the handler writes; when a body over the limit has
  destroyed the socket it may not reach the client.
- Hosts, origins, tokens and cookies of a request are represented by what
  comparing them yields; what an authentication service answers is any of its
  possible answers.
- An endpoint goes by the name of the one tool that calls it.
- In stateful mode the SDK's transport is external: it starts a handler or not,
  and ends the response at some time.
- A JSON document is the set of its leaves, each with the keys on the way to it;
  array positions are no keys. A text is the set of the fragments it is made of,
  one fragment standing for everything that a regular expression matches.
- A URL is its scheme and host; of an IPv4 host the first two octets are kept,
  which is all the code looks at; of an IPv6 address, the text it begins with, and
  the brackets that `URL.hostname` puts around it.
- An environment is a function from keys to texts; what JSON.parse and a split at
  commas make of a text is looked up in a constant. Numeric settings, paths (but for
  whether there is an audit file) and names for logs are left out.
- A JWT in `Launch` does not expire by itself: a token about to lapse counts as
  withdrawn.
- A router source is the sequence of its calls; a path is the sequence of its
  segments, whose texts `startsWith` in `classifyRoute` looks into. Whether a route
  has a case of its own in `classify.ts` is a set that people keep up. The documents of the tools are one file, being written by one script
  from one input.

## 7. Not modelled, and why

- **Prompts, settings resource**: fixed texts, one upstream read.
- **Package maintenance scripts** (`audit-package`, `cleanup-real-fixtures`,
  `copy-runtime-fixtures`): listings, deletions and copies without a state of
  their own.
- **Logger, response schemas**: formatting and parsing.
- **`assertNotManagementServer`** (`security/self-protect.ts`): nothing calls it.
- **Baseline and minimum versions** that `compatibility.md` and
  `docs/upstream-mcphub.md` name beside the pinned release: constants of the
  configuration file.
- **Lists of fields of the input schemas**, and the wording of documents, help
  texts and reports.

## 8. Plan

Left for later:

1. A `Launch` that starts the registry proper (`ToolRegistry` with the loaded
   configuration), so that a doctor's verdict speaks of single calls.
2. What an audit log promises its reader as an abstract specification (a window
   over the sequence of recorded lines that only moves on), and `AuditLog` with one
   process as an implementation of it.
