# Verification of Domos

TLA+ models of the Domos monorepo (a browser workspace of local tools, a small
diagnostics API for DNS, e-mail policy and HTTP, and the workflow that releases
them), TLC configurations that check them, and TLAPS proofs of what matters most.

Line numbers name the code under `src/`; `limits.ts`, `app.ts`, `network.ts`,
`dns.ts`, `http.ts`, `email.ts` are in `apps/diagnostics/src/`, the local tools in
`packages/tool-core/src/`, the interface in `apps/workspace/src/`.

## Inventory

| Part | State it keeps | Operations | Interacts with | What makes it correct |
|---|---|---|---|---|
| Admission (`limits.ts` 36-72) | `active`, global window, table address -> window | `enter`, the release closure | called by the `onRequest` hook; released by `onResponse` and by `close` | slots given back exactly once; table bounded; live windows never forgiven; nobody refused by a stale window |
| Connection limiter (`limits.ts` 4-24) | `active` | `acquire`, release closure | one acquire per outbound exchange | at most 32 sockets, those still closing included |
| Outbound exchange (`network.ts` 63-226) | promise, ClientRequest, socket, response, bytes read | one call, then Node's events | limiter, abort signal, peer | settles once; result only from the pinned and verified address; bounded body; nothing left behind |
| Request life cycle (`app.ts`) | per request: release closure, controller, timer, listeners | hooks, handler, deadline, close | admission, inspections | one truthful reply per request; no work for clients that left |
| DNS inspection (`dns.ts`) | outcomes so far | one lookup per record type, in sequence | exchange, budget | partial failure reported as partial |
| HTTP inspection (`http.ts`, `addresses()` in `dns.ts`) | hops, URLs seen, addresses found | resolve, check, contact, follow | resolver, exchange, target policy | every hop checked before it is contacted; chain bounded; the report says how it ended |
| E-mail inspection (`email.ts`) | cache of lookups, evidence, the walk's stack | SPF walk, DMARC, DKIM | resolver, budget | complete means explored; absent means observed; a reserve for DMARC and DKIM |
| Request budget (`limits.ts` 26-34) | queries left | `query` | resolver | never negative, shared by all steps of a request |
| Worker client (`workers/index.ts`) | active jobs, listeners, timers | `run`, `hashFile`, `dispose` | one worker per job, message queue | every job settles once; no worker outlives its job |
| Worker (`workers/entry.ts`, `dispatch.ts`, `compute.ts`) | started flag, hash state | one job | posts progress and a result | whole file hashed; monotone progress |
| Subnet planner (`subnet.ts`, `SubnetTool.tsx`) | the plan: a root and its leaves with notes | create, import, export, split, join, annotate | contract schemas | leaves partition the root; imports are exact; notes are not lost |
| Workspace hooks (`ui.tsx`, `LiveTools.tsx`, `ToolWorkspace.tsx`) | active call, result, status, timer; what React has rendered | run, cancel, reset, choose a file, pagehide and pageshow | worker client, API client (`api-client.ts`) | the screen is true of the last run; the form is not locked for ever |
| Direct runtime (`runtime.ts`) | the call: its signal and its result | `validated()` around the handler of a tool | the hooks; `await` of a digest or a parser | an aborted call shows nothing; every fault has its code |
| Text tools (`structured.ts`, `compute.ts`, `password.ts`, `bytes.ts`, `encoding.ts`, `time.ts`, `chmod.ts`, `email.ts`) | loops over matches, lines, nodes; the JSON and YAML side hides keys and numbers behind strings | one conversion each | JSON, the yaml package, the RegExp engine, random words | nothing of the input lost, repeated or invented; claims about randomness true |
| Deployment (`deploy-manual.yml`) | the runs, the API's revisions, the two uploads | dispatch, check, update, poll, probe, upload | GitHub, Container Apps, Static Web Apps | whatever stops half-way leaves a mix that works |
| Configuration and start (`config.ts`, `server.ts`) | none after start | reads the environment once | - | the limits are the models' CONSTANTS |
| Contracts, catalog, site, Bicep | none | schemas, constant data, content, templates | - | not a matter for a state machine |

The hard behaviours: callbacks of one event loop that interleave at every `await`
(API), Node events in any order with late errors after `destroy()` (exchange),
clients that leave in the middle, deadlines racing answers, two callers of one
release closure, lazily expired windows, real parallelism with message queues
(workers), callbacks that call back into the client, renders that lag behind the
state, walks whose limits are shared by everything a request does, a release of three
surfaces that cannot be one transaction, and encodings that must survive inputs which
look like the encoder's own marks.

## Modules

| Module | Models | Extends |
|---|---|---|
| `CapacityPool` | abstract: a pool of slots taken and given back | - |
| `Admission` | class `Admission` and the hooks of `app.ts` that release | - |
| `AdmissionHistory` | `Admission` plus a record of what was admitted and when | `Admission` |
| `Exchange` | `exchange()` and `ConnectionLimiter` | - |
| `Service` | the life of a request: admission, body, DNS lookups, deadline, reply, lost client | `Admission` |
| `HttpInspection` | `inspectHttp()`, `addresses()`, the request's budget | - |
| `EmailPolicy` | `inspectEmail()` and all it calls, down to the single lookup | - |
| `WorkerClient` | the worker client together with its workers | - |
| `PrefixTree` | abstract: the leaves of a binary tree of prefixes | - |
| `Subnet` | the planner's engine and the page that keeps the last plan | - |
| `Inspections` | the POST handler with either of the two inspections, on one signal and one budget | `HttpInspection`, instance of `EmailPolicy` |
| `ToolPage` | what both workspace hooks share: the active call, the page that is rendered, hidden and restored | - |
| `LocalRun` | `useLocalTool` | `ToolPage` |
| `LiveRun` | `useLiveRequest` with `requestLive` | `ToolPage` |
| `ToolPages` | a page with either hook, and the fairness of the live one | `ToolPage`, instances of `LocalRun`, `LiveRun` |
| `ToolCall` | one call of a local tool: `validated()` | - |
| `JsonText`, `YamlExpansion` | the JSON and YAML workbench | `ToolCall`, `JsonText` |
| `RegexMatches`, `PasswordGenerator`, `Conversions`, `HeaderAnalysis` | the match loop; passwords and passphrases; Base64, epoch times and file modes; e-mail headers | `ToolCall` |
| `DirectRuntime` | a call of any of these tools | the five modules above |
| `Release` | the release workflow and the platforms it changes | - |
| `ServiceProofs` | theorems about admission, its history and the service | `Service`, `AdmissionHistory` |
| `InspectionProofs` | theorems about web and e-mail inspections | `Inspections` |
| `RuntimeProofs` | theorems about the local tools | `DirectRuntime` |
| `SubnetProofs` | theorems about the planner and about the tree it implements | `Subnet`, instance of `PrefixTree` |
| `ExchangeProofs`, `ReleaseProofs`, `WorkerClientProofs`, `PagesProofs` | theorems | the module they prove about |
| `MC*` | instances for TLC | the module they instantiate |

### Correspondence

*Atomicity.* JavaScript runs a callback and the microtasks it leads to without
interruption, so a step of a model is one such turn. A handler that continues
after an `await` runs on in the same step until it waits for the outside again.
Workers run in parallel with the page; each of their turns is a step, and
`postMessage` appends to a queue that a later step of the page delivers.

*Admission.* `now` is `Date.now()` in coarse ticks, `global` and `sources` the two
kinds of `RateWindow`, `released[r]` the boolean captured by the closure that
`enter` returns for request `r`. `Enter` has the three outcomes of `enter()`: table
full, at a limit (the address keeps its entry), admitted. Expired entries go in
`Tracked` on every call, also on calls that are refused. `Finish` is the
`onResponse` hook, `Close` the `close` event; both call the closure. A request's
identity is free for another request after its `close`. Health checks do not pass
through `enter()` (`app.ts` 65) and are left out.

*Exchange.* One record of variables per call of `exchange()`. `Settle` is the common
shape of `fail` and `succeed`. Node's part is stated as its events: `socket`,
`connect`/`secureConnect`, `response`, `data`, `end`, `aborted`, `error`, `close`.
`destroy()` only asks for a close; the socket's own `close` (`SocketClosed`) gives
the slot back later, and the request's `close` (`RequestClosed`) only when there
never was a socket. `sameSocket` and `acceptable` stand for the checks of address,
status and headers, `Peers` for who is really at the other end. A response that is
refused, or of which only the headers are wanted, is destroyed in the turn it
arrives and never streams.

*Service.* An exchange is reduced to a handler that waits and to a socket still
`closing` after it. `Proceed` is the tail of a turn: the next lookup if there is a
type left, the signal lives and the limiter has a slot, otherwise the rest of the
loop (`Rest`: every further lookup fails at once) and the reply (`Report`).
`expired` is `controller.signal.aborted` as the handler's own timer leaves it; a reply
that nothing was found for is TIMEOUT whenever it is set, whatever failed first
(`errors.ts` 33-37).
`Gone` is `close`: the hook's listener releases, the handler's own listener aborts,
and the handler unwinds in the same turn. Query budget: a DNS request asks for at
most six types and has a budget of more, so the budget never binds here.

*WorkerClient.* `First`, `Cleanup` and `Finish` are the closures of `dispatch()`,
lifted to sets of jobs because `dispose()` and a callback that disposes run them for
several jobs in one turn. `wired` stands for the listeners and the timer, which
`cleanup` always drops together. `DeliverProgress` has the callback's three freedoms:
it may cancel its own job, dispose the client, and throw. `DispatchStopped` is a
factory that does the first two. A job outside `Careful` has a worker that may
post anything; what a `Careful` worker posts is what `hashFileDirect` and
`dispatchWorkerRequest` post.

*HttpInspection.* A step goes from an answer to the next lookup or connection.
`Visit` is the head of the loop, `Ask` one lookup with its share of the budget,
`Follow` and `TypeDone` the two ways a type of `addresses()` continues, `Responds`
everything from the response to the next `Visit`. A URL is a scheme and a host; a
host is a name or an address, and `Acceptable` is `httpTarget()`. The DNS and the
servers answer anything and something else the next time. `exchange()` has its own
module and appears here as its outcome, a response from `address` or an error.

*Inspections.* `app.ts` 115-152 makes one controller and one budget for whatever the
route then runs; the budget's size depends on the operation (`app.ts` 124). A
request runs one operation, so a behaviour fixes `operation` and leaves the other
inspection at rest. `aborted` and `queries` are shared by both modules.

*EmailPolicy.* The recursion of `walk()` is `stack`, one frame per owner with the
links that are left; `active` is the set of its owners. `Txt` is a call of `txt()`:
from the cache at once, or `Ask`, after which one of `Answered`, `Aliased` and
`LookupFails` says what the lookup brought. Between two lookups the code does not
wait; the model steps through the links one by one there, with `Abort` disabled. A
record is absent, invalid or a sequence of links; several records of one owner are
invalid as well. The DMARC and DKIM owners are not in `Names`, so that the cache
never mixes them with SPF owners.

*Subnet.* Addresses are numbers below `2^Bits`; a leaf is a range given by its start
and prefix length. `Request` is one command on the plan the page holds; `Import`
takes an export that somebody may have edited. `Sorted` is the stable `sort()` by
start: allocation `j` comes after those in `Earlier(allocations, j)`, which come first by
their start or, with the same start, by their place. `Tree` maps the plan to `PrefixTree`,
where a leaf is a path and a split replaces it by its two extensions.
Sizes are kept, since a valid plan may be refused for its size alone: `LeafBytes` weighs
an allocation in the state, in the rows of a result and in the file of an export, `Frame`
what stands around them. `SchemaAccepts` is the byte budget of `subnetStateSchema`
(`contracts/src/subnet.ts` 26-28), `TextFits` that of the text of an import, which has
`Padding` more bytes than the compact state (blanks, escapes), and `Returned` the
`checkOutputSize` of every result (`runtime.ts` 35).

*ToolPage, LocalRun, LiveRun.* `active` is `active.current`, the controller's call;
`screen` the state React holds and `busyShown` what it has rendered of it: the buttons
a click can reach. `Render` lags behind by any number of turns. `Hide` and `Restore` are
`pagehide` and `pageshow`, `Remounted` the new key. In `LiveRun` the reply arrives as
headers and chunks, with a declared length that may be missing or wrong. `ToolPages`
is a page with a tool of one kind or the other (`ToolWorkspace.tsx`).

*ToolCall.* `Parse` is what `validated()` does before the handler, `Leave` the handler's
return or its `InputFault`, `Check` what is done with the result: signal first, then
size. JavaScript does not interrupt a handler that does not `await`, so `Abort` is
enabled before the call, while a handler awaits, and before the result is looked at.
The result's own schema is not modelled: it fails only on a fault of the program.

*JsonText, YamlExpansion.* A document is a tree given by each node's parent. What the
text can collide with is kept of its strings: `__proto__`, the stand-ins for it, the
tokens that stand for numbers, strings that end in such a token after a quote, half a
surrogate pair (`lone`), which `ensureUnicode()` refuses in keys and in strings. JSON
is read by replacing (`prepareJson()`), and printed by replacing back
(`stringifyJson()`); the two are operators. `yamlValue()` is recursive; `work` holds a
frame for each of its calls that is under way, with what that call has yet to enter;
a step enters or returns, and the budgets (nodes, depth, aliases) are counted as it
goes. The tree a text stands for is the set of paths from its root, along children and
from an alias to its anchor. The preflight counts tokens and `yamlValue()` nodes: a null
that nothing is written for (`k:`) and the map of the one pair in `[k: v]` are `bare`,
counted by the second and not by the first. A key is a scalar or missing.

*RegexMatches.* What the pattern matches at each place is an input, so that `exec()` is a
look-up; `lastIndex`, flags, surrogate pairs, the cap on matches and `truncated` are
those of `compute.ts`. A pattern may also fail to compile.

*PasswordGenerator.* Each random word is a step's choice; samples above the bound are
thrown away, passwords without a wanted class are drawn again, and the claim is kept as
a number of possibilities, so that no logarithm is rounded.

*Conversions, HeaderAnalysis.* Digits and padding of Base64; an epoch number as sign,
whole part and decimals; a file mode as a set of bits; a header line as its sort, whether
it has a semicolon, and the text after its last one. A field is unfolded by appending what
its folded lines say, so its `Stamp` is all the texts behind the last semicolon of any of
its lines; `StampTime`, external, is the time these make when joined, if they end in a
zone: a fold after the date may take the time away again. The reading loop is a function
of the number of lines read. `PostalMime` is awaited, and external. Names and hosts that
are too long are the limits of the code.

*Release.* `job[r]` is the step a run is at. `Update`, `UploadSite` and `UploadWorkspace`
may work and still report a failure; every other step may fail without effect
(`Fails`, which also stands for a cancelled job). `latest` is the API's template,
`old` what serves while the new revision is not ready (single revision mode), and
changes are numbered, so that an upload can say which change it belongs to. Other
people's `az` commands are `ChangedByOthers`.

## Runs

| Run | Asks | Bounds |
|---|---|---|
| `admission` | slots, table, windows against a sliding minute, refinement of the pool | 3 requests for 2 slots, 3 addresses for a table of 2, limits 3 and 2, a minute of 2 ticks, 5 ticks |
| `exchange` | safety of exchanges, their refinement of the pool, and that they end | 2 exchanges for 1 slot, a body of at most 1 chunk before its cap |
| `service` | replies and bounds; inspections end, slots return | 2 requests, 2 admissions a minute for 2 minutes, 2 connections, up to 2 types each |
| `worker_client` | the client, safety and liveness | 2 jobs, one that keeps the protocol, files of up to 2 chunks |
| `inspections` | which addresses are contacted, what the report of a web inspection says; what complete, absent and free of errors mean in an e-mail one | web: 2 names and a denied one, 2 public addresses and a private one, 3 hops, 3 addresses, 5 queries; e-mail: 3 owners, up to 2 links each, 5 queries of which 2 are reserved, depth 2 |
| `email_reserve` | the documented reserve, violated | as above |
| `subnet` | imports, commands, refinement of the tree | 8 addresses, plans of up to 4 leaves, a short and a long note, 24 bytes |
| `tool_pages` | what the screen says of local runs and live requests, which timers fire, and that requests end | 3 calls, a cap of 1 chunk |
| `local_run_cancel` | the status of a cancelled run, violated | 3 runs |
| `direct_runtime` | what the text tools return, and that aborted calls return nothing | see below |
| `json_tokens` | the tokens that carry numbers, violated | as `direct_runtime` |
| `release` | the mix of surfaces, and what a success means | 3 runs, 4 changes of the API, 2 images, 2 polls |

Why these are enough: each limit is reached and exceeded by one competitor (one more
request, address, exchange than there is room for; in `service` the competitors of a
lookup are the sockets that an earlier one left closing); two windows follow each
other within `MaxTime`; a body crosses its cap; two types are the least number of lookups
that can disagree; three hops are the least with one that is neither first nor last, and
five queries are fewer than two hops through an alias want; three owners make the
diamonds and circles that a walk can confuse, and a walk of them all reaches the
reserve; four leaves with long notes, and some files of fewer, are over the budget of bytes,
the same leaves with short ones within it; three runs are one at work, one that waits and
one that supersedes it. The
proofs remove the bounds for admission and its history, the service, exchanges, both kinds of
inspection, the worker client, the pages, the planner, regular expressions, the converters
and releases.

The inputs of `direct_runtime` (`MCDirectRuntime`) are chosen around the corners of each
tool: trees of four nodes whose keys are or imitate `__proto__`, three strings that
imitate the tokens of numbers, and half surrogate pairs as key and as string; every
sequence tree of six nodes with up to four aliases, against limits of 11 nodes, depth 2 and
3 aliases, maps with keys JSON cannot say, with half pairs, and with more nodes that no
token stands for than the preflight would allow tokens; every assignment of matches to a
text of three code units, with a pair in it, and patterns that do not compile;
16 values of a random word for alphabets they do not divide; up to 4 digits or bytes of
Base64, also digits with stray bits; times around the ends of `Date` and of the years;
pairs of mode clauses; up to five header lines, with and without a semicolon, a date and a
zone, against limits of 4 fields and 3 hops.
Each limit is exceeded by some input.

`CHECK_DEADLOCK FALSE`: these models may come to rest. The clock stops at `MaxTime`,
exchanges, jobs, calls, inspections and releases are used once, and a service without
clients is idle. A page and a subnet plan always accept a further event.

Symmetry is used over identities that no property distinguishes, and only in runs
without liveness properties.

### What the runs show

All safety and liveness properties hold of the code as modelled. Three statements of
its texts do not:

* `ui.tsx` 75 says *Cancelled. No result retained for this run.* A click that is
  handled after the result was set and before React rendered it leaves the result on
  the screen under that sentence (`CancelRetainsNothing`).
* `email.ts` 223 reserves requests for DMARC and DKIM, but looks at the budget only
  before an include is followed. The aliases of that include spend the reserve
  (`ReserveKept`). The report stays honest: `NothingIsGuessed` holds, and DMARC and
  DKIM are then indeterminate.
* `structured.ts` 131 calls the tokens that carry numbers through the JSON printer
  *collision-free*. They are searched for from any quote on, also from an escaped one
  inside a string: of `["x\"\u0000domos-number-0",5]` the end of the string is taken for
  the token of 5, and the printed text is not JSON (`TokensAreCollisionFree`).
  `JsonSurvives` holds of every text without such a string.

`docs/deployment.md` 211-213 gives the caps as *requests/minute*. The windows are fixed,
so sixty seconds across the end of one can see two windows' worth, never more
(`AtMostTwoWindowsAMinute`).

What the properties say, in short:

* Admission: slots are open responses, a live window is never forgiven, nobody is
  refused for requests older than a minute, no minute sees more than two windows' worth.
* Service: a handler's slot is its own (`HandlersHoldSlots`), sockets stay within the
  cap while they linger (`OutboundWithinCap`), a reply is a report exactly if something was
  found, and otherwise TIMEOUT if the time was up and the first lookup's failure if not
  (`RepliesAreTruthful`), every accepted client is answered or gone (`NobodyForgotten`).
* Exchange: a live socket holds a slot; an abort settles in the same turn; nothing is
  left open behind a settled promise; a result is the peer's whole body.
* Worker client: a worker lives as long as its job and no longer; cancel is reported as
  such; nothing is delivered after the end; honest jobs end with what they computed.
* HTTP: `HopsAreChecked` at every contact, `ReportIsTrue` at the end.
* E-mail: `CompleteIsExplored` compares the report with the graph that the cache holds,
  whatever the order of the walk; `NothingIsGuessed` relates absence and the lack of an
  error to the lookups made.
* Subnet: an import is accepted exactly if it is a partition and keeps to the budgets of
  bytes; no command builds a plan that a later request would refuse; each command edits the
  block it names and no other; the planner implements the tree.
* Workspace: the screen is true of the last run the user started and did not withdraw
  (`ScreenIsTrue`); no call goes on that nobody waits for (`AwaitedOrAborted`); a timer
  stops its own request only (`OwnTimerOnly`); the form is freed (`RequestsEnd`).
* Text tools: `JsonSurvives` and `YamlIsUnfolded` compare the output with the tree the text
  stands for; `MatchesAreExact` with the matches of the text, to its end; `EntropyIsTrue` counts
  what the generator can return and the random words behind it; `ConversionsAreExact`
  compares each conversion with its
  reference and its way back; `HeadersAreTrue` relates hops and delays to the lines.
* Release: the surfaces are mixed in one way only, API first and workspace last
  (`MixedOneWay`), so that a compatible order of changes is enough; a success leaves all
  three as approved (`SuccessIsWhole`), as long as nobody changes the API again.

### Fairness

* Exchange: a pending exchange's signal eventually aborts (`AbortSignal.timeout(3000)`
  in `dns.ts` 42, the timer of `app.ts` 118), and Node finishes what `destroy()` began
  (`aborted`, `close`). Nothing is assumed of the peer, the resolver or the network.
* Service: the handler's timer fires, sockets close, and a connection on which nothing
  happens is ended by Fastify's `requestTimeout` and `connectionTimeout`
  (`app.ts` 31). Clients may otherwise be silent for ever.
* WorkerClient: timers fire. A worker may loop for ever.
* ToolPages, with a live tool: while the page is not hidden, React renders, the timer of a
  request fires (`LiveTools.tsx` 22), and a request whose signal is aborted settles, as
  `fetch` and the reading of a body do. The service may be silent. Of a local tool
  nothing is assumed: a run may take for ever.
* Admission, Inspections, Subnet, DirectRuntime, Release: none. A release may wait for a
  reviewer for ever.

## Proofs

`ServiceProofs` proves, for every set of requests and addresses (finite or not),
every positive limit and every length of a minute:

* of admission: `TypeCorrect`, `SlotsCorrect` (the counter is the number of open
  responses), `TableNeverOverflows`, `WindowsAreKept`, `AdmissionImplementsPool`;
* of its history: `RateIsBounded`, `RefusalsAreFresh`;
* of the service: `ServiceAdmits` (its steps are steps of `Admission`, so that all of the
  above holds of it too), `SlotsOutliveHandlers`, `OutboundBounded`, `RepliesTruthful`,
  `EverybodyRemembered`.

The inductive invariant is `IInv == TypeOK /\ SlotInv /\ TableInv`. The strengthening
is that the sets the code counts are finite (`Cardinality` means nothing otherwise)
and that `active` stays within its cap; then each release removes one member from a
finite set, or none, whichever caller comes first (`ReleaseSlot`), and each admission
adds one that was not there (`AdmitSlot`).

The invariant of the history (`HistoryInv`) says what a fixed window knows of the past: it
splits the last minute into what came before it began and what it counted itself
(`Before`, `Inside`). While it runs its count is exact (`Fits`), what came before fits the
window before it, and an address without an entry has only a past that is over (`Past`).
Two windows' worth is the sum of the two halves; and an entry that still counts belongs to
an address that did call when its window began, so a refusal is never stale.

`ServiceInv` ties each request's handler to its slot, its reply to the outcomes of its
lookups and to the timer, which has fired only for a handler that is done, and the
connections to the sockets in use and closing.

`ExchangeProofs` proves, for every set of exchanges, every cap of connections and
bytes:

* `TypeCorrect`, `SlotsCorrect` (a socket that has not closed holds a slot),
  `AbortsSettle`, `SettledAreQuiet`, `ResultsAreGenuine`, `OutcomesAreFinal`,
  `ExchangesImplementPool`.

The inductive invariant has a local half, `Local(e)`, of which each part carries a
reason: `Unsettled` (listener, open request, live socket and streaming body exist
only while the promise is pending), `Held` (what is open holds a slot, and a socket
being destroyed has no open request, so that `RequestClosed` may ignore it) and
`Genuine` (a body streams only from a verified peer and within its cap). A step
touches one exchange (`Elsewhere`), so the invariant of the others is kept by
`LocalFrame`. `SlotInv` counts; every step leaves the holders alone or moves one
(`HoldingMoves`), which also gives the refinement.

`SubnetProofs` proves, for every number of address bits, every limit on the leaves and
every set of notes and every budget of bytes:

* `PlannerInvariant`, `PlansPartition`: every address of the root of an accepted plan is
  in exactly one leaf;
* `ImportDecides`: the walk with the cursor accepts exactly the partitions, among the texts,
  states and results that keep to their budgets;
* `CommandsEdit`: a command changes what it names and nothing else;
* `PlansAreTrees`: the planner implements `PrefixTree`;
* of `PrefixTree`, for every depth: `TreeTypeCorrect` (the block is within the depth, each
  leaf has a note), `TreePartitioned` (the leaves are paths within the block and partition
  it).

The laws of powers of two come from counting subsets (`PowerOfSucc`), with the least
counterexample in the place of an induction (`LeastOne`). Thereby a block is the interval of
addresses from its start to its end (`BlockIs`). The sort permutes the allocations into
rising starts (`SortedIs`); intervals in rising order follow each other without a gap or an
overlap (`Chained`) exactly if they cover the root once (`ChainCovers`, `CoverChains`), and
since the order does not matter to covering (`CoversIsPartition`), the walk decides
partitions of an unsorted list (`ValidIs`).

The inductive invariant `PlannerInv` says that the plan is a valid, sorted list within the
limit, that a command under way is one of `Commands`, and that it has no reply yet. Sorted
(`Rising`) is needed for an export to change nothing, since only a rising list is its own
sort (`OneOrder`); the reply for `Cancel` not to pass as an accepted command; the limit for
the next request to be let through by the schema. So is the budget: a result has the state in
it (`StateInResult`), so what was returned may be sent again.

For the refinement a block below the root is its path of bits: the first k bits of an
address tell its block of that size (`BitsDecide`) and every path is that of an address
(`BitsExist`), so that one block contains another exactly if its path is a prefix (`AboveIs`).
Then each command is a step: a half extends the path by one bit (`HalfPath`), two siblings
are the halves of the block they are joined to (`SiblingsAre`), an annotation keeps its
place, and an export stutters. The leaves of the tree partition its block since a path longer
than a split leaf continues with one of two bits, and a join gives up both continuations for
their common start.

`InspectionProofs` proves, for all names, addresses, records and limits:

* of web inspections: `HopsChecked`, `ReportsAreTrue`, and that both hold under the
  handler too (`WebInspectionsTrue`);
* of e-mail inspections: `CompleteWasExplored`, `NothingGuessed`.

The first rests on `IInv`, whose parts say what each phase has already checked: the
target was acceptable when it was visited (`Targeted`), the lookup under way belongs to
it and to the budget (`Asking`), the pinned address came from answers without a private
one (`Pinned`). The second adds `RInv`: the hops are a path without a repetition
(`Walked`), the target is where it leads and is new (`Going`), and nothing but hops and
target is remembered (`Remembered`), without which a *redirect-loop* could be reported
of a URL that was never visited.

For e-mail the invariant is `EmailInv == LookupInv /\ StageInv`: every entry of the cache is
the answer of one lookup that the budget paid for; every frame of the walk's stack stands
for a link of the frame below (`FrameInv`); what was visited is closed under links
but for what is still on the stack, and holds no circle (`WalkedInv`). When the stack is
empty the exception is gone: complete means explored.

`ReleaseProofs` proves, for any number of runs, changes, images and polls:

* `MixesAreOneWay` and `SuccessesAreWhole`.

The invariant says what the concurrency group is for: one run is at work (`Exclusive`), so
the run that has updated the API has the newest change of all runs (`Newest`); with
the numbering of changes (`Numbered`) and how far that run is (`Halfway`) no upload
can put an older content over a newer one. `LastChange` ties the last change to
the run that made it.

`WorkerClientProofs` proves, for any set of jobs and files of any length:

* `WorkersPaired`, `HonestWorkersServed`, `CancelAborts`, `SettledStays`.

`WorkerInv` has a part for each job: `Matched(j)` (worker, listeners and timer belong to the
job that is pending) and `Honest(j)`, in which `Trail` says what the messages still in the
queue and the client's progress add up to, so that no order of deliveries, timers and
cancels can mix them.

`PagesProofs` proves, for any number of calls, either kind of tool and a page that is
hidden, restored or replaced at any time:

* `CallsAwaited`, `ScreensTrue`, `OwnTimers`.

`PagesInv` relates three copies of the truth: the call that is active, what the hook has
set, and what React has rendered of it.

`RuntimeProofs` proves, for every text, every engine that keeps its promise and every cap:

* `RegexExact`: the matches reported are those of the text, and none is left behind the last
  one unless *truncated* says so, at the cap;
* `ConversionsExact`: what Base64, epoch and chmod print is what was meant, for any
  number of bytes, digits and clauses;
* `JsonKept`: what the workbench prints of a JSON text says what the text said, for trees
  of any size and shape, any keys and strings, and any budgets, and it refuses what it
  must, half surrogate pairs included, and nothing else;
* `YamlUnfolds`: a YAML text is converted exactly when it can be, and then to its full
  unfolding; a circle never gets through, and *invalid* is said only of a circle, an unbound
  alias, a repeated key or half a surrogate pair;
* `HeadersTrue`: what the header analyzer reports of any lines is true of them;
* `PasswordsAreFair`: no character is likelier than another, and a password that is
  returned has the length and the classes asked for;
* `EntropyTrue`: besides, the possibilities counted are those the loop can return, and a
  passphrase has the entropy claimed for it;
* and, for every tool, `AbortedSeeNothing`.

`Matchable` is the promise of the schema and of the engine: code units come in pairs, a
match does not end before it starts, and in unicode mode none starts or ends within a pair.
The invariant says that the matches found so far cover all matches of the text before the
place where the next search begins (`Searched`), and that this place is the one
after the last match (`Resume`), which is where the step over an empty match must be right.

`Convertible` is what the schemas let through. The decoder refuses exactly the texts that are
not `Canonical` (`RefusedIs`): digits without stray bits are the encoding of their bytes
(`WholeIsEncoding`), an encoding has none (`EncodingIsWhole`), and nothing is lost on the way
(`RoundTrip`). Milliseconds are read back from the seconds they are printed as
(`SecondsAre`), and a fraction counts only the digits that are there (`FractionIs`). A clause
decides the bits it touches (`ApplyIs`), so that after any number of them the last one has
decided (`LastDecides`).

`JsonInput` says what a parsed text is: a tree whose nodes come after their parents. Among
more numbers than there are strings some are free (`FreeNumbers`), so there is a stand-in
for `__proto__` that is no key of the text (`PlaceholderIs`), and nothing is lost by reading
the text with it (`ParsedIs`). Ranks are unique (`RankIs`), so each number has a token of
its own that is no string of the text (`TokensAre`), and replacing them all restores
each number where it stood and touches nothing else (`PrintedIs`), but for the strings that
`TokensAreCollisionFree` is about.

`YamlTree` is the parser's promise: nodes are numbered in the order of the text, an alias
comes after its anchor. Where no node is below itself, no path meets a node twice
(`NoCircle`), and every node has a path that leads to it past all that is above it
(`TreeWay`). The invariant says which paths have been told so far: a set closed under prefixes, whose
unfinished ones are the frames on the stack, in order (`Rooted`, `Stacked`), and as many as
the node budget has counted (`Counted`). The next node entered is the next path in the order
of the text (`NextPath`), so that at the end all have been told, and each refusal is for what
it says (`EntryFaultIs`).

`HeaderText` says only which sorts of lines there are. After n lines the fields read are the
lines that start one, each at its rank among them and with the texts of its own lines from
the last semicolon on (`ReadTrue`); choosing the Received ones keeps their order
(`OrderKept`), and the delays between neighbours telescope (`DelaysAdd`).

`Drawable` is what the schema promises of a password: some class is chosen, and the alphabet
is no larger than a random word. Below the bound the words come in whole runs of the
alphabet's size, which hit each index once (`HitsAre`); `PasswordInv` says that what has been
drawn so far are such indices, and not too many.

The claims are counted. A sum over a finite set may be taken in any order (`SigmaIs`);
classes lie in the alphabet between their `Edge`s (`ClassIs`), so a set of them leaves out
as many indices as its sizes add up to (`OutsideIs`). Inclusion and exclusion then goes class
by class (`InAndOut`): the values that have the first classes and may lack the next, less
those that do lack it, and each term of the second sum is one of the whole with its sign
turned (`SigmaMinus`). `Joinable` is the word list: small letters, at most `MaxWord` of
them. A passphrase is read from its end: the last place of the separator that is no letter
tells where the last word begins (`CutAtLast`), and without one the lengths of the words do
(`CutAtEnd`), of which there are as many choices as the claim is divided by (`ClaimsAre`).

Type correctness of admission and exchange, the bound of the table and the finality
of outcomes are proved and for that reason not checked again by runs of their own.

Assumed: only the named assumptions of the modules, which say that limits are
natural or positive numbers, and which TLC evaluates on every run.

Only model-checked: liveness (fairness and ENABLED are beyond the proof system). Every
invariant and action property of a passing run is a theorem.

## Not modelled

* A clock that steps backwards. `Date.now()` may; the models let time only advance.
* The text of headers, certificates and DNS messages: they are acceptable or not.
* Several `error` events of one request; Node emits one.
* Keys of YAML maps that are collections or aliases.
* The few bytes of notices in the size of a subnet result.
* The read refusals of the Base64 encoder, and the password generator without WebCrypto
  (`password.ts` 6): refused at once.
* An upload of `Release` that takes effect after its cancelled job has ended.
* The syntax of names, URLs, addresses, SPF, DMARC and DKIM records, and the cap on the
  findings of a report (`email.ts` 242-247).
* What a report or form lays out on the screen beyond the state the hooks hold.
* The URL workbench, the JWT decoder, cron, the text diff and the checksum of a text:
  each hands its input to a library function and lays out what comes back.
* The parse of a tool's result by its own schema (`runtime.ts`): it can fail only on a
  fault of the program, and none of the models' results has such a fault.
* The refusals of an e-mail inspection before it asks anything (`publicName`, `email.ts`
  359-362).
* Start, shutdown and configuration of the server: read once, then constant.
* Health checks, `OPTIONS` and the not-found handler: they answer at once.
* `.squad/templates/ralph-triage.js`, the `.squad` files and the workflows that label and
  assign issues: tooling of the contributors, not part of the program.
* Schemas, catalog, static site, infrastructure templates: no state. What the models need
  of a schema is the guard of an action.

## Plan

1. `Service` with all three inspections at once: requests of different kinds that share
   the pool of connections. The state space needs smaller inspections first.
2. `Release` with the Container Apps revisions that are retained, for a roll back by a
   further release.
