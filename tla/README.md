# localfront: TLA+ models and proofs

localfront emulates CloudFront on a developer's machine. It reads
CloudFormation templates, compiles CloudFront Functions into pools of QuickJS
runtimes, serves HTTP requests through a pipeline (routing, signed URLs,
functions, origins, error pages, compression, access log) and hot-reloads
everything when a file changes. This directory models these parts: where
goroutines, timers, files and requests interact, as interleaved steps; what
happens to the data of a request or of a template, as operators and the steps
that use them. TLC checks the models on small instances, and TLAPS proves for
every instance the safety properties of the function pool, the reloader, the
file watcher, the request pipeline, admission with its routing and signatures,
the exchange with origins, the wildcard matcher and the loading of a
configuration.

## Inventory

| Component | State | Operations | Interacts with |
|---|---|---|---|
| Function runtime pool (`internal/cffunc/pool.go`, `runtime.go`) | idle stack, `closed`, a sandbox directory | `Compile`, `Execute` (`get`, handler, `put`), `Close` | called by requests (Execute) and by the reloader (Compile, Close) |
| Reloader and shutdown (`cmd/localfront/reload.go`, `serve.go`) | `currentFuncs`, `pendingFuncs`, `pendingTimer` | `reload`, the timer callback, `closeCurrent` | called by the watcher's goroutine, timers and `serve`; swaps the server's snapshot; closes functions |
| File watcher and loading (`internal/watch/watch.go`, `serve.go`, `cmd/localfront/functions.go`) | event channel, debounce timer, the files on disk | the select loop; `loadConfig`, `buildFunctions` | calls `reload` from its own loop |
| Request pipeline (`internal/dataplane`) | an atomic snapshot; per request a response with a body | `ServeHTTP`, `serve`, the stages | loads the snapshot once; executes functions; fetches from origins |
| Routing (`dataplane.go`, `behavior.go`) | host tables, ordered behaviors | `match`, `Select` | pipeline |
| Origin request, response headers, compression (`internal/behavior`) | none | pure functions | pipeline |
| Signed URLs and cookies (`internal/sign`) | none | `Verify` | pipeline |
| KeyValueStores and seeds (`cffunc/kvs.go`, `cmd/localfront/functions.go`) | stores | `buildKVSStores`, `lookupSeed` | loading, functions |
| Templates and configuration (`internal/cfntmpl`, `internal/config`) | none | resolve, build | loading |
| Object store client (`internal/origin`) | none | `Fetch` | pipeline, loading |
| Access log writer (`internal/accesslog`) | destination, first error | `Write` | pipeline |

What is hard: `get` and `put` racing with a `Close` of the same pool; a grace
timer that expires while the next reload or the shutdown has taken over its
functions; a file saved while it is read, debounced or about to be watched;
a response that changes hands between origin, error page and function, on many
early returns; a configuration that is replaced while a request runs; a wildcard
matcher that backtracks; a signed URL that is rebuilt from the request before
its signature can be checked.

What makes each part correct: a runtime has one owner and is closed once; a
generation of functions is closed once, not while it is served, not before its
grace period, and in the end always; a quiet watcher has loaded what is on disk;
an origin body is closed exactly once, a request answered and logged once, with
the functions of the configuration it started with; a host is served by its
owner and a path by the first behavior that covers it; a restricted behavior is
entered by those, and all those, who follow a valid link; an origin gets what
the policies select and nothing a viewer or a function forged; a function that
changes nothing is not noticed; the viewer gets a whole body in a coding it
accepts; a template's references lead to the resources they were written to,
whatever the order of the files; and the startup check foresees what seeding
will need.

## Modules

| Module | What it is |
|---|---|
| `FuncPool` | the pool and the operations on it; `FuncPoolProofs` proves its safety properties, `MCFuncPool` instantiates it |
| `HotReload` | what hot reload promises, without timers and fields |
| `Reload` | the reloader, its timers and the shutdown; `ReloadProofs` (its safety, and that it implements `HotReload`), `MCReload` |
| `Watch` | saves, the event queue, the debounce timer and the order of file reads; `WatchProofs`, `MCWatch` |
| `Pipeline` | the stages of concurrent requests, swaps and the access log's writer; `PipelineProofs`, `MCPipeline` |
| `Headers`, `Forward`, `Events`, `Finish` | operators: header sets and what a hop does to them; what an origin gets; function events; the response headers policy, compression and `writeResponse` |
| `Exchange` | composes these four: one request with its data from the viewer to the origins and back; `ExchangeProofs`, `MCExchange` |
| `Wildcards` | `matchGlob` as operators, and what a pattern means without it; `WildcardProofs` has the lemmas about `MatchGlob` |
| `Glob` | one call of `matchGlob`, an iteration a step; `WildcardProofs`, `MCGlob` |
| `Routing`, `Sign` | the route table and behavior selection; `sign.Verify` |
| `Admission` | composes `Routing` and `Sign`: a request up to its admission, while the clock runs and keys are rotated; `AdmissionProofs`, `MCAdmission` |
| `Templates`, `Build` | operators: template files merged and resolved; the configuration made of them |
| `Values` | what is defined by recursion on values: the resolver and the shapes of properties |
| `Loading` | uses `Templates` and `Build`: from the files to what is served, at startup and in a reload; `LoadingProofs`, `MCLoading` |

Operators whose name carries a suffix after an underscore (`Install_ClosesOld`)
are mutants: the named definition with a plausible mistake. No specification
uses them; each shows that a property notices that mistake.

### FuncPool

`idle` and `closed` are the pool's fields. A critical section of `pool.mu` is
one step, and what happens outside it is a step of its own: `Borrow` and `Miss`
are the two ways through `get`, `Create` and `CreateFail` are `qjs.New` with
`setup`, `RunOk` and `RunError` the handler (its result is arbitrary),
`PutKeep`, `PutDrop` and `Discard` the deferred function. `BeginClose`,
`CloseIdle` and `RemoveSandbox` are `Function.Close`. A runtime identity is
never used twice.

### Reload and HotReload

A generation is the map of functions one `buildFunctions` returned. A timer is
named after the generation it was armed for and goes from `armed` to `expired`
(the callback's goroutine exists) to `closing` (it has taken a generation) to
`ran`, or to `stopped`; `Stop` succeeds exactly in `armed`. The critical sections
of `reload` (`Install`), of the callback (`Callback`) and of `closeCurrent`
(`TakeAll`) are steps. What their goroutines do after unlocking is `Swap`, then
`Collapse`; `CloseCaptured`; and `CloseTaken`. `Callback` takes what
`pendingFuncs` is when it runs, as the code does, and keeps it in `toClose` until
`CloseCaptured` closes it. The process may end in between: `closeCurrent` finds
the fields empty and waits for nobody.

`ExpiryDuringReload` says whether a timer may expire during the short window in
which a reload or the shutdown has taken its generation over and not stopped it
yet, or may be waiting for the mutex when another critical section begins. With
`TRUE` the model has every interleaving. With `FALSE` the 30 s timer and the
mutex are never that unlucky; what holds only then is what the first finding is
about.

`HotReload` has a serving generation, a life cycle per generation, and the set
of generations whose grace is over. The refinement maps `serving` to the
snapshot, `life` to the close counters and `graceOver` to the expired timers.

### Watch

Every file has a numbered version that is good, bad or missing. `Save` is one
change of a file's content; an editor's save is one or several. It raises an
event if the directory is watched and the queue has room; otherwise the file is
in `lost` until something reads it. Startup and reload share the reading steps:
`ReadTemplate`, `LoadTemplates` (parsing happens after all templates were
read), `ReadSeed`, `FetchFails`, `Loaded`. Templates, and seeds, are read in any
order, the code's among them. Every seed file belongs to a store of the
templates. `Receive`, `Fire` and `Return` are the cases of the select; the
error case only logs. A file's permissions do not change (a Chmod event is
filtered out). Time passes in steps of its own (`Tick`), in the middle of
anything: `age` is how long the debounce timer has run, and it expires when that
is `debounceInterval`. `idle` and `bursts` are history, which no step reads: the
time since an event of a watched file was received, and how many such events
came after a whole interval without one.

### Pipeline

Each stage of `ServeHTTP` and `serve` is a step of one request. A response is a
status and a body, which is in memory or a stream of the origin or of the error
page's origin. Host match, allowed methods and signature verification are
choices; the configuration says whether the behavior has functions, trusted
keys, compression and error responses. `WriteHeader` keeps the list of statuses
written, and `Sent` is what net/http makes of it. `EmitAccessLog` is
`Writer.Write`, one step because of its mutex: a write to the destination
succeeds, or fails after nothing or a part of the line is written, and after
that every later one is refused. The access log is assumed to be enabled. The
data of requests and responses is in `Exchange`.

### Exchange

One request with its data: the viewer's request, what the viewer-request
function makes of it, what each origin is asked, the answer, the error page,
and the response on its way through the response headers policy, the
viewer-response function and compression. The steps are those of `Pipeline`,
one for one; here there is one request, and its data, in place of several
requests without any. A function is a program: it fails, answers, or returns its
event with another URI or status and some headers set or dropped. An origin may
answer with an object, whole or in part, encoded as the request allows, with
404 or with 304.

A header set maps a name to its lines, and a line is the sequence of its
elements; names are tokens, since net/http compares them without regard to case.
Policies are records of selections. The objects of the instances have no
Content-Encoding of their own and the policies neither set nor remove
representation headers (Content-Length, Content-Encoding): a policy that does so
breaks `EncodingIsNegotiated` by what it was asked to do.

A function's event is lossy in places, in the code as in the model. Cookies of
the same name are one in it; a name or value of a query parameter that does not
unescape (`Undecodable`, such as `100%`) becomes empty without an error, and a
parameter or cookie without `=` (`NoValue`) comes back with one; a Set-Cookie
without a name is dropped. So a function that returns its event as it is does
change those. The two pass-through properties say of everything else that it
comes through: of requests, each parameter that is `Readable` keeps its values in
their order whatever the others lose; cookies must be `OneOfEach`, and those of
responses `AllNamed`.

### Templates, Build and Loading

A template value is a string, a list, a map or a call of an intrinsic function;
a string is a sequence of tokens, so that `Fn::Sub` and `Fn::Join` concatenate
and an unresolved placeholder can be found inside a longer text. An identifier
made from a type and a logical ID is one token. `Resolved` is `resolve.go`,
`RefValue` and `AttValue` are `refs.go`, `Load` the passes of `build.go` in their
order, each of which may set `ok` to `FALSE`. Templates nest, so what a value
resolves to and whether it has the shape its property must have are RECURSIVE
operators, `Value` and `Decodes` of `Values`. `Templates` and `Build` have them
as the constants `ValueOf` and `HasShape`, so that they can be reasoned about:
the runs give them `Value` and `Decodes`; most theorems hold whatever they are,
and `ResolverAssumption` states the equations of `ValueOf` that one theorem needs.

`Loading` has the steps of a load: `LoadConfig`, `Check` (only at startup),
`BuildKVSStore` for one store at a time, `Compile` for one function at a time,
`Serve`. An error ends the startup, and in a reload leaves what is served alone. Fields
that a type of `props.go` does not have are ignored, whatever their shape.
Its properties do not mention how identifiers are made: `ReferencesBind` compares
what is served with the resources as written. They say nothing of two functions
with the same `Name`, which the code takes for one (`build.go:293`). Four
assumptions say of which templates `ReferencesBind` speaks; TLC finds them true
of every instance.

- `TemplatesAssumption`: lists are sequences, the logical IDs of one file differ,
  as the keys of a map do, and no name is written that looks like one of the
  identifiers localfront makes up.
- `ManagedAssumption`: no managed policy has an identifier that is made up.
- `ResolverAssumption`: what a value resolves to is what `resolve.go` makes of
  it, one level at a time, for the values in `Written`, which hold every part of
  the distributions and functions. It includes that a reference to a resource is
  not one to a parameter of the same name, which the parameter would win
  (`resolve.go:232`).
- `WrittenOutAssumption`: the objects of a distribution or function, and its lists
  of behaviors, associations and key groups, are written where they are used, no
  result of an intrinsic function; and no `AWS::NoValue` is among them, since it
  moves the elements after it.

### Wildcards and Glob

`internal/behavior` and `internal/sign` have the same loop. Its variables `p`,
`str`, `star` and `starMatchEnd` are the fields of `at`, counted from 0 as in the
code. `Consume`, `OpenStar`, `Backtrack`, `Reject` and `Finish` are the cases of
the switch and what follows the loop. The reference, `Matches`, does not mention
the loop: the text can be cut into one piece for each character of the pattern,
any piece for a `*`, one character for a `?`. `MatchGlob` is the loop as a
function of its arguments, for the modules that call it; a lemma
(`LoopDecidesMatchGlob`) ties it to the steps.

### Routing, Sign and Admission

A host is the sequence of its lower-case labels without the port, so that a
wildcard alias covers one label more. `ExactMatch` and `WildcardMatch` are the
two tables of the route table with their tie-breaks: the last distribution
stored under a name, the first wildcard.

In `Sign` a URL is a sequence of tokens, so that the wildcards of a policy's
resource can be matched; an RSA signature is the pair of the key and the
document it covers. Base64, JSON and PEM are left out except that a value may be
`Malformed`, and that a key that did not parse is in no `pubKeys`. A query is the
sequence of the pieces between its `&`s; an empty piece is `Blank`, and what
`ResourceQuery` leaves out is `Stripped`: the signer's parameters and the empty
ones. The code cuts a resource at its first `?` (`sign.go:379-385`): a `?` never
acts as a wildcard there.

`Admission` has `Route` (the snapshot, the host, the behavior), `CheckMethod` and
`CheckSignature` as steps; `Swap` and `Tick` come between any two. `Links` are the
links that were ever signed (`Credentials` and `Follow` are the signer of the AWS
SDK, external). A viewer follows one as it was issued, or brings what it likes,
save that a signature is one of a link: it may keep a signature and change
Expires, the policy, the key's ID, the URL or the address.

Two properties look at a decision from the two sides. `OnlyAuthorisedEnter` starts
from the request: the signature it presents must be one of a link of a trusted
key, in force, for a document that covers what is asked for (`AuthorisedBy`); for
a canned policy that includes every parameter the viewer asks for beside the
signer's. `IssuedLinksWork` starts from the link that was followed and asks
whether it ought to open this behavior in the configuration the request started
with (`Entitled`); the query string, cookies and policy of the request do not
occur in it.

## Runs

| Run | Shows |
|---|---|
| `MCFuncPool.cfg` | runtimes are borrowed by one, not leaked, not reused after an error; a closed pool is empty and drains: 3 callers, 2 closers, 3 runtimes, `MaxIdle` 2, so that a put meets a full pool |
| `Reload.cfg` | 4 reloads without the expiry race: served functions open, grace kept, leak bounded, nothing closed twice, shutdown releases, superseded generations closed in the end, `HotReload` refined |
| `ReloadGrace.cfg` | a finding, below |
| `Watch.cfg` | one template and one seed file in two directories, 3 saves, a queue of 2 so that it overflows, a debounce interval of 2 ticks: nothing is silently stale, a burst costs at most one reload, and the files end up loaded |
| `WatchGap.cfg` | a finding |
| `Pipeline.cfg` | two requests, a swap between a configuration with everything and one with nothing, statuses 200, 404 and 502 from origins, 0, 42 (net/http panics), 103 (an interim response), 302 and 404 from functions, a log whose writes may fail |
| `Exchange.cfg` | 21 distributions (five pairs of policies, both kinds of origin, strict and open CORS, functions that pass through, rewrite, answer and fail, error pages from another behavior) and 9 requests (HEAD, ranges, overrides and forged CloudFront headers, Connection lists, repeated cookies, parameters that do not unescape or have no `=`, cookies without a name or value) |
| `ExchangeHop.cfg` | a finding |
| `Glob.cfg` | the matcher is sound, complete for texts without a `*`, stays in bounds and returns: all patterns of up to 3 characters over `a b * ?` and some of 4 with two stars, all texts of up to 4 over `a b` and some with a `*` |
| `GlobStar.cfg` | a finding |
| `Admission.cfg` | hosts, behaviors, signed URLs and cookies: 2 configurations that differ in key rotation, order of behaviors and enabled distributions, about 4400 visits (links as issued, with empty parameters, and with an expiry, policy, key or parameter changed), a clock from 0 to 3, one swap, with and without `--public-host` |
| `Loading.cfg` | templates of one or two files with references of every kind, resolvable and not, parameters, mappings, transforms and conditions; 4 sets of seeds, with and without an object store; a save and the reload it causes |

The bounds. Two reloads are needed to collapse a grace period, a third to show
that the generation after a collapse is treated well; four reloads were checked.
The pool needs two callers to race for one slot and a third that holds a runtime
while a closer drains. Two saves are enough for one to arrive at every moment of
the other's reload; the third makes the queue overflow. With two ticks a timer
can be stopped when it is new, half-way and due. Two requests and a swap
cover a request on each side; requests share the snapshot and the log's writer,
and two are enough for one to log after the other's write failed. In
`Exchange.cfg` a cookie, a parameter and a header that both policies, one or
none of them select occur together, and an object is large enough to compress,
too small, or not to be transformed. Two stars and a text of four are enough to
backtrack to each star and to need the last one only. In `Admission.cfg`
documents begin and end at 1 and 2, so that a check meets the moment before, at
and after each boundary. In `Loading.cfg` two files let every reference cross
from one to the other in both orders, and a second load meets what the first
left. CHECK_DEADLOCK is off because all these systems may come to rest: no more
requests, saves, reloads or, after the exit, nothing at all.

Fairness. `FuncPool!FairSpec`: an Execute or Close that began finishes. Nothing
limits the time a handler takes, so this assumes that handlers return.
`Reload!FairSpec`: a reload that began finishes (reads and fetches return),
timers expire, callbacks run to their end, `closeCurrent` completes.
`Watch!FairSpec`: reads return, time passes, the timer expires, and select takes a case that stays ready (its choice
is random). `Glob!FairCall`: a sequential call runs on. Nobody is obliged to
send a request, save a file or stop the server.

## Findings

1. `ReloadGrace.cfg`: the timer's callback does not close the generation it was
   armed for but what is pending when it gets the mutex. If it expires while the
   next reload holds the mutex, it closes the generation that reload has just
   superseded: no grace period, possibly even before `Swap`
   (`reload.go:14-16`, `60-71`). The older generation is then closed by nobody,
   so that more than the one generation of `design-decisions.md:156` stays open
   (`LeakBound` fails as well with `ExpiryDuringReload = TRUE`).
2. `WatchGap.cfg`: a template saved between its first read and the registration
   of the watch is not loaded (`README.md:23` of the repository).
3. `ExchangeHop.cfg`: `forward.go:38-40` says that what the viewer's Connection
   header lists "must never reach the origin, even if a policy whitelists them".
   Cookie, Accept-Encoding and the always forwarded Range and conditional headers
   are added after the listed ones are left out, and so reach it.
4. `GlobStar.cfg`: a `*` in the path is compared with the pattern's `*` before
   that is taken for a wildcard, so `*` does not match `*a` (`behavior.go:50`;
   its comment, `behavior.go:32`, promises any characters). `sign.go:412` has the
   same loop.

Met while modelling, without a run of their own:

- A reload that reaches its critical section after `closeCurrent`'s leaves its
  functions open when the process exits (`reload.go:83-84`), and so does a
  callback that has taken a generation and not closed it (`reload.go:69-70`).
  `ExitReleases` says that nothing else stays open.
- An interim status (103) that a function puts in its response is what the access
  log records, though "observedStatus reports the status written to the wire"
  (`access.go:168`): net/http sends it and then 200. `ErrorsAreLabelled` speaks of
  whether the log and X-Cache call the outcome an error, which holds for 103 too.
- `resourceQuery` loses empty parameters (`sign.go:262`), so that a canned link
  for `?a=1&&b=2`, with a `&` at the end or a bare `?` is refused, though "the
  signer signs the base URL, with its query string, verbatim"
  (`sign.go:254-255`). `IssuedLinksWork` leaves such links out.
- A body that cannot be read for compression is answered with 502 under X-Cache
  Miss and the origin's Content-Length, set before (`write.go:41`).
  `ErrorsAreLabelled` leaves out the X-Cache of this answer.
- A save whose event the kernel drops (`watch.go:76`), and a fetch from the object
  store that fails in a reload (`functions.go:129`), leave the old configuration in
  place until the next save. `QuietMeansCurrent` and `Converges` excuse both.

## Proofs

`FuncPoolProofs` proves the safety properties of `FuncPool` for any sets of
callers, closers and runtimes and any `MaxIdle > 0`, among them two that no run
checks: nothing that refers to a runtime refers to a closed one (`OwnedAreLive`),
and at most `MaxIdle` runtimes are warm (`WarmBound`). The inductive invariant
`PoolInv` adds to them how a caller's program counter and the runtime it holds
correspond, that a closer drains only runtimes of a closed pool, and that an
unborn runtime belongs to nobody; the properties alone are not inductive because
a step that uses `held[c]` needs to know that `c` holds a live runtime.

`ReloadProofs` proves for any number of reloads, and with every interleaving of
timers, that no generation is closed twice and that the current one is served
between reloads. The argument is ownership: `currentFuncs`, `pendingFuncs`,
reload's and closeCurrent's local variables never name the same generation
(`SoleHolder`), nor one that a callback has in `toClose`, which two callbacks
never share (`CapturedAlone`); each of them names one that is built and not
closed, and a generation is closed only by whoever gives up the only reference
to it. Under
the assumption `~ExpiryDuringReload` it proves `ServedIsOpen`, `GraceHonoured`
and `LeakBound`: then a timer is armed exactly for the generations held as
pending or taken over (`ArmedIsHeld`, `HeldIsTimed`), and a callback has taken
the generation of its own timer (`ClosesItsOwn`), all of which the race breaks.

Under the same assumption `ExitReleasesAll` proves that what is open at an exit is
in the hands of a reload or of a callback that has left its critical section, so
that an exit that overtakes neither has closed every generation (`OpenIsHeld`: an
open generation is named by a field of the reloader or a local variable of
reload, closeCurrent or a callback), and
`ReloadRefinesHotReload` that `Reload` implements `HotReload`, for any number of
reloads. To the ownership invariant it adds `Lineage`, the order of generations:
a fresh generation is newer than the one served, the pending one older than the
current one, and while a reload collapses a grace period there is an open
generation between the one it closes and the one it brings (`Between`); that is
what `HotReload!Collapsed` asks for. Each step of `Reload` is then a step of
`HotReload` or leaves its variables alone.

`WatchProofs` proves for any files, directories, number of saves and length of
the queue that a quiet watcher is up to date with all it was told of
(`QuietIsCurrent`) and that reloads do not outnumber the bursts of events
(`ReloadsAreDebounced`): the timer that runs is as old as the last event received
(`TimerIsTimely`), so it fires only when a burst is over, and a timer that runs or
has fired stands for a burst no reload has answered (`BurstsAreAnsweredOnce`).
`WatchInv` says of every file whose loaded version, or
whose version that a running load has read, is not the one on disk why that is
not the end of it: its event is queued, a timer runs, or it is in `lost`
(`Pending`); unless a seed could not be fetched or the last load failed because of
a file that is still as it was.

`PipelineProofs` proves for any requests, configurations, swaps and statuses
that streams are closed exactly once, that each request has one response header,
and that it finds the functions of its snapshot. `PipelineInv` says of each stage
what is open there and whether a header has been written (`Stage`): a stage that
may still return early holds exactly the stream nobody has closed. A request's
step leaves the others' variables alone (`OwnVars`), so that each stage needs an
argument for its own request only. `LogLinesAreWhole` follows with `LogInv`: a
line belongs to a request that is done, hence to one that will not log again.
`LabelsHold` says of every status a function or error response may give that the
log and X-Cache call an error what the viewer gets as one. A log line has the
first status its handler wrote, through whatever wrappers and stages
(`AnswerInv`), and neither an interim one nor the 200 net/http sends after it is
an error.

`AdmissionProofs` proves for any configurations, visits and rotations of keys
that a host is served by an enabled owner, exact names first (`OwnersServe`);
that a path is served by the first behavior that covers it
(`FirstMatchIsServed`); that a restricted behavior is entered only with the
signature of a link by one of its trusted keys, for a document that covers what
is asked for and is in force for this client, whatever else the viewer changed
(`OnlySignedLinksEnter`); and that every link that ought to open it does, but for
the canned ones with an empty parameter (`LinksAreHonoured`). `AdmissionInv` has two parts: what `Route` chose is what the
configuration the request started with prescribes, whatever was swapped since
(`Routed`), and how the request was decided on is what `Verify` says of that
configuration at the time of the decision (`Decided`). The rest is about
`Verify`: the URL it rebuilds, the document it compares, the window of time. What
is assumed: signatures cannot be forged, that is, a signature in a request is one
of a link, and what comes with it is the viewer's to choose
(`SignatureAssumption`); and to follow a link as it was issued leaves its query
and cookies alone (`FollowAssumption`). `FirstMatchIsServed` is for
paths without a `*`, because of finding 4. `LinksAreHonoured` is for links whose
custom policy the code reads as it is meant (`WellFormed`: an IP condition that
parses, a resource that is `*`, a path or has a scheme) and for paths without
`://` (`PlainPaths`), since a resource that names such a path is taken for a URL.
`MCAdmission` states these hypotheses as an ASSUME, so that `Admission.cfg` checks
what is proved.

`ExchangeProofs` proves the five invariants and the two action properties of
`Exchange` for any distributions, requests, functions and origins.

- `CloudFrontHeadersStayOurs`: whatever a viewer sends, a function sets or a
  policy selects, a CloudFront header at an origin has the value that was made up
  from the viewer's request, unless the origin's custom headers name it. `Ours`
  says that of one header set, and each operation on the way to the origin keeps
  it; the invariant says that every request in `sent` was built from them. It
  assumes of the constants that override headers are not CloudFront headers
  themselves and set distinct ones, and that none of the headers localfront sets
  has a name beginning with `CloudFront-`.
- `OriginsGetWhatIsSelected`: of the headers, cookies and query parameters of the
  request, or of what a function made of it, an origin gets exactly those that
  the cache policy and the origin request policy select together. A header is the
  `SameAt` each step to the origin unless the step sets it or the viewer's
  Connection header lists it (`OutgoingReaches`, `OnlyListedRemoved`), and of a
  list what is `Kept` are the elements in the set (`KeptElements`).
  `SelectionInv` adds to the invariant that every request, the one for an error
  page and the one a function gives back included, has lists for its query and
  its cookies (`AppliedIsRequest`): the names come back sorted and the values
  flattened, so this takes `QueryIsSeq` and `CookiesAreSeq`. `DocumentedPolicies`
  says that the selections are those `config/model.go` lists, which the code
  does not check, and that no origin is configured with a Cookie header.
- `PagesStayWhole`: an error page is neither a part of the page nor the empty
  answer to a condition. Nothing but the viewer's request, the origin's own
  headers and the few that localfront sets reaches an origin (`ReachesOrigin`),
  and the page's request has lost the viewer's conditions. `Unconditional` says
  that no origin is configured with such headers of its own; the code does not
  check that, CloudFront does.
- `EncodingStaysNegotiated` and `CorsStaysVaried`: the viewer gets a body in a
  coding it accepts, of the coding and length its headers give, and Vary: Origin
  where the answer depends on the origin. `NegotiationInv` says at every stage
  that the response is `Coherent`: its Content-Encoding and Content-Length
  describe its body, which has at most one coding, an accepted one. It also needs
  `Unlisted`, that the hop that removes what Connection lists does not remove
  Vary or Content-Encoding. `PlainHeaders` is the hypothesis: objects carry no
  Content-Encoding beyond the one negotiated, and policies and origins are not
  configured with headers about the encoding, the length or the connection.

- `UnchangedRequestsAreNotNoticed` and `UnchangedResponsesAreNotNoticed`: a
  function that returns its event as it is changes nothing an origin or the
  viewer gets, but the order of cookies and of parameters with different names,
  and what an event cannot hold (see Exchange). Unescaping goes parameter by
  parameter (`DecodedMore`), so a `Readable` name has the same values before and
  after it (`DecodedValues`). An event groups values by name, and the way back sorts the names and flattens
  the values. The lemmas follow a list as it grows (`Growing`): what is `Kept` of
  it, which values a name has (`ValuesMore`), how values of several names are
  joined (`FieldsAreGiven`); so each name has the values it had, in their order
  (`QueryComesBack`, `QueryIsNotNoticed`). Cookies of different names come back as
  the same set (`CookiesComeBack`), and two lists with the same elements, each
  there once, have the same length, which is a fact about cardinality
  (`OnceEach`). `Alike` then carries two requests that differ in the order of
  their cookies through every step to the origin (`AskedAlike`). For responses,
  `CookieInv` says at every stage that the response's cookies are pairs, one to a
  line (`CookieLines`), which origins' answers are, and error pages, policies and
  CORS keep. `CookiesAreOneWay` is the hypothesis: requests have no Set-Cookie
  header, and origins and policies answer with no Cookie header and no policy sets
  a Set-Cookie header. `headersToFields` drops both names in both directions, so a
  message that does have the wrong one loses it on its way through a function.

`MCExchange` states these hypotheses as an ASSUME, so that they are true of what
`Exchange.cfg` checks. What the theorems assume of every instance are the
assumptions of the modules: headers have lines, a Cookie header or a line of
Set-Cookie consists of pairs, and names have an order.

`WildcardProofs` proves of `MatchGlob`, for all patterns and texts of any length,
that it accepts only what the pattern covers (`MatchGlobIsSound`) and, for texts
without a `*`, all of it (`MatchGlobIsComplete`). Soundness: the pattern up to `p`
covers the text up to `str`, and up to the last star it covers every prefix from
`end` on. Completeness says of every cut that fits the whole text that the loop
has not passed it: the last star's piece ends at or after `end`, the piece before
`p` ends at or after `str`, and both agree when the star's piece ends exactly
there. `MatchGlob` is a recursive function, and its equation holds only if there
is such a function: a walk through the loop to its end is one
(`MatchGlobUnfolds`). Every iteration takes the position farther (`Farther`), so
of all positions where a claim could fail there is a last one (`LastPosition`);
this takes the place of an induction rule, which would need an operator as its
parameter. The steps of the loop, in `Glob`, stay inside the arguments
(`IndexesAreSafe`) and decide what the function says (`LoopDecidesMatchGlob`,
which compares two forms of the model and is no result of its own), so that they are sound and complete as well (`Sound`, `Complete`). The assumption is
only that patterns and texts are sequences. The recursive functions of
`Exchange`, over the entries of a policy or the elements of a list, are treated
the same way: `Iterated` says that what is done element by element has a result,
and `UpTo` goes through the elements.

`LoadingProofs` proves for any templates, seeds, saves and order of the steps that
a startup whose check passed finds the seeds it needs (`StartupCheckForesees`),
that an alias has one owner (`AliasesHaveOneOwner`), that the order of the files
is not noticed (`OrderDoesNotMatter`), and that what is served is what the
templates refer to (`ReferencesBind`).

- `LoadingInv` is the invariant of the first two. It says that the configuration
  under construction and the one that is served are `Sound`: a function's stores
  and a behavior's functions are among those that were built, distributions have
  different IDs, and each of them owns its aliases, in lower case. A pass fills
  tables that later passes look names up in, and within a pass the configuration
  is only sound up to it, so the argument goes along the passes in their order
  (`During`: functions are built in the sixth, distributions in the last). The
  check walks from the distributions to the stores, and `BuildKVSStore` starts
  from the stores; soundness is what makes the two meet (`ReachedStores`).
- `OrderDoesNotMatter` compares the configuration with the one made of the same
  files in reverse order. Merging and every pass go through a list, so the
  argument gives each a closed form that mentions only the set of what the list
  holds: the merged files say what the files say together (`ParseIs`), and after
  a pass a table has an entry for each resource of its kind (`WholePass`). Both
  hold because whatever occurs twice is refused, in either order: a logical ID, a
  parameter, a mapping, an alias. Names of functions are not refused, which is
  why the property excludes functions of the same name, and `NamesGiveARNs` shows
  that this is enough. `OrderInv` says that, until the first save, the
  configuration that is checked is the one loaded from the templates.

- `ReferencesBind` follows a reference through the identifiers on its way: the
  resolver turns it into a text (`Referred`), the text is looked up in a table,
  and the table was filled under identifiers made elsewhere. `Denotes` is the
  relation that a resource has to every text that may stand for it: if the text
  has the form of an identifier, it is the resource's own. Every text that `Ref` or
  `Fn::GetAtt` gives for a resource denotes it (`ReferenceText`), and whatever a
  table holds under a text that denotes a resource was built from that resource
  (`PolicyReferred`, `GroupReferred`, `StoreReferred`, `FunctionReferred`), since
  every entry has the identifier of its own resource as its key (`Linked`, which
  all passes keep). From there the argument goes up: what the resolver leaves of
  an object or a list that is written out (`FieldMade`, `RecordsMade`), a behavior
  (`BehaviorReferred`), a distribution, a configuration that loads (`LoadBinds`).
  `LinkInv` adds the steps: what is served was loaded from some templates, what is
  compiled has the code of a function of its configuration, and every reachable
  function is compiled by the time the result is served. For the last, `Compile`
  must choose one of the functions left, which it does because each of them has a
  first place in the configuration (`FirstIsOne`).

The first three need `TemplatesAssumption` and `LowerAssumption`, that a lower-case
name stays as it is when it is put in lower case; `ReferencesBind` needs all the
assumptions listed with the module.

Only model-checked is liveness, since TLAPS has neither fairness nor ENABLED: that
a closed pool drains, a superseded generation is closed, the watcher converges
and the matcher returns.

## Not modelled

- The object store client (`internal/origin`): request signing and HTTP I/O. An
  origin's answer is a choice.
- The command line (`main.go`) and `internal/testimage`: flag parsing, constants.
- JavaScript: what a function does is a choice, or a program of `Exchange`.
- YAML and JSON syntax, PEM, base64; URL escaping, q-values in Accept-Encoding,
  trailers, and the bytes of bodies.
- Of a configuration: ports, methods, timeouts, comments, response headers
  policies as templates write them (`Exchange` has them as records), and the
  features that are rejected when a template mentions them.
- The fields and the escaping of an access-log entry, but for its status and
  result type.
- Fields that may hold an unresolved placeholder unchecked: `resolve.go:20-25`
  leaves the check to each consumer, and a property could only list the fields
  that are looked at.

## What could follow

1. A composition of pipeline, reloader and pool: a request that ends within its
   grace period never executes on a closed pool.
2. Response headers policies in `Build`.
