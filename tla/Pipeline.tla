------------------------------- MODULE Pipeline -------------------------------
(***************************************************************************)
(* The request pipeline of internal/dataplane: ServeHTTP and serve, from   *)
(* the Host match to the access-log line, for requests that run            *)
(* concurrently with configuration swaps.                                  *)
(*                                                                         *)
(* A handler touches only its own request, apart from the one atomic load  *)
(* of the server's snapshot; its stages are the actions below.  Kept of a  *)
(* response are its status, whether its body is in memory or a stream of   *)
(* the origin or of the error page's origin, and whether X-Cache says      *)
(* Miss or Error.  A configuration is what one generation of templates     *)
(* says about the requests' behavior, with the functions buildFunctions    *)
(* compiled for it.                                                        *)
(***************************************************************************)
EXTENDS Naturals, Sequences, FiniteSets

CONSTANTS
  Requests,        \* requests, each served once
  Configs,         \* configurations a generation may have
  MaxGen,          \* bound: number of swaps
  OriginStatuses,  \* statuses an origin may answer
  FnStatuses,      \* statuses a function may put in a response (0: none)
  None

Gens == 0 .. MaxGen
Functions == {"viewerRequest", "viewerResponse"}
Streams == {"origin", "page"}

(* A custom error response; without a page it only rewrites the status.    *)
ErrorResponse == [code : Nat, response : Nat, page : BOOLEAN]
Config == [signed : BOOLEAN, functions : SUBSET Functions, compress : BOOLEAN, errors : SUBSET ErrorResponse]

ASSUME ConfigAssumption == Configs # {} /\ Configs \subseteq Config
ASSUME StatusAssumption == OriginStatuses \subseteq 200 .. 599 /\ FnStatuses \subseteq Nat
ASSUME BoundAssumption == MaxGen \in Nat
ASSUME NoneAssumption == None \notin Nat

VARIABLES
  config,     \* config[g]: the configuration of generation g
  compiled,   \* compiled[g]: the functions compiled for generation g
  current,    \* the generation in Server.snap
  pc,         \* pc[r]: the next stage of r's handler
  snap,       \* snap[r]: the snapshot r loaded
  head,       \* is r a HEAD request?
  resp,       \* resp[r]: the originResponse the handler holds, or None
  opened,     \* opened[r]: the streams opened for r
  closes,     \* closes[r][b]: how often stream b of r was closed
  fromFn,     \* fromFn[r]: did the viewer-request function answer?
  headers,    \* headers[r]: the statuses given to WriteHeader
  xCache,     \* xCache[r]: X-Cache when the header was written
  torn,       \* torn[r]: reading the body to compress it failed
  uncompiled, \* uncompiled[r]: a function was not found in the snapshot
  logged,     \* logged[r]: the access-log entry, or None
  lines,      \* what the access log's destination has got after its header
  logErr      \* accesslog.Writer.err: has a write to it failed?

logVars == <<logged, lines, logErr>>
serverVars == <<config, compiled, current>>
answerVars == <<headers, xCache>>
vars == <<serverVars, pc, snap, head, resp, opened, closes, fromFn, answerVars, torn, uncompiled, logVars>>

Stages == {"new", "verify", "viewerRequest", "fetch", "errorResponse", "viewerResponse",
           "write", "log", "done", "panicked"}
Response == [status : Nat, body : Streams \cup {"memory"}]
Line == [of : Requests, whole : BOOLEAN]

TypeOK ==
  /\ config \in [Gens -> Configs]
  /\ compiled \in [Gens -> SUBSET Functions]
  /\ current \in Gens
  /\ pc \in [Requests -> Stages]
  /\ snap \in [Requests -> Gens]
  /\ head \in [Requests -> BOOLEAN]
  /\ resp \in [Requests -> Response \cup {None}]
  /\ opened \in [Requests -> SUBSET Streams]
  /\ closes \in [Requests -> [Streams -> Nat]]
  /\ fromFn \in [Requests -> BOOLEAN]
  /\ headers \in [Requests -> Seq(Nat)]
  /\ xCache \in [Requests -> {None, "Miss", "Error"}]
  /\ torn \in [Requests -> BOOLEAN]
  /\ uncompiled \in [Requests -> BOOLEAN]
  /\ lines \in Seq(Line) /\ logErr \in BOOLEAN

(* buildFunctions compiles exactly what reachableResources finds.          *)
Init ==
  /\ config \in [Gens -> Configs]
  /\ compiled = [g \in Gens |-> config[g].functions]
  /\ current = 0
  /\ pc = [r \in Requests |-> "new"]
  /\ snap = [r \in Requests |-> 0]
  /\ head \in [Requests -> BOOLEAN]
  /\ resp = [r \in Requests |-> None]
  /\ opened = [r \in Requests |-> {}]
  /\ closes = [r \in Requests |-> [b \in Streams |-> 0]]
  /\ fromFn = [r \in Requests |-> FALSE]
  /\ headers = [r \in Requests |-> <<>>]
  /\ xCache = [r \in Requests |-> None]
  /\ torn = [r \in Requests |-> FALSE]
  /\ uncompiled = [r \in Requests |-> FALSE]
  /\ logged = [r \in Requests |-> None]
  /\ lines = <<>> /\ logErr = FALSE

-----------------------------------------------------------------------------
(* Writing to the viewer.                                                  *)

(* net/http panics on a status that has not three digits, and sends 1xx    *)
(* other than 101 as an interim response.                                  *)
Valid(status) == status \in 100 .. 999
Interim(status) == status \in 100 .. 199 \ {101}

Go(r, stage) == pc' = [pc EXCEPT ![r] = stage]

CacheStatus(status) == IF status >= 400 THEN "Error" ELSE "Miss"

WriteHeader(r, status, cache) ==
  /\ headers' = [headers EXCEPT ![r] = Append(@, status)]
  /\ xCache' = [xCache EXCEPT ![r] = cache]

(* writeCFError, followed by return and the access log.                    *)
WriteCFError(r, status) == WriteHeader(r, status, "Error") /\ Go(r, "log")

CloseOf(r, bodies) ==
  [closes EXCEPT ![r] = [b \in Streams |-> IF b \in bodies THEN closes[r][b] + 1 ELSE closes[r][b]]]

(* originResponse.close; closing a body in memory does nothing.            *)
CloseResp(r) == closes' = CloseOf(r, {resp[r].body})

Take(r, status, body) == resp' = [resp EXCEPT ![r] = [status |-> status, body |-> body]]

-----------------------------------------------------------------------------
(* ServeHTTP: the snapshot is loaded once; no distribution matches, or the *)
(* behavior does not allow the method.                                     *)
Route(r) ==
  /\ pc[r] = "new"
  /\ snap' = [snap EXCEPT ![r] = current]
  /\ \/ WriteCFError(r, 403)
     \/ Go(r, "verify") /\ UNCHANGED answerVars
  /\ UNCHANGED <<serverVars, head, resp, opened, closes, fromFn, torn, uncompiled, logVars>>

(* sign.Verify, for behaviors with trusted key groups.                     *)
Verify(r) ==
  /\ pc[r] = "verify"
  /\ \/ config[snap[r]].signed /\ WriteCFError(r, 403)
     \/ Go(r, "viewerRequest") /\ UNCHANGED answerVars
  /\ UNCHANGED <<serverVars, snap, head, resp, opened, closes, fromFn, torn, uncompiled, logVars>>

(* Mutant: the functions are taken from the server's current snapshot.     *)
Lookup_Current(r, f) == f \in compiled[current]

(* snapshot.lookup finds the function.                                     *)
Lookup(r, f) == f \in compiled[snap[r]]

(* runViewerRequest: no function; not compiled; it fails; it answers; it   *)
(* rewrites the request.                                                   *)
RunViewerRequest(r) ==
  /\ pc[r] = "viewerRequest"
  /\ IF "viewerRequest" \notin config[snap[r]].functions
     THEN Go(r, "fetch") /\ UNCHANGED <<answerVars, resp, fromFn, uncompiled>>
     ELSE IF ~Lookup(r, "viewerRequest")
     THEN /\ uncompiled' = [uncompiled EXCEPT ![r] = TRUE]
          /\ WriteCFError(r, 503)
          /\ UNCHANGED <<resp, fromFn>>
     ELSE /\ UNCHANGED uncompiled
          /\ \/ WriteCFError(r, 503) /\ UNCHANGED <<resp, fromFn>>
             \/ /\ \E s \in FnStatuses : Take(r, IF s = 0 THEN 200 ELSE s, "memory")
                /\ fromFn' = [fromFn EXCEPT ![r] = TRUE]
                /\ Go(r, "write")
                /\ UNCHANGED answerVars
             \/ Go(r, "fetch") /\ UNCHANGED <<answerVars, resp, fromFn>>
  /\ UNCHANGED <<serverVars, snap, head, opened, closes, torn, logVars>>

(* fetchOrigin: a transport failure or timeout, an answer, or the page for *)
(* an S3 origin without an object store.                                   *)
Fetch(r) ==
  /\ pc[r] = "fetch"
  /\ \/ WriteCFError(r, 502) /\ UNCHANGED <<resp, opened>>
     \/ /\ \E s \in OriginStatuses : Take(r, s, "origin")
        /\ opened' = [opened EXCEPT ![r] = @ \cup {"origin"}]
        /\ Go(r, "errorResponse")
        /\ UNCHANGED answerVars
     \/ Take(r, 502, "memory") /\ Go(r, "errorResponse") /\ UNCHANGED <<answerVars, opened>>
  /\ UNCHANGED <<serverVars, snap, head, closes, fromFn, torn, uncompiled, logVars>>

(* Mutant: the rewritten response does not take over the body.             *)
ApplyErrorResponse_ClosesRewritten(r) ==
  /\ pc[r] = "errorResponse"
  /\ LET matching == {e \in config[snap[r]].errors : e.code = resp[r].status}
     IN  \/ matching = {} /\ UNCHANGED <<resp, opened, closes>>
         \/ \E e \in matching :
              /\ Take(r, e.response, IF e.page THEN "page" ELSE resp[r].body)
              /\ opened' = [opened EXCEPT ![r] = IF e.page THEN @ \cup {"page"} ELSE @]
              /\ CloseResp(r)
  /\ Go(r, "viewerResponse")
  /\ UNCHANGED <<serverVars, snap, head, fromFn, answerVars, torn, uncompiled, logVars>>

(* applyErrorResponse and its caller: nothing configured for the status;   *)
(* only the status is rewritten, the body changes hands; the page cannot   *)
(* be fetched; the page replaces the response, which is closed.  A page    *)
(* from an S3 origin without an object store is in memory.  Error          *)
(* responses have distinct codes; in the code the first match counts.      *)
ApplyErrorResponse(r) ==
  /\ pc[r] = "errorResponse"
  /\ LET matching == {e \in config[snap[r]].errors : e.code = resp[r].status}
     IN  \/ /\ matching = {} \/ \E e \in matching : e.page
            /\ UNCHANGED <<resp, opened, closes>>
         \/ \E e \in matching : ~e.page /\ Take(r, e.response, resp[r].body) /\ UNCHANGED <<opened, closes>>
         \/ \E e \in matching, body \in {"page", "memory"} :
              /\ e.page
              /\ Take(r, e.response, body)
              /\ opened' = [opened EXCEPT ![r] = @ \cup ({body} \cap Streams)]
              /\ CloseResp(r)
  /\ Go(r, "viewerResponse")
  /\ UNCHANGED <<serverVars, snap, head, fromFn, answerVars, torn, uncompiled, logVars>>

(* Mutant: after the 503 of a failing function the response is written.    *)
RunViewerResponse_GoesOn(r) ==
  /\ pc[r] = "viewerResponse"
  /\ IF "viewerResponse" \notin config[snap[r]].functions \/ resp[r].status >= 400
     THEN Go(r, "write") /\ UNCHANGED <<answerVars, resp>>
     ELSE \/ WriteHeader(r, 503, "Error") /\ Go(r, "write") /\ UNCHANGED resp
          \/ /\ \E s \in FnStatuses : Take(r, IF s = 0 THEN resp[r].status ELSE s, resp[r].body)
             /\ Go(r, "write") /\ UNCHANGED answerVars
  /\ UNCHANGED <<serverVars, snap, head, opened, closes, fromFn, torn, uncompiled, logVars>>

(* runViewerResponse, for an origin's answer below 400: not compiled or    *)
(* failing is a 503 and the deferred close; otherwise it may set a status. *)
RunViewerResponse(r) ==
  /\ pc[r] = "viewerResponse"
  /\ IF "viewerResponse" \notin config[snap[r]].functions \/ resp[r].status >= 400
     THEN Go(r, "write") /\ UNCHANGED <<answerVars, resp, closes, uncompiled>>
     ELSE IF ~Lookup(r, "viewerResponse")
     THEN /\ uncompiled' = [uncompiled EXCEPT ![r] = TRUE]
          /\ WriteCFError(r, 503) /\ CloseResp(r)
          /\ UNCHANGED resp
     ELSE /\ UNCHANGED uncompiled
          /\ \/ WriteCFError(r, 503) /\ CloseResp(r) /\ UNCHANGED resp
             \/ /\ \E s \in FnStatuses : Take(r, IF s = 0 THEN resp[r].status ELSE s, resp[r].body)
                /\ Go(r, "write")
                /\ UNCHANGED <<answerVars, closes>>
  /\ UNCHANGED <<serverVars, snap, head, opened, fromFn, torn, logVars>>

(* writeResponse, then serve's deferred close.  ChooseEncoding picks a     *)
(* coding only if the behavior compresses (and the headers allow it); then *)
(* the body is read first, and a failure answers 502 under the headers     *)
(* already set.  Otherwise the header is written before the body, and a    *)
(* failing copy changes nothing any more.                                  *)
WriteResponse(r) ==
  /\ pc[r] = "write"
  /\ \/ /\ Valid(resp[r].status)
        /\ WriteHeader(r, resp[r].status, CacheStatus(resp[r].status))
        /\ Go(r, "log")
        /\ UNCHANGED torn
     \/ /\ config[snap[r]].compress /\ resp[r].status = 200 /\ ~head[r]
        /\ resp[r].body # "memory"
        /\ WriteHeader(r, 502, CacheStatus(resp[r].status))
        /\ torn' = [torn EXCEPT ![r] = TRUE]
        /\ Go(r, "log")
     \/ /\ ~Valid(resp[r].status)
        /\ Go(r, "panicked")
        /\ UNCHANGED <<answerVars, torn>>
  /\ CloseResp(r)
  /\ UNCHANGED <<serverVars, snap, head, resp, opened, fromFn, uncompiled, logVars>>

(* What the viewer gets: after an interim response only, net/http sends    *)
(* 200 on the first write or when the handler returns.                     *)
Sent(r) == IF Interim(headers[r][1]) THEN 200 ELSE headers[r][1]

(* accessRecorder.observedStatus: the first status given to WriteHeader.   *)
ObservedStatus(r) == headers[r][1]

(* Mutant: the type follows the response the pipeline holds.               *)
ResultType_FromResponse(r) ==
  IF fromFn[r] THEN "FunctionGeneratedResponse"
  ELSE IF resp[r] # None /\ resp[r].status >= 400 THEN "Error" ELSE "Miss"

(* edgeResultType.                                                         *)
ResultType(r) ==
  IF fromFn[r] THEN "FunctionGeneratedResponse" ELSE IF ObservedStatus(r) >= 400 THEN "Error" ELSE "Miss"

(* Mutant: an earlier error does not stop the writer.                      *)
WriteLine_GoesOn(r) ==
  \E written \in {{}, {FALSE}, {TRUE}} :
    /\ lines' = lines \o [i \in 1 .. Cardinality(written) |-> [of |-> r, whole |-> written = {TRUE}]]
    /\ logErr' = (logErr \/ written # {TRUE})

(* Writer.Write, which holds the mutex: nothing after an error; else the   *)
(* line is written in one call, which may fail and leave a part of it.     *)
WriteLine(r) ==
  \/ logErr /\ UNCHANGED <<lines, logErr>>
  \/ ~logErr /\ lines' = Append(lines, [of |-> r, whole |-> TRUE]) /\ UNCHANGED logErr
  \/ ~logErr /\ logErr' = TRUE /\ (UNCHANGED lines \/ lines' = Append(lines, [of |-> r, whole |-> FALSE]))

(* emitAccessLog, with buildAccessEntry.                                   *)
EmitAccessLog(r) ==
  /\ pc[r] = "log"
  /\ logged' = [logged EXCEPT ![r] = [status |-> ObservedStatus(r), type |-> ResultType(r)]]
  /\ WriteLine(r)
  /\ Go(r, "done")
  /\ UNCHANGED <<serverVars, snap, head, resp, opened, closes, fromFn, answerVars, torn, uncompiled>>

-----------------------------------------------------------------------------
(* reload swaps in the next generation.                                    *)
Swap ==
  /\ current < MaxGen
  /\ current' = current + 1
  /\ UNCHANGED <<config, compiled, pc, snap, head, resp, opened, closes, fromFn, answerVars, torn, uncompiled, logVars>>

Handle(r) ==
  \/ Route(r) \/ Verify(r) \/ RunViewerRequest(r) \/ Fetch(r) \/ ApplyErrorResponse(r)
  \/ RunViewerResponse(r) \/ WriteResponse(r) \/ EmitAccessLog(r)

Next == Swap \/ \E r \in Requests : Handle(r)

Spec == Init /\ [][Next]_vars

-----------------------------------------------------------------------------
(* Properties.                                                             *)

Over(r) == pc[r] \in {"log", "done", "panicked"}

(***************************************************************************)
(* Every stream opened for a request is closed exactly once by the time    *)
(* its handler is over, on every path: answers, error pages, function      *)
(* errors, failed reads and panics (it also cancels the fetch's context).  *)
(***************************************************************************)
StreamsAreClosed ==
  \A r \in Requests : Over(r) => \A b \in Streams : closes[r][b] = IF b \in opened[r] THEN 1 ELSE 0

(***************************************************************************)
(* A handler that finishes has written exactly one response header.        *)
(***************************************************************************)
OneAnswer == \A r \in Requests : pc[r] \in {"log", "done"} => Len(headers[r]) = 1

(***************************************************************************)
(* A request never meets a function its behavior names and its snapshot    *)
(* lacks, however many reloads happen while it runs: "In-flight requests   *)
(* keep the snapshot they started with" (dataplane.go:46-47).              *)
(***************************************************************************)
FunctionsAreThere == \A r \in Requests : ~uncompiled[r]

(***************************************************************************)
(* Whatever status a function puts in the answer, the access log says      *)
(* Error of exactly the 4xx and 5xx that the viewer gets and no            *)
(* viewer-request function answered with (docs/implementation-plan.md:12), *)
(* and X-Cache says it of all of them, but for the 502 of a body that      *)
(* could not be read for compression: its X-Cache is set before.  The      *)
(* status in the log is another matter: it is the first that was written,  *)
(* and after an interim one the viewer gets a 200 that the log has not.    *)
(***************************************************************************)
ErrorsAreLabelled ==
  \A r \in Requests : logged[r] # None =>
    /\ (logged[r].type = "Error") = (Sent(r) >= 400 /\ ~fromFn[r])
    /\ ~torn[r] => (xCache[r] = "Error") = (Sent(r) >= 400)

(***************************************************************************)
(* "each entry reaches the destination as a single, complete line"         *)
(* (accesslog.go:70-71), until a write fails: then one line may be cut     *)
(* short, and nothing is ever glued to it.  No request is logged twice,    *)
(* and without an error every finished one is.                             *)
(***************************************************************************)
LogLinesAreWhole ==
  /\ \A i \in DOMAIN lines : lines[i].whole \/ (i = Len(lines) /\ logErr)
  /\ \A i, j \in DOMAIN lines : lines[i].of = lines[j].of => i = j
  /\ ~logErr => {r \in Requests : pc[r] = "done"} = {lines[i].of : i \in DOMAIN lines}
=============================================================================
