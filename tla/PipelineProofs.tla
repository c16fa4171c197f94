---------------------------- MODULE PipelineProofs ----------------------------
(***************************************************************************)
(* Proofs about the request pipeline, for any number of requests and swaps *)
(* and all configurations, origin answers and function results.            *)
(***************************************************************************)
EXTENDS Pipeline, TLAPS

(* Every stream opened for r, but the one in `kept`, was closed once, and  *)
(* no other.                                                               *)
ClosedBut(r, kept) ==
  \A b \in Streams : closes[r][b] = IF b \in opened[r] /\ b \notin kept THEN 1 ELSE 0

(* Before the origin answers, a handler holds nothing.                     *)
Untouched(r) == opened[r] = {} /\ ClosedBut(r, {})

(* From then on it holds a response whose body, a stream, is open.         *)
Holding(r) ==
  /\ resp[r] \in Response
  /\ resp[r].body \in Streams => resp[r].body \in opened[r]
  /\ ClosedBut(r, {resp[r].body})

Stage(r) ==
  /\ pc[r] \in {"new", "verify", "viewerRequest", "fetch"} => Untouched(r)
  /\ pc[r] \in {"errorResponse", "viewerResponse", "write"} => Holding(r)
  /\ pc[r] = "errorResponse" => "page" \notin opened[r]
  /\ Over(r) => ClosedBut(r, {})
  /\ ~Over(r) => headers[r] = <<>>
  /\ pc[r] \in {"log", "done"} => Len(headers[r]) = 1
  /\ ~uncompiled[r]

PipelineInv ==
  /\ TypeOK
  /\ compiled = [g \in Gens |-> config[g].functions]
  /\ \A r \in Requests : Stage(r)

(* What a handler does is seen in its own request only.                    *)
OwnVars(r) == <<pc[r], snap[r], head[r], resp[r], opened[r], closes[r], headers[r], uncompiled[r]>>

LEMMA InitInv == Init => PipelineInv
<1> SUFFICES ASSUME Init PROVE PipelineInv
  OBVIOUS
<1>1. TypeOK
  <2>1. 0 \in Gens
    BY BoundAssumption DEF Gens
  <2>2. lines \in Seq(Line)
    BY DEF Init
  <2>3. compiled \in [Gens -> SUBSET Functions]
    BY ConfigAssumption DEF Init, Config
  <2>4. /\ config \in [Gens -> Configs] /\ current \in Gens
        /\ pc \in [Requests -> Stages] /\ snap \in [Requests -> Gens] /\ head \in [Requests -> BOOLEAN]
    BY <2>1 DEF Init, Stages
  <2>5. resp \in [Requests -> Response \cup {None}] /\ opened \in [Requests -> SUBSET Streams]
    BY DEF Init
  <2>6. closes \in [Requests -> [Streams -> Nat]]
    BY DEF Init
  <2>7. headers \in [Requests -> Seq(Nat)]
    BY DEF Init
  <2>8. /\ fromFn \in [Requests -> BOOLEAN] /\ xCache \in [Requests -> {None, "Miss", "Error"}]
        /\ torn \in [Requests -> BOOLEAN] /\ uncompiled \in [Requests -> BOOLEAN] /\ logErr \in BOOLEAN
    BY DEF Init
  <2> QED
    BY <2>2, <2>3, <2>4, <2>5, <2>6, <2>7, <2>8 DEF TypeOK
<1>2. \A r \in Requests : Stage(r)
  BY DEF Init, Stage, Over, Untouched, ClosedBut
<1> QED
  BY <1>1, <1>2 DEF PipelineInv, Init

(* CloseResp closes the stream held, if one is, and nothing else.          *)
LEMMA CloseRespCloses ==
  ASSUME TypeOK, NEW r \in Requests, CloseResp(r)
  PROVE  /\ closes' \in [Requests -> [Streams -> Nat]]
         /\ \A b \in Streams : closes'[r][b] = IF b = resp[r].body THEN closes[r][b] + 1 ELSE closes[r][b]
         /\ \A q \in Requests \ {r} : closes'[q] = closes[q]
<1> DEFINE new == [b \in Streams |-> IF b \in {resp[r].body} THEN closes[r][b] + 1 ELSE closes[r][b]]
<1>1. closes \in [Requests -> [Streams -> Nat]]
  BY DEF TypeOK
<1>2. new \in [Streams -> Nat]
  BY <1>1
<1>3. closes' = [closes EXCEPT ![r] = new]
  BY DEF CloseResp, CloseOf
<1> QED
  BY <1>1, <1>2, <1>3

LEMMA WriteHeaderWrites ==
  ASSUME TypeOK, NEW r \in Requests, NEW status \in Nat, NEW cache \in {"Miss", "Error"}, WriteHeader(r, status, cache)
  PROVE  /\ headers' \in [Requests -> Seq(Nat)] /\ xCache' \in [Requests -> {None, "Miss", "Error"}]
         /\ headers[r] = <<>> => Len(headers'[r]) = 1
         /\ \A q \in Requests \ {r} : headers'[q] = headers[q]
<1>1. headers \in [Requests -> Seq(Nat)] /\ xCache \in [Requests -> {None, "Miss", "Error"}]
  BY DEF TypeOK
<1>2. headers' = [headers EXCEPT ![r] = Append(headers[r], status)] /\ xCache' = [xCache EXCEPT ![r] = cache]
  BY DEF WriteHeader
<1> QED
  BY <1>1, <1>2

(* Go(r, stage) moves r alone.                                             *)
LEMMA GoMoves ==
  ASSUME TypeOK, NEW r \in Requests, NEW stage \in Stages, Go(r, stage)
  PROVE  pc' \in [Requests -> Stages] /\ pc'[r] = stage /\ \A q \in Requests \ {r} : pc'[q] = pc[q]
BY DEF TypeOK, Go

(* Take(r, status, body) replaces the response of r alone.                 *)
LEMMA TakeTakes ==
  ASSUME TypeOK, NEW r \in Requests, NEW status \in Nat, NEW body \in Streams \cup {"memory"}, Take(r, status, body)
  PROVE  /\ resp' \in [Requests -> Response \cup {None}]
         /\ resp'[r] \in Response /\ resp'[r].body = body
         /\ \A q \in Requests \ {r} : resp'[q] = resp[q]
<1>1. [status |-> status, body |-> body] \in Response
  BY DEF Response
<1>2. resp \in [Requests -> Response \cup {None}] /\ resp' = [resp EXCEPT ![r] = [status |-> status, body |-> body]]
  BY DEF TypeOK, Take
<1> QED
  BY <1>1, <1>2

(* What a step of r has to establish; Kept is what the others rely on.     *)
Kept(r) == \A q \in Requests \ {r} : OwnVars(q)' = OwnVars(q)
Good(r) == TypeOK' /\ Stage(r)' /\ Kept(r) /\ UNCHANGED <<config, compiled>>

(* An error page of the server's own ends the handling.                    *)
LEMMA CFErrorAnswers ==
  ASSUME TypeOK, NEW r \in Requests, NEW status \in Nat, WriteCFError(r, status)
  PROVE  /\ headers' \in [Requests -> Seq(Nat)] /\ xCache' \in [Requests -> {None, "Miss", "Error"}]
         /\ headers[r] = <<>> => Len(headers'[r]) = 1
         /\ pc' \in [Requests -> Stages] /\ pc'[r] = "log"
         /\ \A q \in Requests \ {r} : pc'[q] = pc[q] /\ headers'[q] = headers[q]
BY WriteHeaderWrites, GoMoves DEF WriteCFError, Stages

LEMMA RouteGood ==
  ASSUME PipelineInv, NEW r \in Requests, Route(r)
  PROVE  Good(r)
<1>1. TypeOK /\ Stage(r) /\ pc[r] = "new"
  BY DEF Route, PipelineInv
<1>2. snap' \in [Requests -> Gens] /\ \A q \in Requests \ {r} : snap'[q] = snap[q]
  BY <1>1 DEF Route, TypeOK
<1>3. CASE WriteCFError(r, 403)
  <2>1. TypeOK'
    BY <1>1, <1>2, <1>3, CFErrorAnswers DEF Route, TypeOK, serverVars, logVars
  <2>2. Stage(r)'
    BY <1>1, <1>3, CFErrorAnswers DEF Route, Stage, Over, Untouched, ClosedBut
  <2> QED
    BY <1>1, <1>2, <1>3, <2>1, <2>2, CFErrorAnswers DEF Route, Good, Kept, OwnVars, serverVars
<1>4. CASE Go(r, "verify") /\ UNCHANGED answerVars
  <2>1. pc' \in [Requests -> Stages] /\ pc'[r] = "verify" /\ \A q \in Requests \ {r} : pc'[q] = pc[q]
    BY <1>1, <1>4, GoMoves DEF Stages
  <2>2. TypeOK'
    BY <1>1, <1>2, <1>4, <2>1 DEF Route, TypeOK, serverVars, answerVars, logVars
  <2>3. Stage(r)'
    BY <1>1, <1>4, <2>1 DEF Route, Stage, Over, Untouched, ClosedBut, answerVars
  <2> QED
    BY <1>2, <1>4, <2>1, <2>2, <2>3 DEF Route, Good, Kept, OwnVars, serverVars, answerVars
<1> QED
  BY <1>3, <1>4 DEF Route

LEMMA VerifyGood ==
  ASSUME PipelineInv, NEW r \in Requests, Verify(r)
  PROVE  Good(r)
<1>1. TypeOK /\ Stage(r) /\ pc[r] = "verify"
  BY DEF Verify, PipelineInv
<1>2. CASE WriteCFError(r, 403)
  <2>1. TypeOK'
    BY <1>1, <1>2, CFErrorAnswers DEF Verify, TypeOK, serverVars, logVars
  <2>2. Stage(r)'
    BY <1>1, <1>2, CFErrorAnswers DEF Verify, Stage, Over, Untouched, ClosedBut
  <2> QED
    BY <1>1, <1>2, <2>1, <2>2, CFErrorAnswers DEF Verify, Good, Kept, OwnVars, serverVars
<1>3. CASE Go(r, "viewerRequest") /\ UNCHANGED answerVars
  <2>1. pc' \in [Requests -> Stages] /\ pc'[r] = "viewerRequest" /\ \A q \in Requests \ {r} : pc'[q] = pc[q]
    BY <1>1, <1>3, GoMoves DEF Stages
  <2>2. TypeOK'
    BY <1>1, <1>3, <2>1 DEF Verify, TypeOK, serverVars, answerVars, logVars
  <2>3. Stage(r)'
    BY <1>1, <1>3, <2>1 DEF Verify, Stage, Over, Untouched, ClosedBut, answerVars
  <2> QED
    BY <1>3, <2>1, <2>2, <2>3 DEF Verify, Good, Kept, OwnVars, serverVars, answerVars
<1> QED
  BY <1>2, <1>3 DEF Verify

(* A function that the configuration names is compiled.                    *)
LEMMA FunctionsCompiled ==
  ASSUME PipelineInv, NEW r \in Requests, NEW f \in config[snap[r]].functions
  PROVE  Lookup(r, f)
BY DEF PipelineInv, TypeOK, Lookup

LEMMA RunViewerRequestGood ==
  ASSUME PipelineInv, NEW r \in Requests, RunViewerRequest(r)
  PROVE  Good(r)
<1>1. TypeOK /\ Stage(r) /\ pc[r] = "viewerRequest"
  BY DEF RunViewerRequest, PipelineInv
<1>2. UNCHANGED uncompiled
  BY FunctionsCompiled DEF RunViewerRequest
<1>3. CASE WriteCFError(r, 503) /\ UNCHANGED <<resp, fromFn>>
  <2>1. TypeOK'
    BY <1>1, <1>2, <1>3, CFErrorAnswers DEF RunViewerRequest, TypeOK, serverVars, logVars
  <2>2. Stage(r)'
    BY <1>1, <1>2, <1>3, CFErrorAnswers DEF RunViewerRequest, Stage, Over, Untouched, ClosedBut
  <2> QED
    BY <1>1, <1>2, <1>3, <2>1, <2>2, CFErrorAnswers DEF RunViewerRequest, Good, Kept, OwnVars, serverVars
<1>4. CASE /\ \E s \in FnStatuses : Take(r, IF s = 0 THEN 200 ELSE s, "memory")
           /\ fromFn' = [fromFn EXCEPT ![r] = TRUE] /\ Go(r, "write") /\ UNCHANGED answerVars
  <2>1. PICK s \in FnStatuses : Take(r, IF s = 0 THEN 200 ELSE s, "memory")
    BY <1>4
  <2>2. (IF s = 0 THEN 200 ELSE s) \in Nat
    BY StatusAssumption
  <2>3. /\ resp' \in [Requests -> Response \cup {None}]
        /\ resp'[r] \in Response /\ resp'[r].body = "memory"
        /\ \A q \in Requests \ {r} : resp'[q] = resp[q]
    BY <1>1, <2>1, <2>2, TakeTakes
  <2>4. pc' \in [Requests -> Stages] /\ pc'[r] = "write" /\ \A q \in Requests \ {r} : pc'[q] = pc[q]
    BY <1>1, <1>4, GoMoves DEF Stages
  <2>5. TypeOK'
    BY <1>1, <1>2, <1>4, <2>3, <2>4 DEF RunViewerRequest, TypeOK, serverVars, answerVars, logVars
  <2>6. Stage(r)'
    BY <1>1, <1>2, <1>4, <2>3, <2>4 DEF RunViewerRequest, Stage, Over, Untouched, Holding, ClosedBut, answerVars, Streams
  <2> QED
    BY <1>2, <1>4, <2>3, <2>4, <2>5, <2>6 DEF RunViewerRequest, Good, Kept, OwnVars, serverVars, answerVars
<1>5. CASE Go(r, "fetch") /\ UNCHANGED <<answerVars, resp, fromFn>>
  <2>1. pc' \in [Requests -> Stages] /\ pc'[r] = "fetch" /\ \A q \in Requests \ {r} : pc'[q] = pc[q]
    BY <1>1, <1>5, GoMoves DEF Stages
  <2>2. TypeOK'
    BY <1>1, <1>2, <1>5, <2>1 DEF RunViewerRequest, TypeOK, serverVars, answerVars, logVars
  <2>3. Stage(r)'
    BY <1>1, <1>2, <1>5, <2>1 DEF RunViewerRequest, Stage, Over, Untouched, ClosedBut, answerVars
  <2> QED
    BY <1>2, <1>5, <2>1, <2>2, <2>3 DEF RunViewerRequest, Good, Kept, OwnVars, serverVars, answerVars
<1> QED
  BY <1>3, <1>4, <1>5, FunctionsCompiled DEF RunViewerRequest

LEMMA FetchGood ==
  ASSUME PipelineInv, NEW r \in Requests, Fetch(r)
  PROVE  Good(r)
<1>1. TypeOK /\ Stage(r) /\ pc[r] = "fetch"
  BY DEF Fetch, PipelineInv
<1>2. CASE WriteCFError(r, 502) /\ UNCHANGED <<resp, opened>>
  <2>1. TypeOK'
    BY <1>1, <1>2, CFErrorAnswers DEF Fetch, TypeOK, serverVars, logVars
  <2>2. Stage(r)'
    BY <1>1, <1>2, CFErrorAnswers DEF Fetch, Stage, Over, Untouched, ClosedBut
  <2> QED
    BY <1>1, <1>2, <2>1, <2>2, CFErrorAnswers DEF Fetch, Good, Kept, OwnVars, serverVars
<1>3. ASSUME NEW s \in Nat, NEW body \in {"origin", "memory"}, Take(r, s, body),
             opened' = [opened EXCEPT ![r] = @ \cup ({body} \cap Streams)],
             Go(r, "errorResponse"), UNCHANGED answerVars
      PROVE  Good(r)
  <2>1. /\ resp' \in [Requests -> Response \cup {None}]
        /\ resp'[r] \in Response /\ resp'[r].body = body
        /\ \A q \in Requests \ {r} : resp'[q] = resp[q]
    BY <1>1, <1>3, TakeTakes DEF Streams
  <2>2. pc' \in [Requests -> Stages] /\ pc'[r] = "errorResponse" /\ \A q \in Requests \ {r} : pc'[q] = pc[q]
    BY <1>1, <1>3, GoMoves DEF Stages
  <2>3. /\ opened' \in [Requests -> SUBSET Streams] /\ opened'[r] = {body} \cap Streams
        /\ \A q \in Requests \ {r} : opened'[q] = opened[q]
    BY <1>1, <1>3 DEF TypeOK, Stage, Untouched
  <2>4. TypeOK'
    BY <1>1, <1>3, <2>1, <2>2, <2>3 DEF Fetch, TypeOK, serverVars, answerVars, logVars
  <2>5. Stage(r)'
    BY <1>1, <1>3, <2>1, <2>2, <2>3 DEF Fetch, Stage, Over, Untouched, Holding, ClosedBut, answerVars, Streams
  <2> QED
    BY <1>3, <2>1, <2>2, <2>3, <2>4, <2>5 DEF Fetch, Good, Kept, OwnVars, serverVars, answerVars
<1>4. CASE /\ \E s \in OriginStatuses : Take(r, s, "origin")
           /\ opened' = [opened EXCEPT ![r] = @ \cup {"origin"}]
           /\ Go(r, "errorResponse") /\ UNCHANGED answerVars
  <2>1. PICK s \in OriginStatuses : Take(r, s, "origin")
    BY <1>4
  <2>2. s \in Nat
    BY StatusAssumption
  <2>3. {"origin"} \cap Streams = {"origin"}
    BY DEF Streams
  <2> QED
    BY <1>3, <1>4, <2>1, <2>2, <2>3
<1>5. CASE Take(r, 502, "memory") /\ Go(r, "errorResponse") /\ UNCHANGED <<answerVars, opened>>
  <2>1. opened' = [opened EXCEPT ![r] = @ \cup ({"memory"} \cap Streams)]
    BY <1>1, <1>5 DEF TypeOK, Streams
  <2>2. 502 \in Nat /\ "memory" \in {"origin", "memory"}
    OBVIOUS
  <2> QED
    BY <1>3, <1>5, <2>1, <2>2, Zenon
<1> QED
  BY <1>2, <1>4, <1>5 DEF Fetch

LEMMA ApplyErrorResponseGood ==
  ASSUME PipelineInv, NEW r \in Requests, ApplyErrorResponse(r)
  PROVE  Good(r)
<1>1. /\ TypeOK /\ Stage(r) /\ pc[r] = "errorResponse" /\ Holding(r) /\ "page" \notin opened[r]
      /\ opened \in [Requests -> SUBSET Streams]
  BY DEF ApplyErrorResponse, PipelineInv, Stage, TypeOK
<1>2. pc' \in [Requests -> Stages] /\ pc'[r] = "viewerResponse" /\ \A q \in Requests \ {r} : pc'[q] = pc[q]
  BY <1>1, GoMoves DEF ApplyErrorResponse, Stages
<1>3. \A e \in config[snap[r]].errors : e.response \in Nat
  BY <1>1, ConfigAssumption DEF TypeOK, Config, ErrorResponse
<1>4. CASE UNCHANGED <<resp, opened, closes>>
  <2>1. TypeOK'
    BY <1>1, <1>2, <1>4 DEF ApplyErrorResponse, TypeOK, serverVars, answerVars, logVars
  <2>2. Stage(r)'
    BY <1>1, <1>2, <1>4 DEF ApplyErrorResponse, Stage, Over, Holding, ClosedBut, answerVars
  <2> QED
    BY <1>2, <1>4, <2>1, <2>2 DEF ApplyErrorResponse, Good, Kept, OwnVars, serverVars, answerVars
<1>5. ASSUME NEW e \in config[snap[r]].errors, Take(r, e.response, resp[r].body), UNCHANGED <<opened, closes>>
      PROVE  Good(r)
  <2>1. /\ resp' \in [Requests -> Response \cup {None}]
        /\ resp'[r] \in Response /\ resp'[r].body = resp[r].body
        /\ \A q \in Requests \ {r} : resp'[q] = resp[q]
    BY <1>1, <1>3, <1>5, TakeTakes DEF Holding, Response
  <2>2. TypeOK'
    BY <1>1, <1>2, <1>5, <2>1 DEF ApplyErrorResponse, TypeOK, serverVars, answerVars, logVars
  <2>3. Stage(r)'
    BY <1>1, <1>2, <1>5, <2>1 DEF ApplyErrorResponse, Stage, Over, Holding, ClosedBut, answerVars
  <2> QED
    BY <1>2, <1>5, <2>1, <2>2, <2>3 DEF ApplyErrorResponse, Good, Kept, OwnVars, serverVars, answerVars
<1>6. ASSUME NEW e \in config[snap[r]].errors, NEW body \in {"page", "memory"}, Take(r, e.response, body),
             opened' = [opened EXCEPT ![r] = @ \cup ({body} \cap Streams)], CloseResp(r)
      PROVE  Good(r)
  <2>1. /\ resp' \in [Requests -> Response \cup {None}]
        /\ resp'[r] \in Response /\ resp'[r].body = body
        /\ \A q \in Requests \ {r} : resp'[q] = resp[q]
    BY <1>1, <1>3, <1>6, TakeTakes DEF Streams
  <2>2. /\ opened' \in [Requests -> SUBSET Streams] /\ opened'[r] = opened[r] \cup ({body} \cap Streams)
        /\ \A q \in Requests \ {r} : opened'[q] = opened[q]
    BY <1>1, <1>6
  <2>3. /\ closes' \in [Requests -> [Streams -> Nat]]
        /\ \A b \in Streams : closes'[r][b] = IF b = resp[r].body THEN closes[r][b] + 1 ELSE closes[r][b]
        /\ \A q \in Requests \ {r} : closes'[q] = closes[q]
    BY <1>1, <1>6, CloseRespCloses
  <2>4. TypeOK'
    BY <1>1, <1>2, <2>1, <2>2, <2>3 DEF ApplyErrorResponse, TypeOK, serverVars, answerVars, logVars
  <2>5. ClosedBut(r, {body})'
    BY <1>1, <2>2, <2>3 DEF Holding, ClosedBut, Streams
  <2>6. Stage(r)'
    BY <1>1, <1>2, <2>1, <2>2, <2>5 DEF ApplyErrorResponse, Stage, Over, Holding, answerVars, Streams
  <2> QED
    BY <1>2, <2>1, <2>2, <2>3, <2>4, <2>6 DEF ApplyErrorResponse, Good, Kept, OwnVars, serverVars, answerVars
<1> QED
  BY <1>4, <1>5, <1>6 DEF ApplyErrorResponse

LEMMA RunViewerResponseGood ==
  ASSUME PipelineInv, NEW r \in Requests, RunViewerResponse(r)
  PROVE  Good(r)
<1>1. TypeOK /\ Stage(r) /\ pc[r] = "viewerResponse" /\ Holding(r)
  BY DEF RunViewerResponse, PipelineInv, Stage
<1>2. UNCHANGED uncompiled
  BY FunctionsCompiled DEF RunViewerResponse
<1>3. CASE Go(r, "write") /\ UNCHANGED <<answerVars, resp, closes>>
  <2>1. pc' \in [Requests -> Stages] /\ pc'[r] = "write" /\ \A q \in Requests \ {r} : pc'[q] = pc[q]
    BY <1>1, <1>3, GoMoves DEF Stages
  <2>2. TypeOK'
    BY <1>1, <1>2, <1>3, <2>1 DEF RunViewerResponse, TypeOK, serverVars, answerVars, logVars
  <2>3. Stage(r)'
    BY <1>1, <1>2, <1>3, <2>1 DEF RunViewerResponse, Stage, Over, Holding, ClosedBut, answerVars
  <2> QED
    BY <1>2, <1>3, <2>1, <2>2, <2>3 DEF RunViewerResponse, Good, Kept, OwnVars, serverVars, answerVars
<1>4. CASE WriteCFError(r, 503) /\ CloseResp(r) /\ UNCHANGED resp
  <2>1. /\ closes' \in [Requests -> [Streams -> Nat]]
        /\ \A b \in Streams : closes'[r][b] = IF b = resp[r].body THEN closes[r][b] + 1 ELSE closes[r][b]
        /\ \A q \in Requests \ {r} : closes'[q] = closes[q]
    BY <1>1, <1>4, CloseRespCloses
  <2>2. TypeOK'
    BY <1>1, <1>2, <1>4, <2>1, CFErrorAnswers DEF RunViewerResponse, TypeOK, serverVars, logVars
  <2>3. ClosedBut(r, {})'
    BY <1>1, <2>1 DEF RunViewerResponse, Holding, ClosedBut
  <2>4. Stage(r)'
    BY <1>1, <1>2, <1>4, <2>3, CFErrorAnswers DEF RunViewerResponse, Stage, Over
  <2> QED
    BY <1>1, <1>2, <1>4, <2>1, <2>2, <2>4, CFErrorAnswers DEF RunViewerResponse, Good, Kept, OwnVars, serverVars
<1>5. CASE /\ \E s \in FnStatuses : Take(r, IF s = 0 THEN resp[r].status ELSE s, resp[r].body)
           /\ Go(r, "write") /\ UNCHANGED <<answerVars, closes>>
  <2>1. PICK s \in FnStatuses : Take(r, IF s = 0 THEN resp[r].status ELSE s, resp[r].body)
    BY <1>5
  <2>2. (IF s = 0 THEN resp[r].status ELSE s) \in Nat /\ resp[r].body \in Streams \cup {"memory"}
    BY <1>1, StatusAssumption DEF Holding, Response
  <2>3. /\ resp' \in [Requests -> Response \cup {None}]
        /\ resp'[r] \in Response /\ resp'[r].body = resp[r].body
        /\ \A q \in Requests \ {r} : resp'[q] = resp[q]
    BY <1>1, <2>1, <2>2, TakeTakes
  <2>4. pc' \in [Requests -> Stages] /\ pc'[r] = "write" /\ \A q \in Requests \ {r} : pc'[q] = pc[q]
    BY <1>1, <1>5, GoMoves DEF Stages
  <2>5. TypeOK'
    BY <1>1, <1>2, <1>5, <2>3, <2>4 DEF RunViewerResponse, TypeOK, serverVars, answerVars, logVars
  <2>6. Stage(r)'
    BY <1>1, <1>2, <1>5, <2>3, <2>4 DEF RunViewerResponse, Stage, Over, Holding, ClosedBut, answerVars
  <2> QED
    BY <1>2, <1>5, <2>3, <2>4, <2>5, <2>6 DEF RunViewerResponse, Good, Kept, OwnVars, serverVars, answerVars
<1> QED
  BY <1>3, <1>4, <1>5, FunctionsCompiled DEF RunViewerResponse

LEMMA WriteResponseGood ==
  ASSUME PipelineInv, NEW r \in Requests, WriteResponse(r)
  PROVE  Good(r)
<1>1. TypeOK /\ Stage(r) /\ pc[r] = "write" /\ Holding(r) /\ resp[r].status \in Nat
  BY DEF WriteResponse, PipelineInv, Stage, Holding, Response
<1>2. /\ closes' \in [Requests -> [Streams -> Nat]]
      /\ \A b \in Streams : closes'[r][b] = IF b = resp[r].body THEN closes[r][b] + 1 ELSE closes[r][b]
      /\ \A q \in Requests \ {r} : closes'[q] = closes[q]
  BY <1>1, CloseRespCloses DEF WriteResponse
<1>3. ClosedBut(r, {})'
  BY <1>1, <1>2 DEF WriteResponse, Holding, ClosedBut
<1>4. torn' \in [Requests -> BOOLEAN]
  <2>1. torn \in [Requests -> BOOLEAN]
    BY <1>1 DEF TypeOK
  <2>2. UNCHANGED torn \/ torn' = [torn EXCEPT ![r] = TRUE]
    BY DEF WriteResponse
  <2> QED
    BY <2>1, <2>2
<1>5. ASSUME NEW status \in Nat, WriteHeader(r, status, CacheStatus(resp[r].status)), Go(r, "log")
      PROVE  Good(r)
  <2>1. CacheStatus(resp[r].status) \in {"Miss", "Error"}
    BY DEF CacheStatus
  <2>2. /\ headers' \in [Requests -> Seq(Nat)] /\ xCache' \in [Requests -> {None, "Miss", "Error"}]
        /\ headers[r] = <<>> => Len(headers'[r]) = 1
        /\ \A q \in Requests \ {r} : headers'[q] = headers[q]
    BY <1>1, <1>5, <2>1, WriteHeaderWrites
  <2>3. pc' \in [Requests -> Stages] /\ pc'[r] = "log" /\ \A q \in Requests \ {r} : pc'[q] = pc[q]
    BY <1>1, <1>5, GoMoves DEF Stages
  <2>4. TypeOK'
    BY <1>1, <1>2, <1>4, <2>2, <2>3 DEF WriteResponse, TypeOK, serverVars, logVars
  <2>5. Stage(r)'
    BY <1>1, <1>3, <2>2, <2>3 DEF WriteResponse, Stage, Over
  <2> QED
    BY <1>2, <2>2, <2>3, <2>4, <2>5 DEF WriteResponse, Good, Kept, OwnVars, serverVars
<1>6. CASE Go(r, "panicked") /\ UNCHANGED <<answerVars, torn>>
  <2>1. pc' \in [Requests -> Stages] /\ pc'[r] = "panicked" /\ \A q \in Requests \ {r} : pc'[q] = pc[q]
    BY <1>1, <1>6, GoMoves DEF Stages
  <2>2. TypeOK'
    BY <1>1, <1>2, <1>6, <2>1 DEF WriteResponse, TypeOK, serverVars, answerVars, logVars
  <2>3. Stage(r)'
    BY <1>1, <1>3, <1>6, <2>1 DEF WriteResponse, Stage, Over, answerVars
  <2> QED
    BY <1>2, <1>6, <2>1, <2>2, <2>3 DEF WriteResponse, Good, Kept, OwnVars, serverVars, answerVars
<1>7. 502 \in Nat
  OBVIOUS
<1> QED
  BY <1>1, <1>5, <1>6, <1>7 DEF WriteResponse

LEMMA EmitAccessLogGood ==
  ASSUME PipelineInv, NEW r \in Requests, EmitAccessLog(r)
  PROVE  Good(r)
<1>1. TypeOK /\ Stage(r) /\ pc[r] = "log"
  BY DEF EmitAccessLog, PipelineInv
<1>2. pc' \in [Requests -> Stages] /\ pc'[r] = "done" /\ \A q \in Requests \ {r} : pc'[q] = pc[q]
  BY <1>1, GoMoves DEF EmitAccessLog, Stages
<1>3. lines' \in Seq(Line) /\ logErr' \in BOOLEAN
  <2>1. lines \in Seq(Line) /\ logErr \in BOOLEAN /\ WriteLine(r)
    BY <1>1 DEF EmitAccessLog, TypeOK
  <2>2. [of |-> r, whole |-> TRUE] \in Line /\ [of |-> r, whole |-> FALSE] \in Line
    BY DEF Line
  <2>3. logErr' \in BOOLEAN
    <3>1. CASE logErr' = logErr
      BY <2>1, <3>1
    <3>2. CASE logErr' = TRUE
      BY <3>2
    <3> QED
      BY <2>1, <3>1, <3>2, Zenon DEF WriteLine
  <2>4. UNCHANGED lines \/ \E l \in Line : lines' = Append(lines, l)
    BY <2>1, <2>2, Zenon DEF WriteLine
  <2>5. lines \in Seq(Line)
    BY <2>1
  <2>6. lines' \in Seq(Line)
    BY <2>4, <2>5
  <2> QED
    BY <2>3, <2>6, Zenon
<1>4. TypeOK'
  BY <1>1, <1>2, <1>3 DEF EmitAccessLog, TypeOK, serverVars, answerVars
<1>5. Stage(r)'
  BY <1>1, <1>2 DEF EmitAccessLog, Stage, Over, ClosedBut, answerVars
<1> QED
  BY <1>2, <1>4, <1>5 DEF EmitAccessLog, Good, Kept, OwnVars, serverVars, answerVars

LEMMA NextInv == PipelineInv /\ [Next]_vars => PipelineInv'
<1> SUFFICES ASSUME PipelineInv, [Next]_vars PROVE PipelineInv'
  OBVIOUS
<1>1. ASSUME NEW r \in Requests, Handle(r) PROVE PipelineInv'
  <2>1. Good(r)
    BY <1>1, RouteGood, VerifyGood, RunViewerRequestGood, FetchGood, ApplyErrorResponseGood,
       RunViewerResponseGood, WriteResponseGood, EmitAccessLogGood DEF Handle
  <2>2. ASSUME NEW q \in Requests \ {r} PROVE Stage(q)'
    <3>1. Stage(q) /\ OwnVars(q)' = OwnVars(q)
      BY <2>1, <2>2 DEF PipelineInv, Good, Kept
    <3> QED
      BY <3>1 DEF OwnVars, Stage, Over, Untouched, Holding, ClosedBut
  <2>3. TypeOK' /\ Stage(r)' /\ UNCHANGED <<config, compiled>>
    BY <2>1 DEF Good
  <2> QED
    BY <2>2, <2>3 DEF PipelineInv
<1>2. CASE Swap
  <2>1. TypeOK'
    BY <1>2, BoundAssumption DEF PipelineInv, TypeOK, Swap, Gens, answerVars, logVars
  <2>2. ASSUME NEW q \in Requests PROVE Stage(q)'
    BY <1>2 DEF PipelineInv, Swap, Stage, Over, Untouched, Holding, ClosedBut, answerVars
  <2> QED
    BY <1>2, <2>1, <2>2 DEF PipelineInv, Swap
<1>3. CASE UNCHANGED vars
  <2>1. TypeOK'
    BY <1>3 DEF PipelineInv, TypeOK, vars, serverVars, answerVars, logVars
  <2>2. ASSUME NEW q \in Requests PROVE Stage(q)'
    BY <1>3 DEF PipelineInv, vars, serverVars, answerVars, Stage, Over, Untouched, Holding, ClosedBut
  <2> QED
    BY <1>3, <2>1, <2>2 DEF PipelineInv, vars, serverVars
<1> QED
  BY <1>1, <1>2, <1>3 DEF Next

THEOREM InvariantHolds == Spec => []PipelineInv
BY InitInv, NextInv, PTL DEF Spec

(***************************************************************************)
(* The types hold in every reachable state.                                *)
(***************************************************************************)
THEOREM TypeCorrect == Spec => []TypeOK
BY InvariantHolds, PTL DEF PipelineInv

(***************************************************************************)
(* Every stream an origin opened for a request is closed exactly once when *)
(* its handler is over, whatever path serve took (pipeline.go:41-108).     *)
(***************************************************************************)
THEOREM StreamsClosedOnce == Spec => []StreamsAreClosed
<1>1. PipelineInv => StreamsAreClosed
  BY DEF PipelineInv, Stage, StreamsAreClosed, ClosedBut
<1> QED
  BY <1>1, InvariantHolds, PTL

(***************************************************************************)
(* A handler that finishes has answered, and answered once.                *)
(***************************************************************************)
THEOREM AnsweredOnce == Spec => []OneAnswer
<1>1. PipelineInv => OneAnswer
  BY DEF PipelineInv, Stage, OneAnswer
<1> QED
  BY <1>1, InvariantHolds, PTL

(***************************************************************************)
(* Whatever is swapped in meanwhile, a request finds the functions of the  *)
(* snapshot it started with.                                               *)
(***************************************************************************)
THEOREM SnapshotHasFunctions == Spec => []FunctionsAreThere
<1>1. PipelineInv => FunctionsAreThere
  BY DEF PipelineInv, Stage, FunctionsAreThere
<1> QED
  BY <1>1, InvariantHolds, PTL

-----------------------------------------------------------------------------
(* The access log.                                                         *)

LogInv == LogLinesAreWhole /\ \A i \in DOMAIN lines : pc[lines[i].of] = "done"

(* Before its access-log line a handler neither is done nor logs.          *)
LEMMA OnlyEmitLogs ==
  ASSUME TypeOK, NEW r \in Requests, Handle(r), ~EmitAccessLog(r)
  PROVE  UNCHANGED <<lines, logErr>> /\ \A q \in Requests : pc'[q] = "done" <=> pc[q] = "done"
<1> DEFINE Moves == pc[r] # "done" /\ UNCHANGED <<lines, logErr>>
                    /\ \E stage \in Stages \ {"done"} : pc' = [pc EXCEPT ![r] = stage]
<1> USE DEF Go, Stages, logVars
<1>1. Route(r) => Moves
  BY DEF Route, WriteCFError
<1>2. Verify(r) => Moves
  BY DEF Verify, WriteCFError
<1>3. RunViewerRequest(r) => Moves
  BY DEF RunViewerRequest, WriteCFError
<1>4. Fetch(r) => Moves
  BY DEF Fetch, WriteCFError
<1>5. ApplyErrorResponse(r) => Moves
  BY DEF ApplyErrorResponse
<1>6. RunViewerResponse(r) => Moves
  BY DEF RunViewerResponse, WriteCFError
<1>7. WriteResponse(r) => Moves
  BY DEF WriteResponse
<1>8. Moves
  BY <1>1, <1>2, <1>3, <1>4, <1>5, <1>6, <1>7 DEF Handle
<1>9. pc \in [Requests -> Stages]
  BY DEF TypeOK
<1> QED
  BY <1>8, <1>9

LEMMA LinesAreOfRequests ==
  ASSUME lines \in Seq(Line)
  PROVE  DOMAIN lines = 1 .. Len(lines) /\ \A i \in DOMAIN lines : lines[i].of \in Requests
<1>1. DOMAIN lines = 1 .. Len(lines) /\ \A i \in DOMAIN lines : lines[i] \in Line
  OBVIOUS
<1>2. \A l \in Line : l.of \in Requests
  BY DEF Line
<1> QED
  BY <1>1, <1>2

LEMMA LogStep == PipelineInv /\ LogInv /\ [Next]_vars => LogInv'
<1> SUFFICES ASSUME PipelineInv, LogInv, [Next]_vars PROVE LogInv'
  OBVIOUS
<1>1. lines \in Seq(Line) /\ pc \in [Requests -> Stages]
  BY DEF PipelineInv, TypeOK
<1>2. CASE UNCHANGED <<lines, logErr>> /\ \A q \in Requests : pc'[q] = "done" <=> pc[q] = "done"
  <2>1. \A i \in DOMAIN lines : lines[i].of \in Requests
    BY <1>1, LinesAreOfRequests
  <2>2. {q \in Requests : pc'[q] = "done"} = {q \in Requests : pc[q] = "done"}
    BY <1>2
  <2>3. lines' = lines /\ logErr' = logErr
    BY <1>2
  <2>4. \A i \in DOMAIN lines' : pc'[lines'[i].of] = "done"
    BY <1>2, <2>1, <2>3 DEF LogInv
  <2>5. \A i \in DOMAIN lines' : lines'[i].whole \/ (i = Len(lines') /\ logErr')
    BY <2>3, Zenon DEF LogInv, LogLinesAreWhole
  <2>6. \A i, j \in DOMAIN lines' : lines'[i].of = lines'[j].of => i = j
    BY <2>3, Zenon DEF LogInv, LogLinesAreWhole
  <2>7. ~logErr' => {q \in Requests : pc'[q] = "done"} = {lines'[i].of : i \in DOMAIN lines'}
    <3>1. ~logErr => {q \in Requests : pc[q] = "done"} = {lines[i].of : i \in DOMAIN lines}
      BY DEF LogInv, LogLinesAreWhole
    <3> QED
      BY <2>2, <2>3, <3>1
  <2> QED
    BY <2>4, <2>5, <2>6, <2>7, Zenon DEF LogInv, LogLinesAreWhole
<1>3. ASSUME NEW r \in Requests, EmitAccessLog(r) PROVE LogInv'
  <2>1. /\ pc[r] = "log" /\ pc'[r] = "done" /\ \A q \in Requests \ {r} : pc'[q] = pc[q]
        /\ WriteLine(r)
    BY <1>1, <1>3 DEF EmitAccessLog, Go
  <2>2. \A i \in DOMAIN lines : lines[i].of \in Requests /\ lines[i].of # r
    BY <1>1, <2>1, LinesAreOfRequests DEF LogInv
  <2>3. CASE UNCHANGED lines /\ logErr'
    <3>1. \A i \in DOMAIN lines' : pc'[lines'[i].of] = "done"
      BY <2>1, <2>2, <2>3 DEF LogInv
    <3>2. \A i \in DOMAIN lines' : lines'[i].whole \/ (i = Len(lines') /\ logErr')
      BY <2>3, Zenon DEF LogInv, LogLinesAreWhole
    <3>3. \A i, j \in DOMAIN lines' : lines'[i].of = lines'[j].of => i = j
      BY <2>3, Zenon DEF LogInv, LogLinesAreWhole
    <3> QED
      BY <2>3, <3>1, <3>2, <3>3, Zenon DEF LogInv, LogLinesAreWhole
  <2>4. ASSUME ~logErr, NEW l \in Line, l.of = r, lines' = Append(lines, l), l.whole \/ logErr', l.whole => ~logErr'
        PROVE  LogInv'
    <3>1. /\ DOMAIN lines = 1 .. Len(lines) /\ DOMAIN lines' = 1 .. Len(lines) + 1
          /\ lines'[Len(lines) + 1] = l /\ \A i \in 1 .. Len(lines) : lines'[i] = lines[i]
          /\ Len(lines') = Len(lines) + 1 /\ Len(lines) \in Nat
      BY <1>1, <2>4
    <3>2. \A i \in DOMAIN lines' : lines'[i].whole \/ (i = Len(lines') /\ logErr')
      BY <2>4, <3>1 DEF LogInv, LogLinesAreWhole
    <3>3. \A i, j \in DOMAIN lines' : lines'[i].of = lines'[j].of => i = j
      BY <2>2, <2>4, <3>1 DEF LogInv, LogLinesAreWhole
    <3>4. \A i \in DOMAIN lines' : pc'[lines'[i].of] = "done"
      BY <2>1, <2>2, <2>4, <3>1 DEF LogInv
    <3>5. {q \in Requests : pc'[q] = "done"} = {lines'[i].of : i \in DOMAIN lines'}
      BY <2>1, <2>2, <2>4, <3>1 DEF LogInv, LogLinesAreWhole
    <3> QED
      BY <3>2, <3>3, <3>4, <3>5 DEF LogInv, LogLinesAreWhole
  <2>5. [of |-> r, whole |-> TRUE] \in Line /\ [of |-> r, whole |-> FALSE] \in Line
    BY DEF Line
  <2> QED
    BY <2>1, <2>3, <2>4, <2>5 DEF WriteLine
<1>4. CASE Swap
  BY <1>2, <1>4 DEF Swap, logVars
<1>5. CASE UNCHANGED vars
  BY <1>2, <1>5 DEF vars, logVars
<1> QED
  BY <1>2, <1>3, <1>4, <1>5, OnlyEmitLogs DEF Next, PipelineInv

(***************************************************************************)
(* However many handlers write through the writer, a line is cut short     *)
(* only by the failing write that is the last one.                         *)
(***************************************************************************)
THEOREM LogStaysWhole == Spec => []LogLinesAreWhole
<1>1. Init => LogInv
  BY DEF Init, LogInv, LogLinesAreWhole
<1>2. LogInv => LogLinesAreWhole
  BY DEF LogInv
<1> QED
  BY <1>1, <1>2, LogStep, InvariantHolds, PTL DEF Spec

-----------------------------------------------------------------------------
(* What the log says of the answer.                                        *)

LogEntry == [status : Nat, type : {"FunctionGeneratedResponse", "Error", "Miss"}]

(* X-Cache follows the status given to WriteHeader, unless the body was    *)
(* torn; an entry says what the recorder observed of a finished request.   *)
Truth(r) ==
  /\ pc[r] \in {"log", "done"} /\ ~torn[r] => xCache[r] = CacheStatus(headers[r][1])
  /\ logged[r] # None =>
       pc[r] = "done" /\ logged[r] = [status |-> ObservedStatus(r), type |-> ResultType(r)]

AnswerInv ==
  /\ logged \in [Requests -> LogEntry \cup {None}]
  /\ \A r \in Requests : Truth(r)

(* A handler's step before the log entry leaves the answer alone or writes *)
(* its header.                                                             *)
Answers(r) ==
  /\ ~Over(r) /\ UNCHANGED logged
  /\ UNCHANGED fromFn \/ fromFn' = [fromFn EXCEPT ![r] = TRUE]
  /\ UNCHANGED torn \/ torn' = [torn EXCEPT ![r] = TRUE]
  /\ \/ UNCHANGED answerVars /\ \E stage \in Stages \ {"log", "done"} : Go(r, stage)
     \/ \E s \in Nat, cache \in {"Miss", "Error"} :
          /\ WriteHeader(r, s, cache) /\ Go(r, "log")
          /\ torn'[r] \/ cache = CacheStatus(s)

LEMMA OwnError ==
  ASSUME NEW r \in Requests, NEW s \in {403, 502, 503}, WriteCFError(r, s)
  PROVE  \E t \in Nat, cache \in {"Miss", "Error"} :
           /\ WriteHeader(r, t, cache) /\ Go(r, "log")
           /\ cache = CacheStatus(t)
<1>1. WriteHeader(r, s, "Error") /\ Go(r, "log")
  BY DEF WriteCFError
<1>2. s \in Nat /\ CacheStatus(s) = "Error"
  BY DEF CacheStatus
<1> QED
  BY <1>1, <1>2

LEMMA GoTo ==
  ASSUME TypeOK, NEW r \in Requests, NEW stage, Go(r, stage)
  PROVE  pc'[r] = stage
BY DEF TypeOK, Go

LEMMA HandlersAnswer ==
  ASSUME PipelineInv, NEW r \in Requests, Handle(r), ~EmitAccessLog(r)
  PROVE  Answers(r)
<1> USE DEF logVars, Over
<1>1. TypeOK /\ (pc[r] \in {"errorResponse", "viewerResponse", "write"} => resp[r] \in Response)
  BY DEF PipelineInv, Stage, Holding
(* An error of the server's own. *)
<1>2. ASSUME NEW s \in {403, 502, 503}, WriteCFError(r, s),
             ~Over(r), UNCHANGED <<logged, fromFn, torn>>
      PROVE  Answers(r)
  BY <1>2, OwnError DEF Answers
(* On to another stage. *)
<1>3. ASSUME NEW stage \in Stages \ {"log", "done"}, Go(r, stage), UNCHANGED <<answerVars, logged, torn>>,
             UNCHANGED fromFn \/ fromFn' = [fromFn EXCEPT ![r] = TRUE],
             ~Over(r)
      PROVE  Answers(r)
  BY <1>3 DEF Answers
<1>4. 403 \in {403, 502, 503} /\ 502 \in {403, 502, 503} /\ 503 \in {403, 502, 503}
  OBVIOUS
<1>5. \A stage \in {"verify", "viewerRequest", "fetch", "errorResponse", "viewerResponse", "write", "panicked"} :
        stage \in Stages \ {"log", "done"}
  BY DEF Stages
<1>7. CASE Route(r)
  <2>1. /\ pc[r] = "new" /\ UNCHANGED <<logged, fromFn, torn>>
        /\ WriteCFError(r, 403) \/ (Go(r, "verify") /\ UNCHANGED answerVars)
    BY <1>7 DEF Route
  <2> QED
    BY <2>1, <1>2, <1>3, <1>4, <1>5
<1>8. CASE Verify(r)
  <2>1. /\ pc[r] = "verify" /\ UNCHANGED <<logged, fromFn, torn>>
        /\ WriteCFError(r, 403) \/ (Go(r, "viewerRequest") /\ UNCHANGED answerVars)
    BY <1>8 DEF Verify
  <2> QED
    BY <2>1, <1>2, <1>3, <1>4, <1>5
<1>9. CASE RunViewerRequest(r)
  <2>1. pc[r] = "viewerRequest" /\ UNCHANGED <<logged, torn>>
    BY <1>9 DEF RunViewerRequest
  <2>2. \/ UNCHANGED fromFn /\ WriteCFError(r, 503)
        \/ UNCHANGED fromFn /\ Go(r, "fetch") /\ UNCHANGED answerVars
        \/ fromFn' = [fromFn EXCEPT ![r] = TRUE] /\ Go(r, "write") /\ UNCHANGED answerVars
    BY <1>9 DEF RunViewerRequest
  <2> QED
    BY <2>1, <2>2, <1>2, <1>3, <1>4, <1>5
<1>10. CASE Fetch(r)
  <2>1. /\ pc[r] = "fetch" /\ UNCHANGED <<logged, fromFn, torn>>
        /\ WriteCFError(r, 502) \/ (Go(r, "errorResponse") /\ UNCHANGED answerVars)
    BY <1>10 DEF Fetch
  <2> QED
    BY <2>1, <1>2, <1>3, <1>4, <1>5
<1>11. CASE ApplyErrorResponse(r)
  <2>1. pc[r] = "errorResponse" /\ Go(r, "viewerResponse") /\ UNCHANGED <<logged, fromFn, torn, answerVars>>
    BY <1>11 DEF ApplyErrorResponse
  <2> QED
    BY <2>1, <1>3, <1>5
<1>12. CASE RunViewerResponse(r)
  <2>1. /\ pc[r] = "viewerResponse" /\ UNCHANGED <<logged, fromFn, torn>>
        /\ WriteCFError(r, 503) \/ (Go(r, "write") /\ UNCHANGED answerVars)
    BY <1>12 DEF RunViewerResponse
  <2> QED
    BY <2>1, <1>2, <1>3, <1>4, <1>5
<1>13. CASE WriteResponse(r)
  <2>1. pc[r] = "write" /\ UNCHANGED <<logged, fromFn>> /\ resp[r].status \in Nat
    BY <1>1, <1>13 DEF WriteResponse, Response
  <2>2. CacheStatus(resp[r].status) \in {"Miss", "Error"}
    BY DEF CacheStatus
  <2>3. CASE Go(r, "panicked") /\ UNCHANGED <<answerVars, torn>>
    BY <2>1, <2>3, <1>3, <1>5
  <2>4. CASE WriteHeader(r, resp[r].status, CacheStatus(resp[r].status)) /\ Go(r, "log") /\ UNCHANGED torn
    BY <2>1, <2>2, <2>4 DEF Answers
  <2>5. CASE WriteHeader(r, 502, CacheStatus(resp[r].status)) /\ torn' = [torn EXCEPT ![r] = TRUE] /\ Go(r, "log")
    <3>1. torn'[r] /\ 502 \in Nat
      BY <1>1, <2>5 DEF TypeOK
    <3> QED
      BY <2>1, <2>2, <2>5, <3>1 DEF Answers
  <2> QED
    BY <1>13, <2>3, <2>4, <2>5, Zenon DEF WriteResponse
<1> QED
  BY <1>7, <1>8, <1>9, <1>10, <1>11, <1>12, <1>13 DEF Handle

LEMMA AnswerStepKeeps ==
  ASSUME PipelineInv, AnswerInv, NEW r \in Requests, Handle(r), ~EmitAccessLog(r)
  PROVE  AnswerInv'
<1>1. Answers(r) /\ TypeOK /\ TypeOK' /\ Stage(r)
  BY HandlersAnswer, NextInv DEF PipelineInv, Next
<1>2. /\ logged' = logged /\ logged[r] = None /\ headers[r] = <<>>
  BY <1>1 DEF Answers, AnswerInv, Truth, Over, Stage
<1>3. ASSUME NEW q \in Requests \ {r}
      PROVE  /\ pc'[q] = pc[q] /\ headers'[q] = headers[q] /\ xCache'[q] = xCache[q]
             /\ torn'[q] = torn[q] /\ fromFn'[q] = fromFn[q] /\ resp'[q] = resp[q]
  <2>1. torn'[q] = torn[q] /\ fromFn'[q] = fromFn[q]
    BY <1>1, <1>3 DEF Answers, TypeOK
  <2>2. xCache'[q] = xCache[q]
    BY <1>1, <1>3 DEF Answers, TypeOK, WriteHeader, answerVars
  <2>3. Good(r)
    BY RouteGood, VerifyGood, RunViewerRequestGood, FetchGood, ApplyErrorResponseGood,
       RunViewerResponseGood, WriteResponseGood, EmitAccessLogGood DEF Handle
  <2> QED
    BY <2>1, <2>2, <2>3, <1>3 DEF Good, Kept, OwnVars
<1>4. ASSUME NEW q \in Requests \ {r}
      PROVE  Truth(q)'
  BY <1>2, <1>3 DEF AnswerInv, Truth, ObservedStatus, ResultType
<1>5. CASE UNCHANGED answerVars /\ \E stage \in Stages \ {"log", "done"} : Go(r, stage)
  <2>1. pc'[r] \notin {"log", "done"}
    BY <1>1, <1>5, GoTo
  <2>2. Truth(r)'
    BY <2>1, <1>2 DEF Truth
  <2> QED
    BY <2>2, <1>2, <1>4 DEF AnswerInv
<1>6. ASSUME NEW s \in Nat, NEW cache \in {"Miss", "Error"}, WriteHeader(r, s, cache), Go(r, "log"),
             torn'[r] \/ cache = CacheStatus(s)
      PROVE  AnswerInv'
  <2>1. pc'[r] = "log"
    BY <1>1, <1>6, GoTo
  <2>2. headers'[r][1] = s /\ xCache'[r] = cache
    BY <1>1, <1>2, <1>6 DEF WriteHeader, TypeOK
  <2>3. Truth(r)'
    BY <2>1, <2>2, <1>2, <1>6 DEF Truth
  <2> QED
    BY <2>3, <1>2, <1>4 DEF AnswerInv
<1> QED
  BY <1>1, <1>5, <1>6 DEF Answers

LEMMA LogEntryKeeps ==
  ASSUME PipelineInv, AnswerInv, NEW r \in Requests, EmitAccessLog(r)
  PROVE  AnswerInv'
<1>1. TypeOK /\ logged \in [Requests -> LogEntry \cup {None}] /\ Len(headers[r]) = 1 /\ pc[r] = "log"
  BY DEF PipelineInv, AnswerInv, EmitAccessLog, Stage
<1>2. [status |-> ObservedStatus(r), type |-> ResultType(r)] \in LogEntry
  <2>1. headers[r] \in Seq(Nat)
    BY <1>1 DEF TypeOK
  <2>2. ObservedStatus(r) \in Nat
    BY <2>1, <1>1 DEF ObservedStatus
  <2>3. ResultType(r) \in {"FunctionGeneratedResponse", "Error", "Miss"}
    BY DEF ResultType
  <2> QED
    BY <2>2, <2>3 DEF LogEntry
<1>3. /\ logged' \in [Requests -> LogEntry \cup {None}]
      /\ logged'[r] = [status |-> ObservedStatus(r), type |-> ResultType(r)]
      /\ \A q \in Requests \ {r} : logged'[q] = logged[q]
  BY <1>1, <1>2 DEF EmitAccessLog
<1>4. pc'[r] = "done" /\ \A q \in Requests \ {r} : pc'[q] = pc[q]
  BY <1>1, GoMoves DEF EmitAccessLog, Stages
<1>5. UNCHANGED <<headers, xCache, torn, fromFn, resp>>
  BY DEF EmitAccessLog, answerVars
<1>6. \A q \in Requests : Truth(q)'
  BY <1>1, <1>3, <1>4, <1>5 DEF AnswerInv, Truth, ObservedStatus, ResultType
<1> QED
  BY <1>3, <1>6 DEF AnswerInv

LEMMA AnswerStep == PipelineInv /\ AnswerInv /\ [Next]_vars => AnswerInv'
<1> SUFFICES ASSUME PipelineInv, AnswerInv, [Next]_vars PROVE AnswerInv'
  OBVIOUS
<1>1. CASE UNCHANGED <<pc, headers, xCache, torn, fromFn, resp, logged>>
  BY <1>1 DEF AnswerInv, Truth, ObservedStatus, ResultType
<1>2. CASE Swap \/ UNCHANGED vars
  BY <1>1, <1>2 DEF Swap, vars, answerVars, logVars
<1> QED
  BY <1>2, AnswerStepKeeps, LogEntryKeeps DEF Next

LEMMA AnswerInvariant == Spec => []AnswerInv
<1>1. Init => AnswerInv
  BY DEF Init, AnswerInv, Truth
<1> QED
  BY <1>1, AnswerStep, InvariantHolds, PTL DEF Spec

(***************************************************************************)
(* The access log and X-Cache call errors what the viewer gets as one,     *)
(* whatever statuses functions and error responses give, interim ones      *)
(* included: what is logged is the first status written, and neither an    *)
(* interim response nor the 200 that follows it is an error.               *)
(***************************************************************************)
THEOREM LabelsHold == Spec => []ErrorsAreLabelled
<1>1. PipelineInv /\ AnswerInv => ErrorsAreLabelled
  <2> SUFFICES ASSUME PipelineInv, AnswerInv, NEW r \in Requests, logged[r] # None
               PROVE  /\ (logged[r].type = "Error") = (Sent(r) >= 400 /\ ~fromFn[r])
                      /\ ~torn[r] => (xCache[r] = "Error") = (Sent(r) >= 400)
    BY DEF ErrorsAreLabelled
  <2>1. pc[r] = "done" /\ logged[r] = [status |-> ObservedStatus(r), type |-> ResultType(r)]
    BY DEF AnswerInv, Truth
  <2>2. ObservedStatus(r) \in Nat
    <3>1. headers[r] \in Seq(Nat) /\ Len(headers[r]) = 1
      BY <2>1 DEF PipelineInv, TypeOK, Stage
    <3> QED
      BY <3>1 DEF ObservedStatus
  <2>3. (Sent(r) >= 400) = (ObservedStatus(r) >= 400)
    BY <2>2 DEF Sent, ObservedStatus, Interim
  <2>4. ~torn[r] => xCache[r] = CacheStatus(ObservedStatus(r))
    BY <2>1 DEF AnswerInv, Truth, ObservedStatus
  <2>5. (ResultType(r) = "Error") = (ObservedStatus(r) >= 400 /\ ~fromFn[r])
    BY DEF ResultType
  <2>6. (CacheStatus(ObservedStatus(r)) = "Error") = (ObservedStatus(r) >= 400)
    BY DEF CacheStatus
  <2> QED
    BY <2>1, <2>3, <2>4, <2>5, <2>6
<1> QED
  BY <1>1, AnswerInvariant, InvariantHolds, PTL
=============================================================================
