------------------------------- MODULE Exchange ------------------------------
(***************************************************************************)
(* The data that flows through one request, once it is admitted: what its  *)
(* functions see and change, what each origin gets, and what the viewer    *)
(* gets (internal/dataplane: serve and the stages it calls).  Module       *)
(* Pipeline has the same stages for concurrent requests without data.      *)
(*                                                                         *)
(* A distribution is [behaviors, rootObject, domain, errorResponses];      *)
(* behaviors maps a path to the behavior that serves it (Routing has       *)
(* Select).  A behavior is [cache, orp, responseHeaders, compress, origin, *)
(* viewerRequest, viewerResponse].  Origin paths are left out: an origin   *)
(* is asked for paths below its own.                                       *)
(***************************************************************************)
EXTENDS Forward, Events, Finish

CONSTANTS
  Distributions,  \* distributions requests are made to
  Requests,       \* requests that are admitted
  Objects         \* [size, headers]: what an origin may have at a path

(* What an origin has; a line of Set-Cookie is one cookie.                 *)
ASSUME ObjectsAssumption ==
  \A x \in Objects :
    /\ IsHeaders(x.headers)
    /\ \A line \in ToSet(Lines(x.headers, "Set-Cookie")) : line = <<line[1]>> /\ IsPair(line[1])

(* Requests are records; Origin is no list but a single element.           *)
ASSUME RequestsAssumption ==
  \A r \in Requests :
    /\ DOMAIN r = {"method", "path", "raw", "query", "headers", "host", "ip", "id"}
    /\ IsHeaders(r.headers) /\ IsSeq(r.query)
    /\ \A p \in ToSet(r.query) \cup ToSet(Get(r.headers, "Cookie")) : IsPair(p)
    /\ "Origin" \in DOMAIN r.headers => Get(r.headers, "Origin") = <<Get(r.headers, "Origin")[1]>>

(* Every path is served by a behavior, an error page's too, and is not the *)
(* content of NoBody; what a CORS policy sets are Access-Control- headers. *)
ASSUME DistributionsAssumption ==
  \A d \in Distributions :
    /\ NoBody.content \notin DOMAIN d.behaviors \cup {d.rootObject}
    /\ \A i \in DOMAIN d.errorResponses : d.errorResponses[i].page \in DOMAIN d.behaviors \cup {""}
    /\ \A path \in DOMAIN d.behaviors :
         LET policy == d.behaviors[path].responseHeaders
             function == d.behaviors[path].viewerRequest
         IN  /\ function.kind = "edit" => IsHeaders(function.set)
             /\ IsSeq(policy.customHeaders)
             /\ DOMAIN policy.cors.fields
                  \cap {"Vary", "Connection", "Content-Length", "Content-Encoding", "Cookie", "Set-Cookie"} = {}

VARIABLES
  dist,           \* the distribution
  hasStore,       \* was localfront started with an object store?
  viewer,         \* the request as it arrived
  req,            \* the handler's request, which functions rewrite
  viewerHeaders,  \* the CloudFront headers synthesized for it
  pc,             \* the next stage
  sent,           \* the requests made to origins: [path, from, request]
  resp,           \* the response held: [status, headers, body, source]
  answer          \* what was written to the viewer

vars == <<dist, hasStore, viewer, req, viewerHeaders, pc, sent, resp, answer>>
constant == <<dist, hasStore, viewer>>

Message == [status |-> 0, headers |-> <<>>, body |-> NoBody]
Held(m, source) == [status |-> m.status, headers |-> m.headers, body |-> m.body, source |-> source]
NoResponse == Held(Message, "none")
Behavior == dist.behaviors[viewer.path]

Init ==
  /\ dist \in Distributions
  /\ hasStore \in BOOLEAN
  /\ viewer \in {r \in Requests : r.path \in DOMAIN dist.behaviors}
  /\ req = viewer
  /\ viewerHeaders = SynthesizeViewerHeaders(viewer.headers)
  /\ pc = "viewerRequest"
  /\ sent = <<>>
  /\ resp = NoResponse
  /\ answer = Message

-----------------------------------------------------------------------------
(* Functions.  A program stands for what the user's code does to an event: *)
(* it fails, responds, or returns the event with another URI or status and *)
(* with some headers and cookies dropped or set.                           *)
NoFunction == [kind |-> "none"]
PassThrough == [kind |-> "edit", uri |-> "", status |-> 0, drop |-> {}, set |-> <<>>]

Edited(p, e) ==
  [e EXCEPT !.headers = Overlay(p.set, DelHeaders(@, p.drop)), !.cookies = Restrict(@, DOMAIN @ \ p.drop)]

(* functionResponse.                                                       *)
FunctionResponse(p) ==
  LET headers == HTTPHeaders([headers |-> p.headers, cookies |-> p.cookies])
  IN  [status |-> IF p.status = 0 THEN 200 ELSE p.status,
       headers |-> IF p.size > 0 /\ Get(headers, "Content-Length") = <<>>
                   THEN SetHeader(headers, "Content-Length", <<p.size>>) ELSE headers,
       body |-> [content |-> "function", size |-> p.size, codings |-> <<>>, part |-> FALSE],
       source |-> "function"]

(* cfErrorPage, written or held as the response.                           *)
CFErrorPage(status) ==
  [status |-> status,
   headers |-> SetHeader(SetHeader(<<>>, "Content-Type", <<"text/html">>), "Server", <<"CloudFront">>),
   body |-> [content |-> "cfError", size |-> 700, codings |-> <<>>, part |-> FALSE]]

WriteCFError(status) == answer' = CFErrorPage(status) /\ pc' = "done"

RunViewerRequest ==
  LET p == Behavior.viewerRequest
      event == NewRequestEvent(req, viewerHeaders)
  IN  /\ pc = "viewerRequest"
      /\ \/ p.kind = "none" /\ pc' = "fetch" /\ UNCHANGED <<req, resp, answer>>
         \/ p.kind = "fail" /\ WriteCFError(503) /\ UNCHANGED <<req, resp>>
         \/ p.kind = "respond" /\ resp' = FunctionResponse(p) /\ pc' = "headers" /\ UNCHANGED <<req, answer>>
         \/ /\ p.kind = "edit"
            /\ req' = ApplyToRequest([Edited(p, event) EXCEPT !.uri = IF p.uri = "" THEN @ ELSE p.uri], req)
            /\ pc' = "fetch"
            /\ UNCHANGED <<resp, answer>>
      /\ UNCHANGED <<constant, viewerHeaders, sent>>

-----------------------------------------------------------------------------
(* Origins.  An origin honours, or may ignore, the headers that make an    *)
(* answer partial, empty or encoded.                                       *)
Whole(o, x, codings) ==
  LET size == IF codings = <<>> THEN x.size ELSE x.size \div 10
      entity == SetHeader(x.headers, "Content-Length", <<size>>)
  IN  [status |-> 200,
       headers |-> IF codings = <<>> THEN entity ELSE SetHeader(entity, "Content-Encoding", codings),
       body |-> IF o.method = "HEAD" THEN NoBody
                ELSE [content |-> o.path, size |-> size, codings |-> codings, part |-> FALSE]]

Partial(o, x) ==
  [status |-> 206, headers |-> SetHeader(x.headers, "Content-Length", <<10>>),
   body |-> [content |-> o.path, size |-> 10, codings |-> <<>>, part |-> TRUE]]

NotModified == [status |-> 304, headers |-> <<>>, body |-> NoBody]
NotFound(o) == [Whole([o EXCEPT !.path = "missing"], [size |-> 2000, headers |-> <<>>], <<>>) EXCEPT !.status = 404]

OriginAnswers(o) ==
  LET codings == {<<>>} \cup {<<e>> : e \in ToSet(Get(o.headers, "Accept-Encoding"))}
  IN  {Whole(o, x, c) : x \in Objects, c \in codings} \cup {NotFound(o)}
      \cup (IF "Range" \in DOMAIN o.headers THEN {Partial(o, x) : x \in Objects} ELSE {})
      \cup (IF "If-None-Match" \in DOMAIN o.headers THEN {NotModified} ELSE {})

Reachable(b) == b.origin.custom \/ hasStore

(* fetchOrigin of the behavior that serves path, for the request r.        *)
Asking(path, r) ==
  [path |-> path, from |-> r, request |-> OriginRequest(dist, dist.behaviors[path], r, viewerHeaders)]

FetchOrigin ==
  LET ask == Asking(viewer.path, req)
  IN  /\ pc = "fetch"
      /\ \/ /\ Reachable(Behavior)
            /\ sent' = <<ask>>
            /\ \/ \E a \in OriginAnswers(ask.request) :
                    resp' = Held(a, "origin") /\ pc' = "errorResponse" /\ UNCHANGED answer
               \/ WriteCFError(502) /\ UNCHANGED resp
         \/ /\ ~Reachable(Behavior)
            /\ resp' = Held(CFErrorPage(502), "origin")
            /\ pc' = "errorResponse"
            /\ UNCHANGED <<sent, answer>>
      /\ UNCHANGED <<constant, req, viewerHeaders>>

(* matchErrorResponse: the first entry for the status.                     *)
Matching(status) ==
  LET entries == {i \in DOMAIN dist.errorResponses : dist.errorResponses[i].code = status}
  IN  {dist.errorResponses[i] : i \in {i \in entries : \A j \in entries : i <= j}}

(* Mutant: the page is asked for with the viewer's Range and conditions.   *)
PageRequest_Conditional(page) == [req EXCEPT !.method = "GET", !.path = page, !.raw = FALSE]

(* The request for an error page.                                          *)
PageRequest(page) ==
  [req EXCEPT !.method = "GET", !.path = page, !.raw = FALSE, !.headers = DelHeaders(@, AlwaysForwardedHeaders)]

(* Mutant: the page is asked for by the behavior that failed.              *)
PageAsking_SameBehavior(page) ==
  [path |-> page, from |-> PageRequest(page), request |-> OriginRequest(dist, Behavior, PageRequest(page), viewerHeaders)]

(* It is asked for by the behavior that serves it.                         *)
PageAsking(page) == Asking(page, PageRequest(page))

ApplyErrorResponse ==
  /\ pc = "errorResponse"
  /\ \/ Matching(resp.status) = {} /\ UNCHANGED <<resp, sent>>
     \/ \E e \in Matching(resp.status) :
          IF e.page = "" THEN resp' = [resp EXCEPT !.status = e.response] /\ UNCHANGED sent
          ELSE LET ask == PageAsking(e.page)
               IN  IF Reachable(dist.behaviors[e.page])
                   THEN /\ sent' = Append(sent, ask)
                        /\ \/ UNCHANGED resp
                           \/ \E a \in OriginAnswers(ask.request) :
                                resp' = Held([a EXCEPT !.status = e.response], "page")
                   ELSE /\ resp' = Held(CFErrorPage(e.response), "page")
                        /\ UNCHANGED sent
  /\ pc' = "headers"
  /\ UNCHANGED <<constant, req, viewerHeaders, answer>>

SetResponseHeaders ==
  /\ pc = "headers"
  /\ resp' = [resp EXCEPT !.headers = ApplyResponseHeaders(Behavior, @, Get(req.headers, "Origin"))]
  /\ pc' = IF resp.source # "function" /\ Behavior.viewerResponse.kind # "none" /\ resp.status < 400
           THEN "viewerResponse" ELSE "write"
  /\ UNCHANGED <<constant, req, viewerHeaders, sent, answer>>

(* runViewerResponse: status and headers are the function's, the body is   *)
(* the origin's.                                                           *)
RunViewerResponse ==
  LET p == Behavior.viewerResponse
      event == Edited(p, ResponseEvent(resp.status, resp.headers))
  IN  /\ pc = "viewerResponse"
      /\ \/ p.kind = "fail" /\ WriteCFError(503) /\ UNCHANGED resp
         \/ /\ p.kind = "edit"
            /\ resp' = [resp EXCEPT !.status = IF p.status = 0 THEN @ ELSE p.status, !.headers = HTTPHeaders(event)]
            /\ pc' = "write"
            /\ UNCHANGED answer
      /\ UNCHANGED <<constant, req, viewerHeaders, sent>>

Write ==
  /\ pc = "write"
  /\ answer' = WriteResponse(dist, Behavior, req, resp)
  /\ pc' = "done"
  /\ UNCHANGED <<constant, req, viewerHeaders, sent, resp>>

Next ==
  \/ RunViewerRequest \/ FetchOrigin \/ ApplyErrorResponse
  \/ SetResponseHeaders \/ RunViewerResponse \/ Write

Spec == Init /\ [][Next]_vars

-----------------------------------------------------------------------------
(* What the origins get.                                                   *)

(* What a selection takes of a set of names, viewer headers among them.    *)
Taken(sel, names) ==
  CASE sel.behavior \in {"all", "allViewer", "allViewerAndWhitelistCloudFront"} -> names
    [] sel.behavior = "whitelist" -> names \cap sel.items
    [] sel.behavior = "allExcept" -> names \ sel.items
    [] OTHER -> {}

SetByLocalfront(b) == {"Via", "X-Forwarded-For", "X-Amz-Cf-Id"} \cup DOMAIN b.origin.customHeaders

(* The selections a policy may have (config/model.go), and no origin is    *)
(* configured with a Cookie header of its own.                             *)
DocumentedPolicies ==
  \A d \in Distributions : \A path \in DOMAIN d.behaviors :
    LET b == d.behaviors[path]
    IN  /\ b.cache.headers.behavior \in {"none", "whitelist", "all"}
        /\ {sel.behavior : sel \in {b.cache.cookies, b.orp.cookies, b.cache.queryStrings, b.orp.queryStrings}}
             \subseteq {"none", "whitelist", "all", "allExcept"}
        /\ "Cookie" \notin DOMAIN b.origin.customHeaders

(* An origin of the behavior b has of the request from what both policies  *)
(* of b select.                                                            *)
IsSelectedFrom(request, b, from) ==
  LET Selected(kind, names) == Taken(b.cache[kind], names) \cup Taken(b.orp[kind], names)
      listed == ConnectionListedHeaders(from.headers)
      plain == DOMAIN from.headers \ (Separate \cup CloudFrontHeaders \cup DOMAIN Overrides \cup HopByHopHeaders
                 \cup AlwaysForwardedHeaders \cup listed \cup SetByLocalfront(b))
      cookies == Get(request.headers, "Cookie")
  IN  /\ Named(request.query) = Selected("queryStrings", Named(from.query))
      /\ "Cookie" \notin listed => Named(cookies) = Selected("cookies", Named(Get(from.headers, "Cookie")))
      /\ ToSet(request.query) \subseteq ToSet(from.query)
      /\ ToSet(cookies) \subseteq ToSet(Get(from.headers, "Cookie"))
      /\ \A n \in plain :
           Lines(request.headers, n) = IF n \in Selected("headers", plain) THEN from.headers[n] ELSE <<>>

(* Every origin, the one an error page comes from included, gets exactly   *)
(* the headers, cookies and query parameters that the policies of the      *)
(* behavior that serves the path select together, with their values, but   *)
(* for what the Connection header lists.                                   *)
OriginGetsWhatIsSelected ==
  \A s \in ToSet(sent) : IsSelectedFrom(s.request, dist.behaviors[s.path], s.from)

(* A CloudFront header at an origin has the value that localfront made up  *)
(* for this viewer, whatever the viewer sent and its function did.         *)
CloudFrontHeadersAreOurs ==
  \A s \in ToSet(sent), n \in CloudFrontHeaders :
    n \in DOMAIN s.request.headers \ DOMAIN dist.behaviors[s.path].origin.customHeaders
      => s.request.headers[n] = SynthesizeViewerHeaders(viewer.headers)[n]

(* Nothing the viewer's Connection header lists reaches an origin          *)
(* (forward.go: such headers "must never reach the origin, even if a       *)
(* policy whitelists them").                                               *)
NoListedHeaderReachesOrigin ==
  \A s \in ToSet(sent) :
    ConnectionListedHeaders(s.from.headers) \cap DOMAIN s.request.headers
      \subseteq SetByLocalfront(dist.behaviors[s.path])

(* Two header sets that differ at most in the order of their cookies.      *)
SameElements(s, t) == Len(s) = Len(t) /\ ToSet(s) = ToSet(t)
SameHeaders(g, h) ==
  /\ DOMAIN g = DOMAIN h
  /\ \A n \in DOMAIN g :
       CASE n = "Cookie" -> SameElements(g[n][1], h[n][1])
         [] n = "Set-Cookie" -> SameElements(g[n], h[n])
         [] OTHER -> g[n] = h[n]

(* Only requests have a Cookie header and only responses a Set-Cookie      *)
(* header, and those are the origin's own.                                 *)
CookiesAreOneWay ==
  /\ \A r \in Requests : "Set-Cookie" \notin DOMAIN r.headers
  /\ \A x \in Objects : "Cookie" \notin DOMAIN x.headers
  /\ \A d \in Distributions : \A path \in DOMAIN d.behaviors :
       LET custom == d.behaviors[path].responseHeaders.customHeaders
       IN  {custom[i].name : i \in DOMAIN custom} \cap {"Cookie", "Set-Cookie"} = {}

(* One of each name, and none without a value.                             *)
OneOfEach(pairs) == Cardinality(Named(pairs)) = Len(pairs) /\ \A p \in ToSet(pairs) : p.value # NoValue

AllNamed(pairs) == "" \notin Named(pairs)

(* The parameters of that name have an '=' and nothing that cannot be      *)
(* unescaped; what cannot is given the empty name.                         *)
Readable(query, n) == n \notin {""} \cup Undecodable /\ ToSet(ValuesOf(query, n)) \cap ({NoValue} \cup Undecodable) = {}

(* A viewer-request function that returns its event as it is changes       *)
(* nothing an origin gets but the order of cookies and parameters, the     *)
(* encoding of the path, and the parameters that are not readable: those   *)
(* lose what cannot be unescaped or gain an '=', and take nothing of the   *)
(* others with them.  This holds if no cookie is there twice or without    *)
(* '='.                                                                    *)
IdentityRequestIsInvisible ==
  [][(pc = "viewerRequest" /\ Behavior.viewerRequest = PassThrough /\ OneOfEach(Get(req.headers, "Cookie")))
     => \A path \in DOMAIN dist.behaviors :
          LET was == Asking(path, req).request
              is == Asking(path, req').request
          IN  /\ SameHeaders(was.headers, is.headers)
              /\ \A n \in Named(was.query) \cup Named(is.query) :
                   Readable(was.query, n) => ValuesOf(was.query, n) = ValuesOf(is.query, n)
              /\ was.path = is.path /\ was.host = is.host]_vars

(* A viewer-response function that returns its event as it is changes      *)
(* nothing but the order of the cookies, if all have names and values and  *)
(* none is set twice.                                                      *)
IdentityResponseIsInvisible ==
  [][LET lines == Lines(resp.headers, "Set-Cookie")
         cookies == [i \in DOMAIN lines |-> lines[i][1]]
     IN  (/\ pc = "viewerResponse" /\ Behavior.viewerResponse = PassThrough
          /\ OneOfEach(cookies) /\ AllNamed(cookies))
         => /\ SameHeaders(resp.headers, resp'.headers)
            /\ resp'.status = resp.status]_vars

-----------------------------------------------------------------------------
(* What the viewer gets.                                                   *)

(* No origin is configured with headers that ask for a part of an object,  *)
(* or for it only if it changed.                                           *)
Unconditional ==
  \A d \in Distributions : \A path \in DOMAIN d.behaviors :
    AlwaysForwardedHeaders \cap DOMAIN d.behaviors[path].origin.customHeaders = {}

(* An error page that was fetched is all of the page: no part of it, and   *)
(* not the empty answer to a condition of the viewer's.                    *)
PagesAreWhole == resp.source = "page" => ~resp.body.part /\ resp.body # NoBody

Harmless == {NoFunction, PassThrough}
Answered == pc = "done" /\ resp.source # "none" /\ {Behavior.viewerRequest, Behavior.viewerResponse} \subseteq Harmless

(* What the next two rest on: neither an origin nor a policy has its own   *)
(* idea of the body's encoding and length, or of what a Connection header  *)
(* takes away again.                                                       *)
PlainHeaders ==
  /\ \A x \in Objects :
       /\ "Content-Encoding" \notin DOMAIN x.headers
       /\ {"Vary", "Content-Encoding"} \cap ToSet(Get(x.headers, "Connection")) = {}
  /\ \A d \in Distributions : \A path \in DOMAIN d.behaviors :
       LET b == d.behaviors[path]
           policy == b.responseHeaders
       IN  /\ \A i \in DOMAIN policy.customHeaders :
                policy.customHeaders[i].name \notin {"Connection", "Content-Length", "Content-Encoding"}
           /\ "Content-Encoding" \notin policy.removeHeaders
           /\ "Accept-Encoding" \notin DOMAIN b.origin.customHeaders

(* A viewer gets only codings it accepts, its Content-Encoding names those *)
(* the body has, and its Content-Length is the body's: what the cache      *)
(* policy asks of the origin and what localfront compresses itself agree.  *)
EncodingIsNegotiated ==
  (Answered /\ answer.body # NoBody)
    => /\ ToSet(answer.body.codings) \subseteq ToSet(Get(viewer.headers, "Accept-Encoding"))
       /\ Get(answer.headers, "Content-Encoding") = answer.body.codings
       /\ Get(answer.headers, "Content-Length") \in {<<>>, <<answer.body.size>>}

(* A response whose Access-Control-Allow-Origin depends on who asks says   *)
(* so in Vary, through every later stage.                                  *)
CorsVariesOnOrigin ==
  LET allowed == Behavior.responseHeaders.cors.allowOrigins
      origin == Get(req.headers, "Origin")
  IN  (Answered /\ "*" \notin allowed /\ ToSet(origin) \cap allowed # {})
        => "Origin" \in Elements(Lines(answer.headers, "Vary"))
=============================================================================
