---------------------------- MODULE ExchangeProofs ---------------------------
(***************************************************************************)
(* What the data of a request keeps to on its way, for any distributions,  *)
(* requests, origins and functions.                                        *)
(*                                                                         *)
(* To the origin: header sets are built by overlaying one on another.      *)
(* Ours says of one that its CloudFront headers are those localfront made  *)
(* up, and each operation keeps it; ReachesOrigin says where any other     *)
(* header can come from, which is why an error page is not asked for       *)
(* under the viewer's conditions.  Between the two, a header is the SameAt *)
(* each step, and what is Kept of a list is what both policies take.       *)
(*                                                                         *)
(* And back: an answer is Coherent if its headers describe its body.  The  *)
(* policy, a function that changes nothing and the hop Follow the headers  *)
(* they are given, and compression describes what it does.                 *)
(*                                                                         *)
(* A function that changes nothing: what the event makes of a list of      *)
(* pairs is followed as the list grows, one pair at a time (Growing).  The *)
(* values of a name come back as they were, and so do cookies, but in      *)
(* another order; Alike carries that through each step to an origin, and   *)
(* CookieLines says of a response what its cookies need.                   *)
(***************************************************************************)
EXTENDS Exchange, FiniteSetTheorems, SequenceTheorems, WellFoundedInduction, TLAPS

Ours(h, made) == \A n \in CloudFrontHeaders \cap DOMAIN h : n \in DOMAIN made /\ h[n] = made[n]

LEMMA OverlayIsOurs ==
  ASSUME NEW f, NEW g, NEW made, Ours(f, made), Ours(g, made)
  PROVE  Ours(Overlay(f, g), made)
BY DEF Ours, Overlay

LEMMA RestrictionIsOurs ==
  ASSUME NEW h, NEW made, NEW names, Ours(h, made), names \subseteq DOMAIN h
  PROVE  Ours(Restrict(h, names), made)
BY DEF Ours, Restrict

LEMMA NoneIsOurs ==
  ASSUME NEW h, NEW made, DOMAIN h \cap CloudFrontHeaders = {}
  PROVE  Ours(h, made)
BY DEF Ours

(* A header that is not one of CloudFront's can be set.                    *)
LEMMA SettingIsOurs ==
  ASSUME NEW h, NEW made, NEW n, NEW line, Ours(h, made), n \notin CloudFrontHeaders
  PROVE  Ours(SetHeader(h, n, line), made)
BY DEF Ours, SetHeader, SetLines

(* The viewer's own CloudFront headers do not come through the policies,   *)
(* whatever they select.                                                   *)
LEMMA BuiltIsOurs ==
  ASSUME NEW b, NEW r, NEW made
  PROVE  Ours(BuildOriginRequest(b, r, made).headers, made)
<1> DEFINE synthesized == Restrict(made, {n \in DOMAIN made : SelectsCloudFrontHeader(b, n)})
           selected == ViewerHeadersOf(b, r.headers)
           cookies == FilterCookies(b, Get(r.headers, "Cookie"))
<1>1. Ours(made, made)
  BY DEF Ours
<1>2. Ours(synthesized, made)
  BY <1>1, RestrictionIsOurs
<1>3. DOMAIN selected \cap CloudFrontHeaders = {}
  BY DEF ViewerHeadersOf, Restrict
<1>4. Ours(selected, made)
  BY <1>3, NoneIsOurs
<1>5. Ours(Overlay(synthesized, selected), made)
  BY <1>2, <1>4, OverlayIsOurs
<1>6. Ours(SetHeader(Overlay(synthesized, selected), "Cookie", cookies), made)
  BY <1>5, SettingIsOurs, CloudFrontAssumption
<1>7. BuildOriginRequest(b, r, made).headers
        = IF cookies # <<>> THEN SetHeader(Overlay(synthesized, selected), "Cookie", cookies) ELSE Overlay(synthesized, selected)
  BY DEF BuildOriginRequest
<1> QED
  BY <1>5, <1>6, <1>7

(* The headers both kinds of origin get, but for the configured ones.      *)
LEMMA SharedIsOurs ==
  ASSUME NEW origin, NEW built, NEW r, NEW made, Ours(built.headers, made)
  PROVE  \E h : Ours(h, made) /\ OriginHeaders(origin, built, r) = Overlay(origin.customHeaders, h)
<1> DEFINE always == Restricted(r.headers, AlwaysForwardedHeaders)
           forwarded == RemoveHopByHopHeaders(Overlay(always, built.headers))
           encoded == IF built.acceptEncoding = <<>> THEN forwarded
                      ELSE SetHeader(forwarded, "Accept-Encoding", built.acceptEncoding)
<1>1. DOMAIN always \subseteq AlwaysForwardedHeaders
  BY DEF Restricted, Restrict
<1>2. Ours(always, made)
  BY <1>1, NoneIsOurs, CloudFrontAssumption DEF AlwaysForwardedHeaders
<1>3. Ours(Overlay(always, built.headers), made)
  BY <1>2, OverlayIsOurs
<1>4. Ours(forwarded, made)
  BY <1>3, RestrictionIsOurs DEF RemoveHopByHopHeaders, DelHeaders
<1>5. Ours(encoded, made)
  BY <1>4, SettingIsOurs, CloudFrontAssumption
<1> QED
  BY <1>5 DEF OriginHeaders

OursBut(h, made, custom) == \A n \in (CloudFrontHeaders \cap DOMAIN h) \ custom : n \in DOMAIN made /\ h[n] = made[n]

(* What an origin is sent has localfront's CloudFront headers, unless the  *)
(* origin's configuration sets the header.                                 *)
LEMMA OriginRequestIsOurs ==
  ASSUME NEW d, NEW b, NEW r, NEW made
  PROVE  OursBut(OriginRequest(d, b, r, made).headers, made, DOMAIN b.origin.customHeaders)
<1> DEFINE built == BuildOriginRequest(b, r, made)
           custom == b.origin.customHeaders
           headers == OriginHeaders(b.origin, built, r)
           chained == AppendXForwardedFor(headers, Get(r.headers, "X-Forwarded-For"), r.ip)
           identified == SetHeader(chained, "X-Amz-Cf-Id", <<r.id>>)
<1> HIDE DEF built, headers, chained, identified
<1>1. PICK h : Ours(h, made) /\ headers = Overlay(custom, h)
  BY BuiltIsOurs, SharedIsOurs DEF built, headers
<1>2. OursBut(headers, made, DOMAIN custom)
  <2>1. OursBut(Overlay(custom, h), made, DOMAIN custom)
    BY <1>1 DEF Ours, OursBut, Overlay
  <2> QED
    BY <1>1, <2>1
<1>3. ASSUME NEW g, NEW n, NEW line, OursBut(g, made, DOMAIN custom), n \notin CloudFrontHeaders
      PROVE  OursBut(SetHeader(g, n, line), made, DOMAIN custom)
  BY <1>3 DEF OursBut, SetHeader, SetLines
<1>4. OursBut(chained, made, DOMAIN custom)
  BY <1>2, <1>3, CloudFrontAssumption DEF AppendXForwardedFor, chained
<1>5. OursBut(identified, made, DOMAIN custom)
  BY <1>3, <1>4, CloudFrontAssumption DEF identified
<1>6. OursBut(AddVia(identified, d.domain), made, DOMAIN custom)
  BY <1>3, <1>5, CloudFrontAssumption DEF AddVia
<1>7. OriginRequest(d, b, r, made).headers = IF b.origin.custom THEN AddVia(identified, d.domain) ELSE headers
  BY DEF OriginRequest, built, headers, chained, identified
<1> QED
  BY <1>2, <1>6, <1>7

-----------------------------------------------------------------------------
BuiltFrom(s) == s.request = OriginRequest(dist, dist.behaviors[s.path], s.from, viewerHeaders)

(* Strengthens CloudFrontHeadersAreOurs to what a step preserves.          *)
ExchangeInv ==
  /\ viewerHeaders = SynthesizeViewerHeaders(viewer.headers)
  /\ sent \in Seq(ToSet(sent))
  /\ \A s \in ToSet(sent) : BuiltFrom(s)

(* A request made by Asking is built from the headers synthesized for the  *)
(* viewer.                                                                 *)
LEMMA AskingBuilds ==
  ASSUME NEW path, NEW r
  PROVE  BuiltFrom(Asking(path, r))
BY DEF Asking, BuiltFrom

LEMMA OneSent ==
  ASSUME NEW x
  PROVE  ToSet(<<x>>) = {x} /\ <<x>> \in Seq({x})
BY DEF ToSet

LEMMA AnotherSent ==
  ASSUME NEW s, NEW x, s \in Seq(ToSet(s))
  PROVE  ToSet(Append(s, x)) = ToSet(s) \cup {x} /\ Append(s, x) \in Seq(ToSet(s) \cup {x})
<1> DEFINE T == ToSet(s) \cup {x}
<1>1. s \in Seq(T)
  <2>1. \A i \in 1..Len(s) : s[i] \in T
    OBVIOUS
  <2> QED
    BY <2>1
<1>2. Append(s, x) \in Seq(T)
  BY <1>1
<1>3. ToSet(Append(s, x)) = T
  <2>1. DOMAIN Append(s, x) = 1..(Len(s) + 1) /\ DOMAIN s = 1..Len(s) /\ Len(s) \in Nat
    BY <1>1
  <2>2. \A i \in 1..Len(s) : Append(s, x)[i] = s[i]
    BY <1>1
  <2>3. Append(s, x)[Len(s) + 1] = x
    BY <1>1
  <2> QED
    BY <2>1, <2>2, <2>3 DEF ToSet
<1> QED
  BY <1>2, <1>3

(* The data of an exchange is kept by every step, and a step sends nothing *)
(* or one request that Asking built.                                       *)
LEMMA StepSends ==
  ASSUME ExchangeInv, [Next]_vars
  PROVE  /\ UNCHANGED <<dist, viewer, viewerHeaders>>
         /\ \/ sent' = sent
            \/ \E path, r : sent' = <<Asking(path, r)>> \/ sent' = Append(sent, Asking(path, r))
<1>1. CASE RunViewerRequest
  BY <1>1 DEF RunViewerRequest, constant, WriteCFError
<1>2. CASE FetchOrigin
  <2> DEFINE ask == Asking(viewer.path, req)
  <2>1. UNCHANGED <<dist, viewer, viewerHeaders>>
    BY <1>2 DEF FetchOrigin, constant
  <2>2. sent' = <<ask>> \/ sent' = sent
    <3> HIDE DEF ask
    <3> QED
      BY <1>2 DEF FetchOrigin, ask
  <2> QED
    BY <2>1, <2>2
<1>3. CASE ApplyErrorResponse
  <2>1. UNCHANGED <<dist, viewer, viewerHeaders>>
    BY <1>3 DEF ApplyErrorResponse, constant
  <2>2. sent' = sent \/ \E e \in Matching(resp.status) : sent' = Append(sent, PageAsking(e.page))
    BY <1>3 DEF ApplyErrorResponse
  <2> QED
    BY <2>1, <2>2 DEF PageAsking
<1>4. CASE SetResponseHeaders
  BY <1>4 DEF SetResponseHeaders, constant
<1>5. CASE RunViewerResponse
  BY <1>5 DEF RunViewerResponse, constant
<1>6. CASE Write
  BY <1>6 DEF Write, constant
<1>7. CASE UNCHANGED vars
  BY <1>7 DEF vars
<1> QED
  BY <1>1, <1>2, <1>3, <1>4, <1>5, <1>6, <1>7 DEF Next

LEMMA InitEstablishes == Init => ExchangeInv
<1> SUFFICES ASSUME Init PROVE ExchangeInv
  OBVIOUS
<1>1. ToSet(sent) = {}
  BY DEF Init, ToSet
<1>2. sent \in Seq(ToSet(sent))
  BY DEF Init
<1> QED
  BY <1>1, <1>2 DEF Init, ExchangeInv

LEMMA StepPreserves == ExchangeInv /\ [Next]_vars => ExchangeInv'
<1> SUFFICES ASSUME ExchangeInv, [Next]_vars PROVE ExchangeInv'
  OBVIOUS
<1>1. UNCHANGED <<dist, viewer, viewerHeaders>>
  BY StepSends
<1>2. \A s : BuiltFrom(s)' <=> BuiltFrom(s)
  BY <1>1 DEF BuiltFrom
<1>3. CASE sent' = sent
  BY <1>1, <1>2, <1>3 DEF ExchangeInv
<1>4. ASSUME NEW x, BuiltFrom(x), sent' = <<x>> \/ sent' = Append(sent, x)
      PROVE  ExchangeInv'
  <2>1. sent' \in Seq(ToSet(sent')) /\ ToSet(sent') \subseteq ToSet(sent) \cup {x}
    <3>1. CASE sent' = <<x>>
      BY <3>1, OneSent
    <3>2. CASE sent' = Append(sent, x)
      <4>1. sent \in Seq(ToSet(sent))
        BY DEF ExchangeInv
      <4>2. ToSet(Append(sent, x)) = ToSet(sent) \cup {x} /\ Append(sent, x) \in Seq(ToSet(sent) \cup {x})
        BY <4>1, AnotherSent
      <4> QED
        BY <3>2, <4>2
    <3> QED
      BY <1>4, <3>1, <3>2
  <2>2. \A s \in ToSet(sent') : BuiltFrom(s)
    BY <1>4, <2>1 DEF ExchangeInv
  <2> QED
    BY <1>1, <1>2, <2>1, <2>2 DEF ExchangeInv
<1> QED
  BY <1>3, <1>4, StepSends, AskingBuilds

LEMMA InvariantSuffices == ExchangeInv => CloudFrontHeadersAreOurs
<1> SUFFICES ASSUME ExchangeInv, NEW s \in ToSet(sent), NEW n \in CloudFrontHeaders,
                    n \in DOMAIN s.request.headers \ DOMAIN dist.behaviors[s.path].origin.customHeaders
             PROVE  s.request.headers[n] = SynthesizeViewerHeaders(viewer.headers)[n]
  BY DEF CloudFrontHeadersAreOurs
<1>1. s.request = OriginRequest(dist, dist.behaviors[s.path], s.from, viewerHeaders)
  BY DEF ExchangeInv, BuiltFrom
<1>2. OursBut(s.request.headers, viewerHeaders, DOMAIN dist.behaviors[s.path].origin.customHeaders)
  BY <1>1, OriginRequestIsOurs
<1> QED
  BY <1>2 DEF OursBut, ExchangeInv

(* Every CloudFront header any origin gets, for an error page too, has the *)
(* value synthesized for the viewer: no policy, Connection header, custom  *)
(* function or override lets the viewer's own through.                     *)
THEOREM CloudFrontHeadersStayOurs == Spec => []CloudFrontHeadersAreOurs
<1>1. Init => ExchangeInv
  BY InitEstablishes
<1>2. ExchangeInv /\ [Next]_vars => ExchangeInv'
  BY StepPreserves
<1>3. ExchangeInv => CloudFrontHeadersAreOurs
  BY InvariantSuffices
<1> QED
  BY <1>1, <1>2, <1>3, PTL DEF Spec

-----------------------------------------------------------------------------
(* What reaches an origin under a name that localfront does not set.       *)
OwnNames == {"Cookie", "Accept-Encoding", "Via", "X-Forwarded-For", "X-Amz-Cf-Id"}

LEMMA SynthesizedDomain ==
  ASSUME NEW h
  PROVE  DOMAIN SynthesizeViewerHeaders(h) \subseteq CloudFrontHeaders
<1> DEFINE overriding == DOMAIN h \cap DOMAIN Overrides
           set == [c \in {Overrides[n] : n \in overriding} |-> h[CHOOSE n \in overriding : Overrides[n] = c]]
<1>1. DOMAIN set \subseteq CloudFrontHeaders
  BY OverridesAssumption
<1>2. SynthesizeViewerHeaders(h) = Overlay(set, Synthesized)
  BY DEF SynthesizeViewerHeaders
<1> HIDE DEF set
<1> QED
  BY <1>1, <1>2, SynthesizedAssumption DEF Overlay

LEMMA SetHeaderElsewhere ==
  ASSUME NEW h, NEW n, NEW line, NEW k, k # n
  PROVE  /\ k \in DOMAIN SetHeader(h, n, line) <=> k \in DOMAIN h
         /\ k \in DOMAIN h => SetHeader(h, n, line)[k] = h[k]
BY DEF SetHeader, SetLines

LEMMA SetHeaderThere ==
  ASSUME NEW h, NEW n, NEW line
  PROVE  n \in DOMAIN SetHeader(h, n, line) /\ SetHeader(h, n, line)[n] = <<line>>
BY DEF SetHeader, SetLines

(* The policies add nothing but Cookie and the CloudFront headers.         *)
LEMMA BuiltFromViewer ==
  ASSUME NEW b, NEW r, NEW made, DOMAIN made \subseteq CloudFrontHeaders,
         NEW n, n \notin CloudFrontHeaders, n # "Cookie",
         n \in DOMAIN BuildOriginRequest(b, r, made).headers
  PROVE  n \in DOMAIN ViewerHeadersOf(b, r.headers)
<1> DEFINE synthesized == Restrict(made, {m \in DOMAIN made : SelectsCloudFrontHeader(b, m)})
           selected == ViewerHeadersOf(b, r.headers)
           cookies == FilterCookies(b, Get(r.headers, "Cookie"))
           both == Overlay(synthesized, selected)
<1>1. BuildOriginRequest(b, r, made).headers = IF cookies # <<>> THEN SetHeader(both, "Cookie", cookies) ELSE both
  BY DEF BuildOriginRequest
<1>2. n \notin DOMAIN synthesized
  BY DEF Restrict
<1> HIDE DEF synthesized, selected, cookies
<1>3. n \in DOMAIN both
  BY <1>1, SetHeaderElsewhere
<1>4. n \in DOMAIN selected
  BY <1>2, <1>3 DEF Overlay
<1> QED
  BY <1>4 DEF selected

(* A header of an origin's request is the origin's own, one localfront     *)
(* sets, or the viewer's: always forwarded, or selected and not listed.    *)
LEMMA ReachesOrigin ==
  ASSUME NEW d, NEW b, NEW r, NEW made, DOMAIN made \subseteq CloudFrontHeaders,
         NEW n, n \notin CloudFrontHeaders \cup OwnNames \cup DOMAIN b.origin.customHeaders,
         n \in DOMAIN OriginRequest(d, b, r, made).headers
  PROVE  n \in DOMAIN r.headers
<1> DEFINE built == BuildOriginRequest(b, r, made)
           always == Restricted(r.headers, AlwaysForwardedHeaders)
           over == Overlay(always, built.headers)
           forwarded == RemoveHopByHopHeaders(over)
           encoded == IF built.acceptEncoding = <<>> THEN forwarded
                      ELSE SetHeader(forwarded, "Accept-Encoding", built.acceptEncoding)
           headers == OriginHeaders(b.origin, built, r)
           chained == AppendXForwardedFor(headers, Get(r.headers, "X-Forwarded-For"), r.ip)
           identified == SetHeader(chained, "X-Amz-Cf-Id", <<r.id>>)
<1>1. OriginRequest(d, b, r, made).headers = IF b.origin.custom THEN AddVia(identified, d.domain) ELSE headers
  BY DEF OriginRequest
<1>2. headers = Overlay(b.origin.customHeaders, encoded)
  BY DEF OriginHeaders
<1>3. n \in DOMAIN built.headers => n \in DOMAIN r.headers
  <2>1. n \in DOMAIN built.headers => n \in DOMAIN ViewerHeadersOf(b, r.headers)
    BY BuiltFromViewer DEF OwnNames
  <2> QED
    BY <2>1 DEF ViewerHeadersOf, Restrict
<1>4. n \in DOMAIN always => n \in DOMAIN r.headers
  BY DEF Restricted, Restrict
<1> HIDE DEF built, always
<1>5. n \in DOMAIN over => n \in DOMAIN r.headers
  BY <1>3, <1>4 DEF Overlay
<1> HIDE DEF over
<1>6. n \in DOMAIN forwarded => n \in DOMAIN r.headers
  BY <1>5 DEF RemoveHopByHopHeaders, DelHeaders, Restrict
<1> HIDE DEF forwarded
<1>7. n \in DOMAIN encoded => n \in DOMAIN r.headers
  BY <1>6, SetHeaderElsewhere DEF OwnNames
<1> HIDE DEF encoded
<1>8. n \in DOMAIN headers => n \in DOMAIN r.headers
  BY <1>2, <1>7 DEF Overlay
<1> HIDE DEF headers
<1>9. n \in DOMAIN chained => n \in DOMAIN r.headers
  BY <1>8, SetHeaderElsewhere DEF AppendXForwardedFor, OwnNames
<1> HIDE DEF chained
<1>10. n \in DOMAIN identified => n \in DOMAIN r.headers
  BY <1>9, SetHeaderElsewhere DEF OwnNames
<1> HIDE DEF identified
<1>11. n \in DOMAIN AddVia(identified, d.domain) => n \in DOMAIN r.headers
  BY <1>10, SetHeaderElsewhere DEF AddVia, OwnNames
<1> QED
  BY <1>1, <1>8, <1>11

-----------------------------------------------------------------------------
(* Error pages.                                                            *)

(* What the handler of a request knows of its data at every stage.         *)
DataInv ==
  /\ ExchangeInv
  /\ dist \in Distributions
  /\ viewer \in Requests /\ viewer.path \in DOMAIN dist.behaviors
  /\ DOMAIN req = DOMAIN viewer /\ req.method = viewer.method

LEMMA InitData == Init => DataInv
<1> SUFFICES ASSUME Init PROVE DataInv
  OBVIOUS
<1>1. ExchangeInv
  BY InitEstablishes
<1> QED
  BY <1>1 DEF Init, DataInv

LEMMA StepData == DataInv /\ [Next]_vars => DataInv'
<1> SUFFICES ASSUME DataInv, [Next]_vars PROVE DataInv'
  OBVIOUS
<1>1. ExchangeInv' /\ UNCHANGED <<dist, viewer>>
  BY StepPreserves, StepSends DEF DataInv
<1>2. DOMAIN req = {"method", "path", "raw", "query", "headers", "host", "ip", "id"}
  BY RequestsAssumption DEF DataInv
<1>3. ASSUME NEW e, req' = ApplyToRequest(e, req)
      PROVE  DOMAIN req' = DOMAIN req /\ req'.method = req.method
  BY <1>2, <1>3 DEF ApplyToRequest
<1>4. DOMAIN req' = DOMAIN req /\ req'.method = req.method
  <2>1. CASE RunViewerRequest
    <3>1. req' = req \/ \E e : req' = ApplyToRequest(e, req)
      BY <2>1 DEF RunViewerRequest, WriteCFError
    <3> QED
      BY <3>1, <1>3
  <2>2. CASE req' = req
    BY <2>2
  <2>3. RunViewerRequest \/ req' = req
    BY DEF Next, FetchOrigin, ApplyErrorResponse, SetResponseHeaders, RunViewerResponse, Write, vars
  <2> QED
    BY <2>1, <2>2, <2>3
<1> QED
  BY <1>1, <1>4 DEF DataInv

(* A page is asked for without conditions.                                 *)
LEMMA PageIsAskedForWhole ==
  ASSUME DataInv, Unconditional, NEW page \in DOMAIN dist.behaviors
  PROVE  LET o == PageAsking(page).request
         IN  /\ o.method = "GET"
             /\ DOMAIN o.headers \cap AlwaysForwardedHeaders = {}
             /\ o.path # NoBody.content
<1> DEFINE r == PageRequest(page)
           b == dist.behaviors[page]
           o == PageAsking(page).request
<1>1. DOMAIN req = {"method", "path", "raw", "query", "headers", "host", "ip", "id"}
  BY RequestsAssumption DEF DataInv
<1>2. r.method = "GET" /\ r.path = page /\ r.headers = DelHeaders(req.headers, AlwaysForwardedHeaders)
  BY <1>1 DEF PageRequest
<1>3. o = OriginRequest(dist, b, r, viewerHeaders)
  BY DEF PageAsking, Asking
<1> HIDE DEF r, o
<1>4. o.method = "GET" /\ o.path = ApplyDefaultRootObject(page, dist.rootObject)
  BY <1>2, <1>3 DEF OriginRequest
<1>5. DOMAIN viewerHeaders \subseteq CloudFrontHeaders
  BY SynthesizedDomain DEF DataInv, ExchangeInv
<1>6. ASSUME NEW n \in DOMAIN o.headers \cap AlwaysForwardedHeaders PROVE FALSE
  <2>1. n \notin CloudFrontHeaders \cup OwnNames
    BY CloudFrontAssumption DEF AlwaysForwardedHeaders, OwnNames
  <2>2. n \notin DOMAIN b.origin.customHeaders
    BY DEF Unconditional, DataInv
  <2>3. n \in DOMAIN r.headers
    BY <1>3, <1>5, <2>1, <2>2, ReachesOrigin
  <2> QED
    BY <2>3, <1>2 DEF DelHeaders, Restrict
<1>7. o.path # NoBody.content
  BY <1>4, DistributionsAssumption DEF ApplyDefaultRootObject, DataInv
<1> QED
  BY <1>4, <1>6, <1>7 DEF o

LEMMA AnswersAreMessages ==
  ASSUME NEW o, NEW a \in OriginAnswers(o)
  PROVE  a = [status |-> a.status, headers |-> a.headers, body |-> a.body]
<1>1. \A q, x, c : Whole(q, x, c) = [status |-> 200, headers |-> Whole(q, x, c).headers, body |-> Whole(q, x, c).body]
  BY DEF Whole
<1>2. \A x : Partial(o, x) = [status |-> 206, headers |-> Partial(o, x).headers, body |-> Partial(o, x).body]
  BY DEF Partial
<1>3. NotFound(o) = [status |-> 404, headers |-> NotFound(o).headers, body |-> NotFound(o).body]
  <2> DEFINE w == Whole([o EXCEPT !.path = "missing"], [size |-> 2000, headers |-> <<>>], <<>>)
  <2>1. w = [status |-> 200, headers |-> w.headers, body |-> w.body]
    BY <1>1
  <2>2. NotFound(o) = [w EXCEPT !.status = 404]
    BY DEF NotFound
  <2> HIDE DEF w
  <2>3. [w EXCEPT !.status = 404] = [status |-> 404, headers |-> w.headers, body |-> w.body]
    BY <2>1
  <2> QED
    BY <2>2, <2>3
<1>4. \/ \E x, c : a = Whole(o, x, c)
      \/ \E x : a = Partial(o, x)
      \/ a = NotFound(o)
      \/ a = NotModified
  BY DEF OriginAnswers
<1> QED
  BY <1>1, <1>2, <1>3, <1>4 DEF NotModified

LEMMA PageAnswers ==
  ASSUME NEW o, o.method = "GET", DOMAIN o.headers \cap AlwaysForwardedHeaders = {},
         o.path # NoBody.content, NEW a \in OriginAnswers(o)
  PROVE  ~a.body.part /\ a.body # NoBody
<1> DEFINE codings == {<<>>} \cup {<<e>> : e \in ToSet(Get(o.headers, "Accept-Encoding"))}
<1>1. "Range" \notin DOMAIN o.headers /\ "If-None-Match" \notin DOMAIN o.headers
  BY DEF AlwaysForwardedHeaders
<1>2. a \in {Whole(o, x, c) : x \in Objects, c \in codings} \cup {NotFound(o)}
  BY <1>1 DEF OriginAnswers
<1> HIDE DEF codings
<1>3. CASE \E x \in Objects, c \in codings : a = Whole(o, x, c)
  BY <1>3 DEF Whole, NoBody
<1>4. CASE a = NotFound(o)
  BY <1>4 DEF NotFound, Whole, NoBody
<1> QED
  BY <1>2, <1>3, <1>4

PageInv == DataInv /\ PagesAreWhole

(* The response an error page gives way to, or the page.                   *)
LEMMA PageApplied ==
  ASSUME PageInv, Unconditional, ApplyErrorResponse
  PROVE  resp'.source = "page" => ~resp'.body.part /\ resp'.body # NoBody
<1>1. ASSUME NEW status PROVE CFErrorPage(status).body # NoBody /\ ~CFErrorPage(status).body.part
  BY DEF CFErrorPage, NoBody
<1>2. CASE resp' = resp
  BY <1>2 DEF PageInv, PagesAreWhole
<1>3. ASSUME NEW e \in Matching(resp.status), resp' = [resp EXCEPT !.status = e.response]
      PROVE  resp'.source = resp.source /\ resp'.body = resp.body
  BY <1>3
<1>4. ASSUME NEW e \in Matching(resp.status), e.page # "",
             NEW a \in OriginAnswers(PageAsking(e.page).request), resp' = Held([a EXCEPT !.status = e.response], "page")
      PROVE  ~resp'.body.part /\ resp'.body # NoBody
  <2>1. e.page \in DOMAIN dist.behaviors
    BY <1>4, DistributionsAssumption DEF Matching, PageInv, DataInv
  <2>2. ~a.body.part /\ a.body # NoBody
    <3> DEFINE o == PageAsking(e.page).request
    <3>1. o.method = "GET" /\ DOMAIN o.headers \cap AlwaysForwardedHeaders = {} /\ o.path # NoBody.content
      BY <2>1, PageIsAskedForWhole DEF PageInv
    <3> HIDE DEF o
    <3>2. a \in OriginAnswers(o)
      BY <1>4 DEF o
    <3> QED
      BY <3>1, <3>2, PageAnswers
  <2>3. resp'.body = [a EXCEPT !.status = e.response].body
    BY <1>4 DEF Held
  <2>4. [a EXCEPT !.status = e.response].body = a.body
    BY AnswersAreMessages
  <2> QED
    BY <2>2, <2>3, <2>4
<1>5. ASSUME NEW e, resp' = Held(CFErrorPage(e.response), "page")
      PROVE  ~resp'.body.part /\ resp'.body # NoBody
  BY <1>5, <1>1 DEF Held
<1>6. \/ resp' = resp
      \/ \E e \in Matching(resp.status) :
           \/ resp' = [resp EXCEPT !.status = e.response]
           \/ e.page # "" /\ \E a \in OriginAnswers(PageAsking(e.page).request) :
                               resp' = Held([a EXCEPT !.status = e.response], "page")
           \/ resp' = Held(CFErrorPage(e.response), "page")
  BY DEF ApplyErrorResponse
<1> QED
  BY <1>2, <1>3, <1>4, <1>5, <1>6 DEF PageInv, PagesAreWhole

(* An error page is answered for in whole, whatever Range and conditions   *)
(* the viewer sent for another resource (Unconditional: no origin is       *)
(* configured with such headers of its own; CloudFront refuses them).      *)
THEOREM PagesStayWhole ==
  ASSUME Unconditional
  PROVE  Spec => []PagesAreWhole
<1>1. Init => PageInv
  <2>1. Init => PagesAreWhole
    BY DEF Init, NoResponse, Held, PagesAreWhole
  <2> QED
    BY <2>1, InitData DEF PageInv
<1>2. PageInv /\ [Next]_vars => PageInv'
  <2> SUFFICES ASSUME PageInv, [Next]_vars PROVE PagesAreWhole'
    BY StepData DEF PageInv
  <2>1. CASE RunViewerRequest
    <3>1. \A p : FunctionResponse(p).source = "function"
      BY DEF FunctionResponse
    <3>2. resp' = resp \/ \E p : resp' = FunctionResponse(p)
      BY <2>1 DEF RunViewerRequest
    <3> QED
      BY <3>1, <3>2 DEF PageInv, PagesAreWhole
  <2>2. CASE FetchOrigin
    <3>1. resp' = resp \/ resp'.source = "origin"
      BY <2>2 DEF FetchOrigin, WriteCFError, Held
    <3> QED
      BY <3>1 DEF PageInv, PagesAreWhole
  <2>3. CASE ApplyErrorResponse
    BY <2>3, PageApplied DEF PagesAreWhole
  <2>4. CASE SetResponseHeaders
    <3>1. resp'.source = resp.source /\ resp'.body = resp.body
      BY <2>4 DEF SetResponseHeaders
    <3> QED
      BY <3>1 DEF PageInv, PagesAreWhole
  <2>5. CASE RunViewerResponse
    <3>1. resp' = resp \/ \E status, headers : resp' = [resp EXCEPT !.status = status, !.headers = headers]
      BY <2>5 DEF RunViewerResponse
    <3>2. ASSUME NEW status, NEW headers, resp' = [resp EXCEPT !.status = status, !.headers = headers]
          PROVE  resp'.source = resp.source /\ resp'.body = resp.body
      BY <3>2
    <3> QED
      BY <3>1, <3>2 DEF PageInv, PagesAreWhole
  <2>6. CASE resp' = resp
    BY <2>6 DEF PageInv, PagesAreWhole
  <2> QED
    BY <2>1, <2>2, <2>3, <2>4, <2>5, <2>6 DEF Next, Write, vars
<1>3. PageInv => PagesAreWhole
  BY DEF PageInv
<1> QED
  BY <1>1, <1>2, <1>3, PTL DEF Spec

-----------------------------------------------------------------------------
(* Induction over an initial part of the numbers.                          *)
Below == {ab \in Nat \X Nat : ab[1] < ab[2]}

LEMMA UpTo ==
  ASSUME NEW n \in Nat, NEW T, 0 \in T, \A i \in 1 .. n : i - 1 \in T => i \in T
  PROVE  \A i \in 0 .. n : i \in T
<1> DEFINE S == {i \in 0 .. n : i \notin T}
<1> SUFFICES ASSUME S # {} PROVE FALSE
  OBVIOUS
<1>1. S \subseteq Nat /\ IsWellFoundedOn(Below, Nat)
  BY NatLessThanWellFounded DEF OpToRel, Below
<1>2. PICK m \in S : \A k \in S : ~(<<k, m>> \in Below)
  <2> HIDE DEF S
  <2> QED
    BY <1>1, WFMin
<1>3. m \in 1 .. n
  <2>1. m \in Nat /\ m # 0 /\ m <= n
    BY <1>2
  <2> QED
    BY <2>1
<1>4. m - 1 \in Nat /\ <<m - 1, m>> \in Below /\ m - 1 \in 0 .. n
  BY <1>3 DEF Below
<1>5. m - 1 \notin S
  BY <1>2, <1>4
<1> QED
  BY <1>2, <1>3, <1>4, <1>5

(* The policy's own headers, set one after the other.                      *)
SetsCustom(custom, first, n, f) ==
  f = [i \in 0 .. n |->
         IF i = 0 THEN first ELSE SetUnless(f[i - 1], custom[i].name, custom[i].line, custom[i].override)]

LEMMA CustomExists ==
  ASSUME NEW custom, NEW first, NEW n \in Nat
  PROVE  \E f : SetsCustom(custom, first, n, f)
<1> DEFINE T == {k \in Nat : \E f : SetsCustom(custom, first, k, f)}
           step(g, i) == SetUnless(g[i - 1], custom[i].name, custom[i].line, custom[i].override)
<1>1. 0 \in T
  <2> DEFINE f == [i \in 0 .. 0 |-> first]
  <2>1. SetsCustom(custom, first, 0, f)
    BY DEF SetsCustom
  <2> QED
    BY <2>1
<1>2. ASSUME NEW m \in 1 .. n, m - 1 \in T
      PROVE  m \in T
  <2>1. PICK f : SetsCustom(custom, first, m - 1, f)
    BY <1>2
  <2>2. m \in Nat /\ m - 1 \in Nat /\ m # 0
    BY <1>2
  <2> DEFINE h == [i \in 0 .. m |-> IF i < m THEN f[i] ELSE step(f, m)]
             hh == [i \in 0 .. m |-> IF i = 0 THEN first ELSE step(h, i)]
  <2>3. \A i \in 0 .. m : h[i] = hh[i]
    <3> TAKE i \in 0 .. m
    <3>1. CASE i < m
      <4>1. i \in 0 .. m - 1 /\ h[i] = f[i]
        BY <3>1, <2>2
      <4>2. i # 0 => i - 1 \in 0 .. m /\ h[i - 1] = f[i - 1]
        BY <3>1, <2>2
      <4>3. f[i] = IF i = 0 THEN first ELSE step(f, i)
        BY <2>1, <4>1 DEF SetsCustom
      <4>4. hh[i] = IF i = 0 THEN first ELSE step(h, i)
        OBVIOUS
      <4> HIDE DEF h, hh
      <4> QED
        BY <4>1, <4>2, <4>3, <4>4
    <3>2. CASE i = m
      <4>1. m - 1 \in 0 .. m /\ m - 1 < m /\ m \in 0 .. m
        BY <2>2
      <4>2. h[m - 1] = f[m - 1] /\ h[m] = step(f, m)
        BY <4>1
      <4>3. hh[m] = step(h, m)
        BY <2>2, <4>1
      <4> HIDE DEF h, hh
      <4> QED
        BY <3>2, <4>2, <4>3
    <3> QED
      BY <2>2, <3>1, <3>2
  <2>4. h = hh
    <3>1. h = [i \in 0 .. m |-> h[i]] /\ hh = [i \in 0 .. m |-> hh[i]]
      OBVIOUS
    <3> HIDE DEF h, hh
    <3> QED
      BY <2>3, <3>1
  <2>5. SetsCustom(custom, first, m, h)
    BY <2>4 DEF SetsCustom
  <2> HIDE DEF h
  <2> QED
    BY <2>2, <2>5
<1>3. n \in 0 .. n
  OBVIOUS
<1> HIDE DEF T
<1>4. n \in T
  BY <1>1, <1>2, <1>3, UpTo
<1> QED
  BY <1>4 DEF T

-----------------------------------------------------------------------------
(* From an origin's headers to the viewer's.  Follows says that g is h     *)
(* after a stage that leaves the body's encoding and length alone: it may  *)
(* lose the length, and says nothing new in Connection.                    *)
Follows(g, h) ==
  /\ IsSeq(Lines(g, "Vary"))
  /\ Get(g, "Connection") \in {<<>>, Get(h, "Connection")}
  /\ Get(g, "Content-Encoding") = Get(h, "Content-Encoding")
  /\ Get(g, "Content-Length") \in {<<>>, Get(h, "Content-Length")}

LEMMA FollowsIsTransitive ==
  ASSUME NEW f, NEW g, NEW h, Follows(f, g), Follows(g, h)
  PROVE  Follows(f, h)
BY DEF Follows

LEMMA SettingFollows ==
  ASSUME NEW g, NEW h, Follows(g, h), NEW n, NEW line,
         n \notin {"Connection", "Content-Length", "Content-Encoding"}
  PROVE  Follows(SetHeader(g, n, line), h)
<1>1. n = "Vary" => Lines(SetHeader(g, n, line), "Vary") = <<line>>
  BY SetHeaderThere DEF Lines
<1>2. IsSeq(<<line>>)
  BY OneSent DEF IsSeq
<1>3. n # "Vary" => Lines(SetHeader(g, n, line), "Vary") = Lines(g, "Vary")
  BY SetHeaderElsewhere DEF Lines
<1>4. \A k : k # n => Get(SetHeader(g, n, line), k) = Get(g, k)
  BY SetHeaderElsewhere DEF Get
<1> QED
  BY <1>1, <1>2, <1>3, <1>4 DEF Follows

LEMMA RemovingFollows ==
  ASSUME NEW h, NEW names, "Content-Encoding" \notin names, IsSeq(Lines(h, "Vary"))
  PROVE  Follows(DelHeaders(h, names), h)
<1>1. \A n : Get(DelHeaders(h, names), n) \in {<<>>, Get(h, n)}
  BY DEF Get, DelHeaders, Restrict
<1>2. Get(DelHeaders(h, names), "Content-Encoding") = Get(h, "Content-Encoding")
  BY DEF Get, DelHeaders, Restrict
<1>3. IsSeq(Lines(DelHeaders(h, names), "Vary"))
  <2>1. Lines(DelHeaders(h, names), "Vary") \in {<<>>, Lines(h, "Vary")}
    BY DEF Lines, DelHeaders, Restrict
  <2>2. IsSeq(<<>>)
    BY DEF IsSeq
  <2> QED
    BY <2>1, <2>2
<1> QED
  BY <1>1, <1>2, <1>3 DEF Follows

LEMMA SetUnlessFollows ==
  ASSUME NEW g, NEW h, Follows(g, h), NEW n, NEW line, NEW override,
         n \notin {"Connection", "Content-Length", "Content-Encoding"}
  PROVE  Follows(SetUnless(g, n, line, override), h)
BY SettingFollows DEF SetUnless

(* Both ways of adding to Vary.                                            *)
LEMMA AddingToVary ==
  ASSUME NEW g, NEW h, Follows(g, h), NEW name
  PROVE  LET added == AddHeader(g, "Vary", <<name>>)
         IN  /\ Follows(added, h)
             /\ Elements(Lines(g, "Vary")) \cup {name} \subseteq Elements(Lines(added, "Vary"))
<1> DEFINE lines == Lines(g, "Vary")
           added == AddHeader(g, "Vary", <<name>>)
<1>1. ToSet(Append(lines, <<name>>)) = ToSet(lines) \cup {<<name>>} /\ IsSeq(Append(lines, <<name>>))
  <2>1. lines \in Seq(ToSet(lines))
    BY DEF Follows, IsSeq
  <2> HIDE DEF lines
  <2> QED
    BY <2>1, AnotherSent DEF IsSeq
<1>2. Lines(added, "Vary") = Append(lines, <<name>>)
  BY DEF AddHeader, SetLines, Lines
<1>3. \A n : n # "Vary" => Get(added, n) = Get(g, n)
  BY DEF AddHeader, SetLines, Get
<1> HIDE DEF lines, added
<1>4. Follows(added, h)
  BY <1>1, <1>2, <1>3 DEF Follows
<1>5. Elements(lines) \cup {name} \subseteq Elements(Lines(added, "Vary"))
  <2>1. ToSet(<<name>>) = {name}
    BY OneSent
  <2> QED
    BY <1>1, <1>2, <2>1 DEF Elements
<1> QED
  BY <1>4, <1>5 DEF lines, added

LEMMA CorsFollows ==
  ASSUME NEW cors, NEW g, NEW h, Follows(g, h), NEW origin,
         DOMAIN cors.fields \cap {"Vary", "Connection", "Content-Length", "Content-Encoding"} = {}
  PROVE  LET after == ApplyCors(cors, g, origin)
         IN  /\ Follows(after, h)
             /\ origin \in cors.allowOrigins /\ "*" \notin cors.allowOrigins => "Origin" \in Elements(Lines(after, "Vary"))
<1> DEFINE allowed == ApplyAllowOrigin(cors, g, origin)
           fields == [n \in DOMAIN cors.fields |-> IF cors.override \/ Get(g, n) = <<>> THEN <<cors.fields[n]>> ELSE g[n]]
           after == ApplyCors(cors, g, origin)
<1>1. /\ Follows(allowed, h)
      /\ origin \in cors.allowOrigins /\ "*" \notin cors.allowOrigins => "Origin" \in Elements(Lines(allowed, "Vary"))
  <2> DEFINE name == "Access-Control-Allow-Origin"
             echoed == SetUnless(g, name, <<origin>>, cors.override)
  <2>1. \A line : Follows(SetUnless(g, name, line, cors.override), h)
    BY SetUnlessFollows
  <2>2. Follows(AddVary(echoed, "Origin"), h) /\ "Origin" \in Elements(Lines(AddVary(echoed, "Origin"), "Vary"))
    <3>1. Follows(echoed, h)
      BY <2>1
    <3> HIDE DEF echoed
    <3> QED
      BY <3>1, AddingToVary DEF AddVary
  <2> QED
    BY <2>1, <2>2 DEF ApplyAllowOrigin
<1>2. after = Overlay(fields, allowed) /\ DOMAIN fields = DOMAIN cors.fields
  BY DEF ApplyCors
<1> HIDE DEF allowed, fields, after
<1>3. \A n \in {"Vary", "Connection", "Content-Length", "Content-Encoding"} :
        Lines(after, n) = Lines(allowed, n) /\ Get(after, n) = Get(allowed, n)
  BY <1>2 DEF Overlay, Lines, Get
<1>4. Follows(after, h)
  BY <1>1, <1>3 DEF Follows
<1> QED
  BY <1>1, <1>3, <1>4 DEF after

(* The response headers policy.                                            *)
LEMMA PolicyFollows ==
  ASSUME PlainHeaders, NEW d \in Distributions, NEW path \in DOMAIN d.behaviors,
         NEW h, IsSeq(Lines(h, "Vary")), NEW requestOrigin
  PROVE  LET b == d.behaviors[path]
             cors == b.responseHeaders.cors
             after == ApplyResponseHeaders(b, h, requestOrigin)
         IN  /\ Follows(after, h)
             /\ requestOrigin # <<>> /\ requestOrigin[1] \in cors.allowOrigins /\ "*" \notin cors.allowOrigins
                  => "Origin" \in Elements(Lines(after, "Vary"))
<1> DEFINE b == d.behaviors[path]
           policy == b.responseHeaders
           custom == policy.customHeaders
           removed == DelHeaders(h, policy.removeHeaders)
           n == Len(custom)
           set == CHOOSE f : SetsCustom(custom, removed, n, f)
           all == set[n]
           after == ApplyResponseHeaders(b, h, requestOrigin)
<1>1. n \in Nat /\ DOMAIN custom = 1 .. n
  <2>1. IsSeq(custom)
    BY DistributionsAssumption
  <2> HIDE DEF custom
  <2> QED
    BY <2>1 DEF IsSeq
<1>2. after = IF requestOrigin = <<>> THEN all ELSE ApplyCors(policy.cors, all, requestOrigin[1])
  BY DEF ApplyResponseHeaders, SetsCustom
<1>3. SetsCustom(custom, removed, n, set)
  BY <1>1, CustomExists
<1>4. Follows(removed, h)
  BY RemovingFollows DEF PlainHeaders
<1>5. \A i \in 1 .. n : custom[i].name \notin {"Connection", "Content-Length", "Content-Encoding"}
  BY <1>1 DEF PlainHeaders
<1>6. DOMAIN policy.cors.fields \cap {"Vary", "Connection", "Content-Length", "Content-Encoding"} = {}
  BY DistributionsAssumption
<1> HIDE DEF removed, custom, n, set
<1>7. Follows(all, h)
  <2> DEFINE T == {i \in 0 .. n : Follows(set[i], h)}
  <2>1. 0 \in T
    BY <1>1, <1>3, <1>4 DEF SetsCustom
  <2>2. ASSUME NEW i \in 1 .. n, i - 1 \in T
        PROVE  i \in T
    <3>1. i \in 0 .. n /\ i # 0
      BY <1>1
    <3>2. set[i] = SetUnless(set[i - 1], custom[i].name, custom[i].line, custom[i].override)
      BY <1>3, <3>1 DEF SetsCustom
    <3>3. Follows(set[i - 1], h)
      BY <2>2
    <3> QED
      BY <1>5, <3>1, <3>2, <3>3, SetUnlessFollows
  <2>3. n \in 0 .. n
    BY <1>1
  <2> HIDE DEF T
  <2>4. n \in T
    BY <1>1, <2>1, <2>2, <2>3, UpTo
  <2> QED
    BY <2>4 DEF T
<1> HIDE DEF all, after, b
<1>8. Follows(after, h)
  BY <1>2, <1>6, <1>7, CorsFollows
<1>9. ASSUME requestOrigin # <<>>, requestOrigin[1] \in policy.cors.allowOrigins, "*" \notin policy.cors.allowOrigins
      PROVE  "Origin" \in Elements(Lines(after, "Vary"))
  BY <1>2, <1>6, <1>7, <1>9, CorsFollows
<1> QED
  BY <1>8, <1>9 DEF after, b

-----------------------------------------------------------------------------
(* A function that returns its event as it is leaves headers alone that    *)
(* are not cookies and not CloudFront's.                                   *)
LEMMA OverlayOfNothing ==
  ASSUME NEW h, NEW n
  PROVE  LET g == Overlay(<<>>, DelHeaders(h, {}))
         IN  (n \in DOMAIN g <=> n \in DOMAIN h) /\ (n \in DOMAIN h => g[n] = h[n])
<1>1. DOMAIN <<>> = {}
  OBVIOUS
<1> DEFINE k == DelHeaders(h, {})
<1>2. DOMAIN k = DOMAIN h /\ \A m \in DOMAIN h : k[m] = h[m]
  BY DEF DelHeaders, Restrict
<1> HIDE DEF k
<1>3. DOMAIN Overlay(<<>>, k) = DOMAIN h /\ \A m \in DOMAIN h : Overlay(<<>>, k)[m] = k[m]
  BY <1>1, <1>2 DEF Overlay
<1> QED
  BY <1>2, <1>3 DEF k

LEMMA PassThroughRequest ==
  ASSUME NEW r, "headers" \in DOMAIN r, NEW made, DOMAIN made \subseteq CloudFrontHeaders, NEW uri,
         NEW n \in {"Origin", "Accept-Encoding"}
  PROVE  LET event == [Edited(PassThrough, NewRequestEvent(r, made)) EXCEPT !.uri = uri]
         IN  Get(ApplyToRequest(event, r).headers, n) = Get(r.headers, n)
<1> DEFINE plain == DelHeaders(r.headers, {"Cookie", "Set-Cookie"})
           all == SetHeader(Overlay(made, plain), "Host", <<r.host>>)
           kept == Overlay(<<>>, DelHeaders(all, {}))
           event == [Edited(PassThrough, NewRequestEvent(r, made)) EXCEPT !.uri = uri]
           headers == ApplyToRequest(event, r).headers
<1>1. event.headers = kept
  <2>1. NewRequestEvent(r, made) = [uri |-> r.path, querystring |-> QueryToFields(r.query), headers |-> all,
                                    cookies |-> CookiesToMap(Get(r.headers, "Cookie"))]
    BY DEF NewRequestEvent, HeadersToFields
  <2> HIDE DEF all
  <2> QED
    BY <2>1 DEF Edited, PassThrough
<1>2. \/ headers = event.headers
      \/ \E line : headers = SetHeader(event.headers, "Cookie", line)
  <2> HIDE DEF event
  <2> QED
    BY DEF ApplyToRequest
<1>3. n \notin DOMAIN made
  BY CloudFrontAssumption
<1>4. Get(plain, n) = Get(r.headers, n)
  BY DEF DelHeaders, Restrict, Get
<1> HIDE DEF plain
<1>5. Get(all, n) = Get(plain, n)
  <2>1. Get(Overlay(made, plain), n) = Get(plain, n)
    BY <1>3 DEF Overlay, Get
  <2> QED
    BY <2>1, SetHeaderElsewhere DEF Get
<1> HIDE DEF all
<1>6. Get(kept, n) = Get(all, n)
  BY OverlayOfNothing DEF Get
<1> HIDE DEF kept, event, headers
<1>7. Get(headers, n) = Get(kept, n)
  BY <1>1, <1>2, SetHeaderElsewhere DEF Get
<1> QED
  BY <1>4, <1>5, <1>6, <1>7 DEF headers, event

LEMMA PassThroughResponse ==
  ASSUME NEW status, NEW h, NEW n, n \notin {"Cookie", "Set-Cookie"}
  PROVE  LET g == HTTPHeaders(Edited(PassThrough, ResponseEvent(status, h)))
         IN  Lines(g, n) = Lines(h, n) /\ Get(g, n) = Get(h, n)
<1> DEFINE plain == DelHeaders(h, {"Cookie", "Set-Cookie"})
           all == Overlay(<<>>, plain)
           kept == Overlay(<<>>, DelHeaders(all, {}))
           event == Edited(PassThrough, ResponseEvent(status, h))
           g == HTTPHeaders(event)
<1>1. event.headers = kept
  <2>1. \E cookies : ResponseEvent(status, h) = [status |-> status, headers |-> all, cookies |-> cookies]
    BY DEF ResponseEvent, HeadersToFields
  <2> HIDE DEF all
  <2> QED
    BY <2>1 DEF Edited, PassThrough
<1>2. g = event.headers \/ \E lines : g = SetLines(event.headers, "Set-Cookie", lines)
  <2> HIDE DEF event
  <2> QED
    BY DEF HTTPHeaders
<1>3. (n \in DOMAIN plain <=> n \in DOMAIN h) /\ (n \in DOMAIN h => plain[n] = h[n])
  BY DEF DelHeaders, Restrict
<1> HIDE DEF plain
<1>4. (n \in DOMAIN all <=> n \in DOMAIN plain) /\ (n \in DOMAIN plain => all[n] = plain[n])
  <2>1. DOMAIN <<>> = {}
    OBVIOUS
  <2> QED
    BY <2>1 DEF Overlay
<1> HIDE DEF all
<1>5. (n \in DOMAIN kept <=> n \in DOMAIN all) /\ (n \in DOMAIN all => kept[n] = all[n])
  BY OverlayOfNothing
<1> HIDE DEF kept, event, g
<1>6. (n \in DOMAIN g <=> n \in DOMAIN kept) /\ (n \in DOMAIN kept => g[n] = kept[n])
  BY <1>1, <1>2 DEF SetLines
<1> QED
  BY <1>3, <1>4, <1>5, <1>6 DEF Lines, Get, g, event

-----------------------------------------------------------------------------
(* What writeResponse makes of a response.                                 *)

(* The headers say how the body is encoded, and how long it is if they say *)
(* that; its coding is one of those accepted.                              *)
Coherent(m, accepted) ==
  /\ DOMAIN m.body = {"content", "size", "codings", "part"}
  /\ m.body.codings = <<>> \/ \E e \in accepted : m.body.codings = <<e>>
  /\ Get(m.headers, "Content-Encoding") = m.body.codings
  /\ Get(m.headers, "Content-Length") \in {<<>>, <<m.body.size>>}

Unlisted(h) == IsSeq(Lines(h, "Vary")) /\ {"Vary", "Content-Encoding"} \cap ToSet(Get(h, "Connection")) = {}

LEMMA HopFollows ==
  ASSUME NEW h, Unlisted(h), NEW domain
  PROVE  LET out == AddVia(RemoveHopByHopHeaders(h), domain)
         IN  Follows(out, h) /\ Lines(out, "Vary") = Lines(h, "Vary")
<1> DEFINE names == ToSet(Get(h, "Connection")) \cup HopByHopHeaders
           removed == DelHeaders(h, names)
           out == AddVia(RemoveHopByHopHeaders(h), domain)
<1>1. "Content-Encoding" \notin names /\ "Vary" \notin names
  BY DEF Unlisted, HopByHopHeaders
<1>2. out = SetHeader(removed, "Via", Append(Get(removed, "Via"), domain))
  BY DEF AddVia, RemoveHopByHopHeaders
<1> HIDE DEF names
<1>3. Follows(removed, h)
  BY <1>1, RemovingFollows DEF Unlisted
<1>4. Lines(removed, "Vary") = Lines(h, "Vary")
  BY <1>1 DEF Lines, DelHeaders, Restrict
<1> HIDE DEF removed, out
<1>5. Follows(out, h)
  BY <1>2, <1>3, SettingFollows
<1>6. Lines(out, "Vary") = Lines(removed, "Vary")
  BY <1>2, SetHeaderElsewhere DEF Lines
<1> QED
  BY <1>4, <1>5, <1>6 DEF out

LEMMA WritingKeeps ==
  ASSUME NEW d, NEW b, NEW r, NEW m, Unlisted(m.headers)
  PROVE  LET a == WriteResponse(d, b, r, m)
         IN  /\ Elements(Lines(m.headers, "Vary")) \subseteq Elements(Lines(a.headers, "Vary"))
             /\ r.method = "HEAD" => a.body = NoBody
             /\ r.method # "HEAD" /\ Coherent(m, ToSet(Get(r.headers, "Accept-Encoding")))
                  => Coherent(a, ToSet(Get(r.headers, "Accept-Encoding")))
<1> DEFINE h == m.headers
           out == AddVia(RemoveHopByHopHeaders(h), d.domain)
           accept == Get(r.headers, "Accept-Encoding")
           a == WriteResponse(d, b, r, m)
<1>1. PICK coding, body :
        /\ coding = IF m.status = 200 /\ r.method # "HEAD" THEN ChooseEncoding(b, accept, h) ELSE "identity"
        /\ body = Compressed(m.body, coding)
        /\ coding = "identity" => a.headers = out /\ a.body = IF r.method = "HEAD" THEN NoBody ELSE m.body
        /\ coding # "identity" =>
             /\ a.body = body
             /\ a.headers = AddResponseVary(SetHeader(SetHeader(out, "Content-Encoding", <<coding>>),
                                                      "Content-Length", <<body.size>>), "Accept-Encoding")
  BY DEF WriteResponse
<1> DEFINE encoded == SetHeader(out, "Content-Encoding", <<coding>>)
           sized == SetHeader(encoded, "Content-Length", <<body.size>>)
           varied == AddResponseVary(sized, "Accept-Encoding")
<1>0. coding # "identity" => a.headers = varied /\ a.body = body
  BY <1>1
<1>2. Follows(out, h) /\ Lines(out, "Vary") = Lines(h, "Vary")
  BY HopFollows
<1>3. /\ r.method = "HEAD" => coding = "identity"
      /\ coding # "identity" => coding \in ToSet(accept) /\ Get(h, "Content-Encoding") = <<>>
  <2>1. ChooseEncoding(b, accept, h) # "identity" =>
          ChooseEncoding(b, accept, h) \in ToSet(accept) /\ Get(h, "Content-Encoding") = <<>>
    BY DEF ChooseEncoding
  <2> QED
    BY <1>1, <2>1
<1> HIDE DEF out, a, accept
<1>4. /\ Elements(Lines(sized, "Vary")) \subseteq Elements(Lines(varied, "Vary"))
      /\ \A n : n # "Vary" => Get(varied, n) = Get(sized, n)
      /\ Lines(sized, "Vary") = Lines(h, "Vary")
  <2>1. Lines(sized, "Vary") = Lines(out, "Vary")
    BY SetHeaderElsewhere DEF Lines
  <2> HIDE DEF sized
  <2>2. LET added == AddHeader(sized, "Vary", <<"Accept-Encoding">>)
        IN  Elements(Lines(sized, "Vary")) \subseteq Elements(Lines(added, "Vary"))
    <3>1. IsSeq(Lines(sized, "Vary"))
      BY <2>1, <1>2 DEF Unlisted
    <3>2. Follows(sized, sized)
      BY <3>1 DEF Follows
    <3> QED
      BY <3>2, AddingToVary
  <2>3. \A n : n # "Vary" => Get(AddHeader(sized, "Vary", <<"Accept-Encoding">>), n) = Get(sized, n)
    BY DEF AddHeader, SetLines, Get
  <2> QED
    BY <1>2, <2>1, <2>2, <2>3 DEF AddResponseVary
<1>5. Get(sized, "Content-Encoding") = <<coding>> /\ Get(sized, "Content-Length") = <<body.size>>
  <2>1. Get(encoded, "Content-Encoding") = <<coding>>
    BY SetHeaderThere DEF Get
  <2> HIDE DEF encoded
  <2> QED
    BY <2>1, SetHeaderThere, SetHeaderElsewhere DEF Get
<1> HIDE DEF varied, sized
<1>6. ASSUME r.method # "HEAD", Coherent(m, ToSet(accept))
      PROVE  Coherent(a, ToSet(accept))
  <2>1. CASE coding = "identity"
    <3>1. a.body = m.body /\ a.headers = out
      BY <1>1, <1>6, <2>1
    <3> QED
      BY <1>2, <1>6, <3>1 DEF Coherent, Follows
  <2>2. CASE coding # "identity"
    <3>1. m.body.codings = <<>> /\ coding \in ToSet(accept)
      BY <1>3, <1>6, <2>2 DEF Coherent
    <3>2. DOMAIN body = DOMAIN m.body /\ body.codings = Append(m.body.codings, coding)
      BY <1>1, <1>6 DEF Compressed, Coherent
    <3>3. body.codings = <<coding>>
      BY <3>1, <3>2
    <3>4. a.body = body /\ Get(a.headers, "Content-Encoding") = <<coding>> /\ Get(a.headers, "Content-Length") = <<body.size>>
      BY <1>0, <1>4, <1>5, <2>2
    <3> QED
      BY <1>6, <3>1, <3>2, <3>3, <3>4 DEF Coherent
  <2> QED
    BY <2>1, <2>2
<1>7. Elements(Lines(h, "Vary")) \subseteq Elements(Lines(a.headers, "Vary"))
  BY <1>0, <1>1, <1>2, <1>4
<1>8. r.method = "HEAD" => a.body = NoBody
  BY <1>1, <1>3
<1> QED
  BY <1>6, <1>7, <1>8 DEF a, accept

-----------------------------------------------------------------------------
(* What origins are asked for, and what they answer.                       *)

LEMMA NothingInNothing == ToSet(<<>>) = {} /\ IsSeq(<<>>)
BY DEF ToSet, IsSeq

(* An origin is offered no coding that the viewer does not accept.         *)
LEMMA EncodingAskedFor ==
  ASSUME NEW d, NEW b, NEW r, NEW made, DOMAIN made \subseteq CloudFrontHeaders,
         "Accept-Encoding" \notin DOMAIN b.origin.customHeaders
  PROVE  ToSet(Get(OriginRequest(d, b, r, made).headers, "Accept-Encoding")) \subseteq ToSet(Get(r.headers, "Accept-Encoding"))
<1> DEFINE accept == "Accept-Encoding"
           built == BuildOriginRequest(b, r, made)
           viewers == Get(r.headers, accept)
           always == Restricted(r.headers, AlwaysForwardedHeaders)
           over == Overlay(always, built.headers)
           forwarded == RemoveHopByHopHeaders(over)
           encoded == IF built.acceptEncoding = <<>> THEN forwarded ELSE SetHeader(forwarded, accept, built.acceptEncoding)
           headers == OriginHeaders(b.origin, built, r)
           chained == AppendXForwardedFor(headers, Get(r.headers, "X-Forwarded-For"), r.ip)
           identified == SetHeader(chained, "X-Amz-Cf-Id", <<r.id>>)
<1>1. OriginRequest(d, b, r, made).headers = IF b.origin.custom THEN AddVia(identified, d.domain) ELSE headers
  BY DEF OriginRequest
<1>2. headers = Overlay(b.origin.customHeaders, encoded)
  BY DEF OriginHeaders
<1>3. ToSet(built.acceptEncoding) \subseteq ToSet(viewers)
  <2> DEFINE gzip == IF "gzip" \in ToSet(viewers) THEN <<"gzip">> ELSE <<>>
             br == IF "br" \in ToSet(viewers) THEN <<"br">> ELSE <<>>
             enabled == (IF b.cache.gzip THEN gzip ELSE <<>>) \o (IF b.cache.brotli THEN br ELSE <<>>)
  <2>1. built.acceptEncoding \in {enabled, viewers, <<>>}
    <3>1. built.acceptEncoding = NormalizeAcceptEncoding(b, viewers)
      BY DEF BuildOriginRequest
    <3>2. NormalizeAcceptEncoding(b, viewers) \in {enabled, viewers, <<>>}
      BY DEF NormalizeAcceptEncoding
    <3> HIDE DEF built, enabled
    <3> QED
      BY <3>1, <3>2
  <2>2. ToSet(enabled) \subseteq ToSet(viewers)
    <3> DEFINE S == ToSet(viewers)
    <3> HIDE DEF S
    <3>1. gzip \in Seq(S) /\ br \in Seq(S) /\ <<>> \in Seq(S)
      <4>1. \A e \in S : <<e>> \in Seq(S)
        OBVIOUS
      <4>2. <<>> \in Seq(S)
        OBVIOUS
      <4> QED
        BY <4>1, <4>2, Zenon DEF S
    <3> HIDE DEF gzip, br
    <3>2. enabled \in Seq(S)
      <4>1. /\ (IF b.cache.gzip THEN gzip ELSE <<>>) \in Seq(S)
            /\ (IF b.cache.brotli THEN br ELSE <<>>) \in Seq(S)
        BY <3>1
      <4> QED
        BY <4>1, ConcatProperties
    <3> HIDE DEF enabled
    <3> QED
      BY <3>2 DEF ToSet, S
  <2> HIDE DEF built, enabled
  <2> QED
    BY <2>1, <2>2, NothingInNothing
<1>4. accept \notin DOMAIN built.headers
  <2>1. accept \notin CloudFrontHeaders
    BY CloudFrontAssumption
  <2>2. accept \notin DOMAIN ViewerHeadersOf(b, r.headers)
    BY DEF ViewerHeadersOf, Restrict, Separate
  <2> QED
    BY <2>1, <2>2, BuiltFromViewer
<1>5. accept \notin DOMAIN always
  BY DEF Restricted, Restrict, AlwaysForwardedHeaders
<1> HIDE DEF built, always
<1>6. accept \notin DOMAIN over
  BY <1>4, <1>5 DEF Overlay
<1> HIDE DEF over
<1>7. accept \notin DOMAIN forwarded
  BY <1>6 DEF RemoveHopByHopHeaders, DelHeaders, Restrict
<1> HIDE DEF forwarded
<1>8. Get(encoded, accept) \in {<<>>, built.acceptEncoding}
  BY <1>7, SetHeaderThere DEF Get
<1> HIDE DEF encoded
<1>9. Get(headers, accept) = Get(encoded, accept)
  BY <1>2 DEF Overlay, Get
<1> HIDE DEF headers
<1>10. Get(chained, accept) = Get(headers, accept)
  BY SetHeaderElsewhere DEF Get, AppendXForwardedFor
<1> HIDE DEF chained
<1>11. Get(identified, accept) = Get(chained, accept)
  BY SetHeaderElsewhere DEF Get
<1> HIDE DEF identified
<1>12. Get(AddVia(identified, d.domain), accept) = Get(identified, accept)
  BY SetHeaderElsewhere DEF Get, AddVia
<1> QED
  BY <1>1, <1>3, <1>8, <1>9, <1>10, <1>11, <1>12, NothingInNothing

PlainObject(x) == Unlisted(x.headers) /\ "Content-Encoding" \notin DOMAIN x.headers

LEMMA ObjectsArePlain ==
  ASSUME PlainHeaders
  PROVE  /\ \A x \in Objects : PlainObject(x)
         /\ PlainObject([size |-> 2000, headers |-> <<>>])
<1>1. ASSUME NEW x \in Objects PROVE PlainObject(x)
  <2>1. IsSeq(Lines(x.headers, "Vary"))
    BY ObjectsAssumption, NothingInNothing DEF IsHeaders, Lines
  <2> QED
    BY <2>1 DEF PlainHeaders, PlainObject, Unlisted
<1>2. DOMAIN <<>> = {}
  OBVIOUS
<1>3. Lines(<<>>, "Vary") = <<>> /\ Get(<<>>, "Connection") = <<>> /\ "Content-Encoding" \notin DOMAIN <<>>
  BY <1>2 DEF Lines, Get
<1>4. PlainObject([size |-> 2000, headers |-> <<>>])
  BY <1>3, NothingInNothing DEF PlainObject, Unlisted
<1> QED
  BY <1>1, <1>4

LEMMA WholeIsCoherent ==
  ASSUME NEW o, NEW x, PlainObject(x), NEW accepted, NEW codings,
         codings = <<>> \/ \E e \in accepted : codings = <<e>>
  PROVE  /\ Unlisted(Whole(o, x, codings).headers)
         /\ o.method # "HEAD" => Coherent(Whole(o, x, codings), accepted)
<1> DEFINE size == IF codings = <<>> THEN x.size ELSE x.size \div 10
           entity == SetHeader(x.headers, "Content-Length", <<size>>)
           encoded == IF codings = <<>> THEN entity ELSE SetHeader(entity, "Content-Encoding", codings)
           a == Whole(o, x, codings)
<1>1. /\ a.headers = encoded
      /\ o.method # "HEAD" => a.body = [content |-> o.path, size |-> size, codings |-> codings, part |-> FALSE]
  BY DEF Whole
<1> HIDE DEF size, a
<1>2. /\ \A n : n # "Content-Length" => Lines(entity, n) = Lines(x.headers, n) /\ Get(entity, n) = Get(x.headers, n)
      /\ Get(entity, "Content-Length") = <<size>>
  BY SetHeaderElsewhere, SetHeaderThere DEF Lines, Get
<1>3. Get(x.headers, "Content-Encoding") = <<>>
  BY DEF PlainObject, Get
<1> HIDE DEF entity
<1>4. /\ \A n : n # "Content-Encoding" => Lines(encoded, n) = Lines(entity, n) /\ Get(encoded, n) = Get(entity, n)
      /\ Get(encoded, "Content-Encoding") = codings
  BY <1>2, <1>3, SetHeaderElsewhere, SetHeaderThere DEF Lines, Get
<1> HIDE DEF encoded
<1>5. Unlisted(a.headers)
  BY <1>1, <1>2, <1>4 DEF PlainObject, Unlisted
<1>6. ASSUME o.method # "HEAD" PROVE Coherent(a, accepted)
  <2>1. DOMAIN a.body = {"content", "size", "codings", "part"} /\ a.body.codings = codings /\ a.body.size = size
    BY <1>1, <1>6
  <2> QED
    BY <1>1, <1>2, <1>4, <2>1 DEF Coherent
<1> QED
  BY <1>5, <1>6 DEF a

LEMMA AnswersAreCoherent ==
  ASSUME PlainHeaders, NEW o, NEW a \in OriginAnswers(o),
         NEW accepted, ToSet(Get(o.headers, "Accept-Encoding")) \subseteq accepted
  PROVE  Unlisted(a.headers) /\ (o.method # "HEAD" => Coherent(a, accepted))
<1>1. \/ \E x \in Objects : \E c : a = Whole(o, x, c) /\ (c = <<>> \/ \E e \in accepted : c = <<e>>)
      \/ \E x \in Objects : a = Partial(o, x)
      \/ a = NotModified
      \/ a = NotFound(o)
  BY DEF OriginAnswers
<1>2. CASE \E x \in Objects : \E c : a = Whole(o, x, c) /\ (c = <<>> \/ \E e \in accepted : c = <<e>>)
  <2>1. PICK x \in Objects : \E c : a = Whole(o, x, c) /\ (c = <<>> \/ \E e \in accepted : c = <<e>>)
    BY <1>2
  <2>2. PlainObject(x)
    BY ObjectsArePlain
  <2> QED
    BY <2>1, <2>2, WholeIsCoherent
<1>3. ASSUME NEW x \in Objects, a = Partial(o, x)
      PROVE  Unlisted(a.headers) /\ Coherent(a, accepted)
  <2> DEFINE entity == SetHeader(x.headers, "Content-Length", <<10>>)
  <2>1. /\ a.headers = entity
        /\ DOMAIN a.body = {"content", "size", "codings", "part"} /\ a.body.codings = <<>> /\ a.body.size = 10
    BY <1>3 DEF Partial
  <2>2. /\ \A n : n # "Content-Length" => Lines(entity, n) = Lines(x.headers, n) /\ Get(entity, n) = Get(x.headers, n)
        /\ Get(entity, "Content-Length") = <<10>>
    BY SetHeaderElsewhere, SetHeaderThere DEF Lines, Get
  <2>3. PlainObject(x) /\ Get(x.headers, "Content-Encoding") = <<>>
    BY ObjectsArePlain DEF PlainObject, Get
  <2> HIDE DEF entity
  <2> QED
    BY <2>1, <2>2, <2>3 DEF PlainObject, Unlisted, Coherent
<1>4. CASE a = NotModified
  <2>1. a.headers = <<>> /\ a.body = NoBody
    BY <1>4 DEF NotModified
  <2>2. DOMAIN <<>> = {}
    OBVIOUS
  <2>3. \A n : Get(a.headers, n) = <<>> /\ Lines(a.headers, n) = <<>>
    BY <2>1, <2>2 DEF Get, Lines
  <2>4. DOMAIN a.body = {"content", "size", "codings", "part"} /\ a.body.codings = <<>>
    BY <2>1 DEF NoBody
  <2> QED
    BY <2>3, <2>4, NothingInNothing DEF Unlisted, Coherent
<1>5. CASE a = NotFound(o)
  <2> DEFINE q == [o EXCEPT !.path = "missing"]
             x == [size |-> 2000, headers |-> <<>>]
             w == Whole(q, x, <<>>)
  <2>1. PlainObject(x)
    BY ObjectsArePlain
  <2> HIDE DEF x
  <2>2. q.method = o.method
    OBVIOUS
  <2>3. Unlisted(w.headers) /\ (o.method # "HEAD" => Coherent(w, accepted))
    BY <2>1, <2>2, WholeIsCoherent
  <2>4. a = [w EXCEPT !.status = 404]
    BY <1>5 DEF NotFound, x
  <2>5. \E status, headers, body : w = [status |-> status, headers |-> headers, body |-> body]
    BY DEF Whole
  <2> HIDE DEF w
  <2>6. a.headers = w.headers /\ a.body = w.body
    BY <2>4, <2>5
  <2> QED
    BY <2>3, <2>6 DEF Coherent
<1> QED
  BY <1>1, <1>2, <1>3, <1>4, <1>5

LEMMA ErrorPageIsCoherent ==
  ASSUME NEW status, NEW accepted
  PROVE  Unlisted(CFErrorPage(status).headers) /\ Coherent(CFErrorPage(status), accepted)
<1> DEFINE p == CFErrorPage(status)
           typed == SetHeader(<<>>, "Content-Type", <<"text/html">>)
           served == SetHeader(typed, "Server", <<"CloudFront">>)
<1>1. /\ p.headers = served
      /\ DOMAIN p.body = {"content", "size", "codings", "part"} /\ p.body.codings = <<>>
  BY DEF CFErrorPage
<1>2. DOMAIN <<>> = {}
  OBVIOUS
<1>3. DOMAIN served = {"Content-Type", "Server"}
  BY <1>2 DEF SetHeader, SetLines
<1> HIDE DEF p, served
<1>4. \A n \in {"Vary", "Connection", "Content-Encoding", "Content-Length"} :
        Lines(p.headers, n) = <<>> /\ Get(p.headers, n) = <<>>
  BY <1>1, <1>3 DEF Lines, Get
<1> QED
  BY <1>1, <1>4, NothingInNothing DEF Unlisted, Coherent, p

-----------------------------------------------------------------------------
(* From the origin to the viewer.  If the functions change nothing, what   *)
(* the origin is asked for is what the viewer accepts; the response keeps  *)
(* to that through every stage, and says Vary from the policy on.          *)
Unedited == {Behavior.viewerRequest, Behavior.viewerResponse} \subseteq Harmless
Accepted == ToSet(Get(viewer.headers, "Accept-Encoding"))

Fitting(m) == Unlisted(m.headers) /\ (viewer.method # "HEAD" => Coherent(m, Accepted))

Varies(h) ==
  LET allowed == Behavior.responseHeaders.cors.allowOrigins
  IN  "*" \notin allowed /\ ToSet(Get(req.headers, "Origin")) \cap allowed # {} => "Origin" \in Elements(Lines(h, "Vary"))

Delivered(a) ==
  /\ Varies(a.headers)
  /\ viewer.method = "HEAD" => a.body = NoBody
  /\ viewer.method # "HEAD" => Coherent(a, Accepted)

Negotiated ==
  /\ \A n \in {"Origin", "Accept-Encoding"} : Get(req.headers, n) = Get(viewer.headers, n)
  /\ pc \in {"errorResponse", "headers", "viewerResponse", "write"} => Fitting(resp)
  /\ pc \in {"viewerResponse", "write"} => Varies(resp.headers)
  /\ pc = "done" /\ resp.source # "none" => Delivered(answer)

NegotiationInv ==
  /\ DataInv
  /\ DOMAIN resp = {"status", "headers", "body", "source"}
  /\ pc \in {"viewerRequest", "fetch"} => resp.source = "none"
  /\ Unedited => Negotiated

LEMMA HarmlessKinds == NoFunction.kind = "none" /\ PassThrough.kind = "edit"
<1>1. NoFunction.kind = "none"
  BY DEF NoFunction
<1>2. PassThrough.kind = "edit"
  BY Zenon DEF PassThrough
<1> QED
  BY <1>1, <1>2

(* Everything a step leaves alone.                                         *)
LEMMA StepKeeps ==
  ASSUME DataInv, [Next]_vars
  PROVE  /\ Behavior' = Behavior /\ (Unedited' <=> Unedited) /\ Accepted' = Accepted
         /\ viewer' = viewer
         /\ \A m : Fitting(m)' <=> Fitting(m)
<1>1. UNCHANGED <<dist, viewer>>
  BY StepSends DEF DataInv
<1>2. Behavior' = Behavior /\ Accepted' = Accepted
  BY <1>1 DEF Behavior, Accepted
<1> QED
  BY <1>1, <1>2 DEF Unedited, Fitting

LEMMA HeldFits ==
  ASSUME NEW m, NEW source
  PROVE  /\ Fitting(Held(m, source)) <=> Fitting(m)
         /\ DOMAIN Held(m, source) = {"status", "headers", "body", "source"}
         /\ Held(m, source).source = source
<1>1. Held(m, source).headers = m.headers /\ Held(m, source).body = m.body
  BY DEF Held
<1> QED
  BY <1>1 DEF Held, Fitting, Coherent

LEMMA StatusFits ==
  ASSUME NEW m, NEW headers, NEW body, NEW was, m = [status |-> was, headers |-> headers, body |-> body], NEW status
  PROVE  Fitting([m EXCEPT !.status = status]) <=> Fitting(m)
<1>1. [m EXCEPT !.status = status].headers = m.headers /\ [m EXCEPT !.status = status].body = m.body
  OBVIOUS
<1> QED
  BY <1>1 DEF Fitting, Coherent

LEMMA RequestFunctionNegotiates ==
  ASSUME NegotiationInv, RunViewerRequest
  PROVE  NegotiationInv'
<1> DEFINE p == Behavior.viewerRequest
           event == NewRequestEvent(req, viewerHeaders)
<1>1. [Next]_vars
  BY DEF Next
<1>2. DataInv'
  BY <1>1, StepData DEF NegotiationInv
<1>3. pc = "viewerRequest" /\ resp.source = "none"
  <2>1. pc = "viewerRequest"
    BY Zenon DEF RunViewerRequest
  <2> QED
    BY <2>1 DEF NegotiationInv
<1>4. /\ Behavior' = Behavior /\ (Unedited' <=> Unedited) /\ viewer' = viewer
  BY <1>1, StepKeeps DEF NegotiationInv
<1>5. CASE p.kind = "respond"
  <2>1. resp' = FunctionResponse(p) /\ pc' = "headers"
    BY <1>5 DEF RunViewerRequest
  <2>2. DOMAIN FunctionResponse(p) = {"status", "headers", "body", "source"}
    BY DEF FunctionResponse
  <2>3. p \notin Harmless
    BY <1>5, HarmlessKinds DEF Harmless
  <2> QED
    BY <1>2, <1>4, <2>1, <2>2, <2>3 DEF NegotiationInv, Unedited
<1>6. CASE p.kind = "edit"
  <2>1. /\ resp' = resp /\ pc' = "fetch"
        /\ \E uri : req' = ApplyToRequest([Edited(p, event) EXCEPT !.uri = uri], req)
    <3> HIDE DEF event
    <3> QED
      BY <1>6, Zenon DEF RunViewerRequest, event
  <2>2. ASSUME Unedited, NEW n \in {"Origin", "Accept-Encoding"}
        PROVE  Get(req'.headers, n) = Get(viewer.headers, n)
    <3>1. p = PassThrough
      BY <1>6, <2>2, HarmlessKinds DEF Unedited, Harmless
    <3>2. PICK uri : req' = ApplyToRequest([Edited(PassThrough, event) EXCEPT !.uri = uri], req)
      BY <2>1, <3>1
    <3>3. DOMAIN viewerHeaders \subseteq CloudFrontHeaders
      BY SynthesizedDomain DEF NegotiationInv, DataInv, ExchangeInv
    <3>4. "headers" \in DOMAIN req
      BY RequestsAssumption DEF NegotiationInv, DataInv
    <3>5. Get(req'.headers, n) = Get(req.headers, n)
      BY <3>2, <3>3, <3>4, PassThroughRequest
    <3> QED
      BY <2>2, <3>5 DEF NegotiationInv, Negotiated
  <2> HIDE DEF p, event
  <2> QED
    BY <1>2, <1>3, <1>4, <2>1, <2>2 DEF NegotiationInv, Negotiated
<1>7. CASE req' = req /\ resp' = resp /\ pc' \in {"fetch", "done"}
  BY <1>2, <1>3, <1>4, <1>7 DEF NegotiationInv, Negotiated
<1>8. \/ p.kind \in {"respond", "edit"}
      \/ req' = req /\ resp' = resp /\ pc' \in {"fetch", "done"}
  <2> HIDE DEF p, event
  <2>1. \/ p.kind = "respond"
        \/ p.kind = "edit"
        \/ req' = req /\ resp' = resp /\ (pc' = "fetch" \/ pc' = "done")
    BY Zenon DEF RunViewerRequest, WriteCFError, p
  <2> QED
    BY <2>1
<1> QED
  BY <1>5, <1>6, <1>7, <1>8

LEMMA FetchingNegotiates ==
  ASSUME PlainHeaders, NegotiationInv, FetchOrigin
  PROVE  NegotiationInv'
<1> DEFINE o == Asking(viewer.path, req).request
<1>1. [Next]_vars
  BY DEF Next
<1>2. DataInv'
  BY <1>1, StepData DEF NegotiationInv
<1>3. req' = req /\ viewer' = viewer /\ resp.source = "none"
  BY <1>1, StepKeeps DEF FetchOrigin, NegotiationInv
<1>4. (Unedited' <=> Unedited) /\ \A m : Fitting(m)' <=> Fitting(m)
  BY <1>1, StepKeeps DEF NegotiationInv
<1>5. \/ \E a \in OriginAnswers(o) : resp' = Held(a, "origin") /\ pc' = "errorResponse"
      \/ resp' = Held(CFErrorPage(502), "origin") /\ pc' = "errorResponse"
      \/ resp' = resp /\ pc' = "done"
  BY DEF FetchOrigin, WriteCFError
<1>6. ASSUME NEW a \in OriginAnswers(o), Unedited PROVE Fitting(a)
  <2>1. o = OriginRequest(dist, Behavior, req, viewerHeaders)
    BY DEF Asking, Behavior
  <2> HIDE DEF o
  <2>2. o.method = viewer.method
    BY <2>1 DEF OriginRequest, NegotiationInv, DataInv
  <2>3. DOMAIN viewerHeaders \subseteq CloudFrontHeaders
    BY SynthesizedDomain DEF NegotiationInv, DataInv, ExchangeInv
  <2>4. "Accept-Encoding" \notin DOMAIN Behavior.origin.customHeaders
    BY DEF PlainHeaders, NegotiationInv, DataInv, Behavior
  <2>5. ToSet(Get(o.headers, "Accept-Encoding")) \subseteq ToSet(Get(req.headers, "Accept-Encoding"))
    BY <2>1, <2>3, <2>4, EncodingAskedFor
  <2>6. ToSet(Get(o.headers, "Accept-Encoding")) \subseteq Accepted
    BY <2>5, <1>6 DEF NegotiationInv, Negotiated, Accepted
  <2> QED
    BY <1>6, <2>2, <2>6, AnswersAreCoherent DEF Fitting
<1>7. Fitting(CFErrorPage(502))
  BY ErrorPageIsCoherent DEF Fitting
<1> HIDE DEF o
<1>8. CASE resp' = resp /\ pc' = "done"
  BY <1>2, <1>3, <1>4, <1>8 DEF NegotiationInv, Negotiated
<1>9. ASSUME NEW m, Unedited => Fitting(m), resp' = Held(m, "origin"), pc' = "errorResponse"
      PROVE  NegotiationInv'
  <2>1. DOMAIN resp' = {"status", "headers", "body", "source"}
    BY <1>9, HeldFits
  <2>2. Unedited => Fitting(resp')
    BY <1>9, HeldFits
  <2>3. Unedited => Fitting(resp)'
    BY <1>3, <2>2, <1>4, StepSends, <1>1 DEF Fitting, NegotiationInv, DataInv, Accepted
  <2> QED
    BY <1>2, <1>3, <1>4, <1>9, <2>1, <2>3 DEF NegotiationInv, Negotiated
<1> QED
  BY <1>5, <1>6, <1>7, <1>8, <1>9

(* The request for an error page accepts what the viewer accepts.          *)
LEMMA PageAnswersFit ==
  ASSUME PlainHeaders, NegotiationInv, Unedited, NEW page \in DOMAIN dist.behaviors,
         NEW a \in OriginAnswers(PageAsking(page).request)
  PROVE  Fitting(a)
<1> DEFINE r == PageRequest(page)
           b == dist.behaviors[page]
           o == PageAsking(page).request
<1>1. DOMAIN req = {"method", "path", "raw", "query", "headers", "host", "ip", "id"}
  BY RequestsAssumption DEF NegotiationInv, DataInv
<1>2. r.method = "GET" /\ r.headers = DelHeaders(req.headers, AlwaysForwardedHeaders)
  BY <1>1 DEF PageRequest
<1>3. o = OriginRequest(dist, b, r, viewerHeaders)
  BY DEF PageAsking, Asking
<1> HIDE DEF r, o
<1>4. Get(r.headers, "Accept-Encoding") = Get(req.headers, "Accept-Encoding")
  BY <1>2 DEF Get, DelHeaders, Restrict, AlwaysForwardedHeaders
<1>5. o.method = "GET"
  BY <1>2, <1>3 DEF OriginRequest
<1>6. DOMAIN viewerHeaders \subseteq CloudFrontHeaders
  BY SynthesizedDomain DEF NegotiationInv, DataInv, ExchangeInv
<1>7. "Accept-Encoding" \notin DOMAIN b.origin.customHeaders
  BY DEF PlainHeaders, NegotiationInv, DataInv
<1>8. ToSet(Get(o.headers, "Accept-Encoding")) \subseteq ToSet(Get(r.headers, "Accept-Encoding"))
  BY <1>3, <1>6, <1>7, EncodingAskedFor
<1>9. ToSet(Get(o.headers, "Accept-Encoding")) \subseteq Accepted
  BY <1>4, <1>8 DEF NegotiationInv, Negotiated, Accepted
<1>10. a \in OriginAnswers(o)
  BY DEF o
<1> QED
  BY <1>5, <1>9, <1>10, AnswersAreCoherent DEF Fitting

(* Most steps change only the response: what is left to show.              *)
LEMMA ResponseNegotiates ==
  ASSUME NegotiationInv, [Next]_vars, UNCHANGED req,
         pc \notin {"viewerRequest", "fetch"}, pc' \in {"headers", "viewerResponse", "write"},
         DOMAIN resp' = {"status", "headers", "body", "source"},
         Unedited => Fitting(resp'),
         Unedited => pc' = "headers" \/ Varies(resp'.headers)
  PROVE  NegotiationInv'
<1>1. DataInv'
  BY StepData DEF NegotiationInv
<1>2. Behavior' = Behavior /\ (Unedited' <=> Unedited) /\ Accepted' = Accepted /\ viewer' = viewer
  BY StepKeeps DEF NegotiationInv
<1>3. Unedited => Fitting(resp)'
  BY <1>2 DEF Fitting
<1>4. Unedited => pc' = "headers" \/ Varies(resp.headers)'
  BY <1>2 DEF Varies
<1> QED
  BY <1>1, <1>2, <1>3, <1>4 DEF NegotiationInv, Negotiated

LEMMA ErrorResponseNegotiates ==
  ASSUME PlainHeaders, NegotiationInv, ApplyErrorResponse
  PROVE  NegotiationInv'
<1>1. [Next]_vars /\ UNCHANGED req /\ pc = "errorResponse" /\ pc' = "headers"
  <2>1. [Next]_vars
    BY DEF Next
  <2>2. req' = req /\ pc = "errorResponse" /\ pc' = "headers"
    BY Zenon DEF ApplyErrorResponse
  <2> QED
    BY <2>1, <2>2
<1>2. ASSUME NEW e \in Matching(resp.status), e.page # ""
      PROVE  e.page \in DOMAIN dist.behaviors
  BY <1>2, DistributionsAssumption, Zenon DEF Matching, NegotiationInv, DataInv
<1>3. DOMAIN resp = {"status", "headers", "body", "source"} /\ (Unedited => Fitting(resp))
  BY <1>1 DEF NegotiationInv, Negotiated
<1>4. ASSUME NEW e, resp' = [resp EXCEPT !.status = e.response]
      PROVE  DOMAIN resp' = DOMAIN resp /\ resp'.headers = resp.headers /\ resp'.body = resp.body
  BY <1>3, <1>4
<1>5. ASSUME NEW e, e.page \in DOMAIN dist.behaviors,
             NEW a \in OriginAnswers(PageAsking(e.page).request), resp' = Held([a EXCEPT !.status = e.response], "page")
      PROVE  DOMAIN resp' = DOMAIN resp /\ (Unedited => Fitting(resp'))
  <2>1. Unedited => Fitting(a)
    BY <1>5, PageAnswersFit
  <2>2. Fitting([a EXCEPT !.status = e.response]) <=> Fitting(a)
    BY AnswersAreMessages, StatusFits
  <2> QED
    BY <1>3, <1>5, <2>1, <2>2, HeldFits
<1>6. ASSUME NEW e, resp' = Held(CFErrorPage(e.response), "page")
      PROVE  DOMAIN resp' = DOMAIN resp /\ Fitting(resp')
  <2>1. Fitting(CFErrorPage(e.response))
    BY ErrorPageIsCoherent DEF Fitting
  <2> QED
    BY <1>3, <1>6, <2>1, HeldFits
<1>7. \/ resp' = resp
      \/ \E e \in Matching(resp.status) :
           \/ resp' = [resp EXCEPT !.status = e.response]
           \/ /\ e.page \in DOMAIN dist.behaviors
              /\ \E a \in OriginAnswers(PageAsking(e.page).request) :
                   resp' = Held([a EXCEPT !.status = e.response], "page")
           \/ resp' = Held(CFErrorPage(e.response), "page")
  BY <1>2, Zenon DEF ApplyErrorResponse
<1>8. DOMAIN resp' = {"status", "headers", "body", "source"} /\ (Unedited => Fitting(resp'))
  <2>1. CASE resp'.headers = resp.headers /\ resp'.body = resp.body /\ DOMAIN resp' = DOMAIN resp
    BY <1>3, <2>1 DEF Fitting, Coherent
  <2> QED
    BY <1>3, <1>4, <1>5, <1>6, <1>7, <2>1
<1> QED
  BY <1>1, <1>8, ResponseNegotiates

LEMMA FollowingFits ==
  ASSUME NEW m, NEW g, Follows(g, m.headers), Fitting(m),
         NEW n, n.headers = g, n.body = m.body
  PROVE  Fitting(n)
<1>1. Unlisted(g)
  BY NothingInNothing DEF Fitting, Unlisted, Follows
<1> QED
  BY <1>1 DEF Fitting, Coherent, Follows

LEMMA HeadersNegotiate ==
  ASSUME PlainHeaders, NegotiationInv, SetResponseHeaders
  PROVE  NegotiationInv'
<1> DEFINE origin == Get(req.headers, "Origin")
           after == ApplyResponseHeaders(Behavior, resp.headers, origin)
<1>1. [Next]_vars /\ UNCHANGED req
  BY DEF Next, SetResponseHeaders
<1>2. pc = "headers" /\ pc' \in {"viewerResponse", "write"}
  BY DEF SetResponseHeaders
<1>3. DOMAIN resp = {"status", "headers", "body", "source"} /\ (Unedited => Fitting(resp))
  BY <1>2 DEF NegotiationInv, Negotiated
<1>4. resp' = [resp EXCEPT !.headers = after]
  BY DEF SetResponseHeaders
<1> HIDE DEF after
<1>5. DOMAIN resp' = DOMAIN resp /\ resp'.headers = after /\ resp'.body = resp.body
  BY <1>3, <1>4
<1>6. ASSUME Unedited PROVE Fitting(resp') /\ Varies(resp'.headers)
  <2>1. IsSeq(Lines(resp.headers, "Vary"))
    BY <1>3, <1>6 DEF Fitting, Unlisted
  <2>2. dist \in Distributions /\ viewer.path \in DOMAIN dist.behaviors
    BY DEF NegotiationInv, DataInv
  <2>3. /\ Follows(after, resp.headers)
        /\ LET cors == Behavior.responseHeaders.cors
           IN  origin # <<>> /\ origin[1] \in cors.allowOrigins /\ "*" \notin cors.allowOrigins
                 => "Origin" \in Elements(Lines(after, "Vary"))
    <3> HIDE DEF origin
    <3> QED
      BY <2>1, <2>2, PolicyFollows DEF after, Behavior
  <2>4. origin = <<>> \/ origin = <<origin[1]>>
    <3>1. origin = Get(viewer.headers, "Origin")
      BY <1>6 DEF NegotiationInv, Negotiated
    <3>2. viewer \in Requests
      BY DEF NegotiationInv, DataInv
    <3> HIDE DEF origin
    <3> QED
      BY <3>1, <3>2, RequestsAssumption DEF Get
  <2>5. Fitting(resp')
    BY <1>3, <1>5, <1>6, <2>3, FollowingFits
  <2>6. Varies(after)
    <3> HIDE DEF origin
    <3>1. ASSUME NEW o \in ToSet(origin) PROVE origin # <<>> /\ o = origin[1]
      <4>1. origin # <<>>
        BY <3>1, NothingInNothing
      <4>2. ToSet(<<origin[1]>>) = {origin[1]}
        BY OneSent
      <4> QED
        BY <2>4, <3>1, <4>1, <4>2
    <3> QED
      BY <2>3, <3>1 DEF Varies, origin
  <2> QED
    BY <1>5, <2>5, <2>6
<1> QED
  BY <1>1, <1>2, <1>3, <1>5, <1>6, ResponseNegotiates

Restyled(m, status, headers) == [m EXCEPT !.status = status, !.headers = headers]

LEMMA RestyledKeepsTheRest ==
  ASSUME NEW m, DOMAIN m = {"status", "headers", "body", "source"}, NEW status, NEW headers
  PROVE  LET n == Restyled(m, status, headers)
         IN  DOMAIN n = DOMAIN m /\ n.headers = headers /\ n.body = m.body
BY DEF Restyled

LEMMA ResponseFunctionNegotiates ==
  ASSUME NegotiationInv, RunViewerResponse
  PROVE  NegotiationInv'
<1> DEFINE p == Behavior.viewerResponse
<1>1. [Next]_vars /\ UNCHANGED req
  BY DEF Next, RunViewerResponse
<1>2. pc = "viewerResponse"
  BY DEF RunViewerResponse
<1>3. DOMAIN resp = {"status", "headers", "body", "source"} /\ (Unedited => Fitting(resp) /\ Varies(resp.headers))
  BY <1>2 DEF NegotiationInv, Negotiated
<1>4. CASE p.kind = "fail"
  <2>1. resp' = resp /\ pc' = "done"
    BY <1>4 DEF RunViewerResponse, WriteCFError
  <2>2. ~Unedited
    BY <1>4, HarmlessKinds DEF Unedited, Harmless
  <2>3. DataInv' /\ ~Unedited'
    BY <1>1, <2>2, StepData, StepKeeps DEF NegotiationInv
  <2> QED
    BY <1>3, <2>1, <2>3 DEF NegotiationInv
<1>5. CASE p.kind = "edit"
  <2> DEFINE g == HTTPHeaders(Edited(p, ResponseEvent(resp.status, resp.headers)))
  <2>1. pc' = "write" /\ \E status : resp' = Restyled(resp, status, g)
    <3>1. pc' = "write"
      BY <1>5, Zenon DEF RunViewerResponse
    <3>2. \E status : resp' = Restyled(resp, status, g)
      BY <1>5, Zenon DEF RunViewerResponse, Restyled
    <3> HIDE DEF g
    <3> QED
      BY <3>1, <3>2
  <2> HIDE DEF g
  <2>2. PICK status : resp' = Restyled(resp, status, g)
    BY <2>1
  <2>3. DOMAIN resp' = DOMAIN resp /\ resp'.headers = g /\ resp'.body = resp.body
    BY <1>3, <2>2, RestyledKeepsTheRest
  <2>4. ASSUME Unedited PROVE Fitting(resp') /\ Varies(resp'.headers)
    <3>1. p = PassThrough
      BY <1>5, <2>4, HarmlessKinds DEF Unedited, Harmless
    <3>2. \A n \in {"Vary", "Connection", "Content-Encoding", "Content-Length"} :
            Lines(g, n) = Lines(resp.headers, n) /\ Get(g, n) = Get(resp.headers, n)
      <4> HIDE DEF p
      <4> QED
        BY <3>1, PassThroughResponse DEF g
    <3>3. Fitting(resp')
      BY <1>3, <2>3, <2>4, <3>2 DEF Fitting, Unlisted, Coherent
    <3>4. Varies(g)
      BY <1>3, <2>4, <3>2 DEF Varies
    <3> QED
      BY <2>3, <3>3, <3>4
  <2> QED
    BY <1>1, <1>2, <1>3, <2>1, <2>3, <2>4, ResponseNegotiates
<1> QED
  BY <1>4, <1>5 DEF RunViewerResponse

LEMMA WritingNegotiates ==
  ASSUME NegotiationInv, Write
  PROVE  NegotiationInv'
<1> DEFINE a == WriteResponse(dist, Behavior, req, resp)
<1>1. [Next]_vars /\ UNCHANGED req /\ UNCHANGED resp
  BY DEF Next, Write
<1>2. pc = "write" /\ pc' = "done" /\ answer' = a
  BY DEF Write
<1>3. DataInv'
  BY <1>1, StepData DEF NegotiationInv
<1>4. Behavior' = Behavior /\ (Unedited' <=> Unedited) /\ Accepted' = Accepted /\ viewer' = viewer
  BY <1>1, StepKeeps DEF NegotiationInv
<1> HIDE DEF a
<1>5. ASSUME Unedited PROVE Delivered(a)
  <2>1. Fitting(resp) /\ Varies(resp.headers) /\ ToSet(Get(req.headers, "Accept-Encoding")) = Accepted
    BY <1>2, <1>5 DEF NegotiationInv, Negotiated, Accepted
  <2>2. req.method = viewer.method
    BY DEF NegotiationInv, DataInv
  <2>3. /\ Elements(Lines(resp.headers, "Vary")) \subseteq Elements(Lines(a.headers, "Vary"))
        /\ req.method = "HEAD" => a.body = NoBody
        /\ req.method # "HEAD" /\ Coherent(resp, ToSet(Get(req.headers, "Accept-Encoding")))
             => Coherent(a, ToSet(Get(req.headers, "Accept-Encoding")))
    <3>1. Unlisted(resp.headers)
      BY <2>1 DEF Fitting
    <3> QED
      BY <3>1, WritingKeeps DEF a
  <2> QED
    BY <2>1, <2>2, <2>3 DEF Delivered, Varies, Fitting
<1>6. Unedited => Delivered(answer)'
  BY <1>1, <1>2, <1>4, <1>5 DEF Delivered, Varies
<1> QED
  BY <1>1, <1>2, <1>3, <1>4, <1>6 DEF NegotiationInv, Negotiated

LEMMA InitNegotiates == Init => NegotiationInv
<1> SUFFICES ASSUME Init PROVE NegotiationInv
  OBVIOUS
<1>1. DataInv
  BY InitData
<1>2. req = viewer /\ pc = "viewerRequest" /\ resp = NoResponse
  BY DEF Init
<1>3. DOMAIN NoResponse = {"status", "headers", "body", "source"} /\ NoResponse.source = "none"
  BY HeldFits DEF NoResponse
<1> QED
  BY <1>1, <1>2, <1>3 DEF NegotiationInv, Negotiated

LEMMA StepNegotiates ==
  ASSUME PlainHeaders, NegotiationInv, [Next]_vars
  PROVE  NegotiationInv'
<1>1. CASE UNCHANGED vars
  <2>1. DataInv'
    BY StepData DEF NegotiationInv
  <2>2. UNCHANGED <<dist, viewer, req, pc, resp, answer>>
    BY <1>1 DEF vars
  <2>3. (Unedited' <=> Unedited) /\ (Negotiated' <=> Negotiated)
    BY <2>2 DEF Unedited, Negotiated, Behavior, Fitting, Accepted, Varies, Delivered
  <2> QED
    BY <2>1, <2>2, <2>3 DEF NegotiationInv
<1> QED
  BY <1>1, RequestFunctionNegotiates, FetchingNegotiates, ErrorResponseNegotiates, HeadersNegotiate,
     ResponseFunctionNegotiates, WritingNegotiates DEF Next

(* If the functions change nothing and neither origins nor policies have   *)
(* their own idea of the encoding (PlainHeaders), a viewer gets a body     *)
(* encoded as it accepts and as the headers say, of the length they say:   *)
(* through the cache policy, what the origin makes of it, an error page,   *)
(* the response headers policy and localfront's own compression.           *)
THEOREM EncodingStaysNegotiated ==
  ASSUME PlainHeaders
  PROVE  Spec => []EncodingIsNegotiated
<1>1. Init => NegotiationInv
  BY InitNegotiates
<1>2. NegotiationInv /\ [Next]_vars => NegotiationInv'
  BY StepNegotiates
<1>3. NegotiationInv => EncodingIsNegotiated
  <2> SUFFICES ASSUME NegotiationInv, Answered, answer.body # NoBody
               PROVE  /\ ToSet(answer.body.codings) \subseteq Accepted
                      /\ Get(answer.headers, "Content-Encoding") = answer.body.codings
                      /\ Get(answer.headers, "Content-Length") \in {<<>>, <<answer.body.size>>}
    BY DEF EncodingIsNegotiated, Accepted
  <2>1. Delivered(answer)
    BY DEF NegotiationInv, Negotiated, Answered, Unedited
  <2>2. Coherent(answer, Accepted)
    BY <2>1 DEF Delivered
  <2>3. ToSet(answer.body.codings) \subseteq Accepted
    <3>1. answer.body.codings = <<>> \/ \E e \in Accepted : answer.body.codings = <<e>>
      BY <2>2 DEF Coherent
    <3>2. \A e : ToSet(<<e>>) = {e}
      BY OneSent
    <3> QED
      BY <3>1, <3>2, NothingInNothing
  <2> QED
    BY <2>2, <2>3 DEF Coherent
<1> QED
  BY <1>1, <1>2, <1>3, PTL DEF Spec

(* Under the same conditions, a response whose Access-Control-Allow-Origin *)
(* depends on the viewer's origin says Vary: Origin when it is written,    *)
(* after the hop-by-hop headers are gone and compression added its own.    *)
THEOREM CorsStaysVaried ==
  ASSUME PlainHeaders
  PROVE  Spec => []CorsVariesOnOrigin
<1>1. Init => NegotiationInv
  BY InitNegotiates
<1>2. NegotiationInv /\ [Next]_vars => NegotiationInv'
  BY StepNegotiates
<1>3. NegotiationInv => CorsVariesOnOrigin
  <2> SUFFICES ASSUME NegotiationInv, Answered PROVE Varies(answer.headers)
    BY DEF CorsVariesOnOrigin, Varies
  <2> QED
    BY DEF NegotiationInv, Negotiated, Answered, Unedited, Delivered
<1> QED
  BY <1>1, <1>2, <1>3, PTL DEF Spec

-----------------------------------------------------------------------------
(* What a policy selects.  First, that what goes through a list element by *)
(* element has a result.                                                   *)
Steps(step, n, S) == n \in Nat /\ step \in [(1 .. n) \X S -> S]

LEMMA Iterated ==
  ASSUME NEW n, NEW S, NEW step, Steps(step, n, S), NEW first, first \in S
  PROVE  \E f \in [0 .. n -> S] : f[0] = first /\ \A i \in 1 .. n : f[i] = step[<<i, f[i - 1]>>]
<1>0. n \in Nat /\ step \in [(1 .. n) \X S -> S]
  BY DEF Steps
<1> DEFINE Begun(k, f) == f[0] = first /\ \A i \in 1 .. k : f[i] = step[<<i, f[i - 1]>>]
           T == {k \in 0 .. n : \E f \in [0 .. n -> S] : Begun(k, f)}
<1>1. 0 \in T
  <2> DEFINE always == [i \in 0 .. n |-> first]
  <2>1. always \in [0 .. n -> S] /\ always[0] = first /\ 0 \in 0 .. n
    BY <1>0
  <2> HIDE DEF always
  <2>2. Begun(0, always)
    BY <2>1
  <2> QED
    BY <2>1, <2>2
<1>2. ASSUME NEW m \in 1 .. n, m - 1 \in T
      PROVE  m \in T
  <2>1. PICK f \in [0 .. n -> S] : Begun(m - 1, f)
    BY <1>2
  <2> DEFINE v == step[<<m, f[m - 1]>>]
             h == [f EXCEPT ![m] = v]
  <2>2. m - 1 \in 0 .. n /\ m \in 0 .. n /\ m # 0 /\ 0 \in 0 .. n
    BY <1>0
  <2>3. v \in S
    <3>1. <<m, f[m - 1]>> \in (1 .. n) \X S
      BY <2>2
    <3> QED
      BY <1>0, <3>1
  <2>4. h \in [0 .. n -> S] /\ h[m] = v /\ \A i \in 0 .. n : i # m => h[i] = f[i]
    <3> HIDE DEF v
    <3> QED
      BY <2>2, <2>3
  <2> HIDE DEF h
  <2>5. h[0] = first
    BY <2>1, <2>2, <2>4
  <2>6. ASSUME NEW i \in 1 .. m PROVE h[i] = step[<<i, h[i - 1]>>]
    <3>1. i - 1 \in 0 .. n /\ i - 1 # m /\ i \in 0 .. n
      BY <1>0, <2>2
    <3>2. h[i - 1] = f[i - 1]
      BY <2>4, <3>1
    <3>3. CASE i = m
      BY <2>4, <3>2, <3>3
    <3>4. CASE i # m
      <4>1. i \in 1 .. m - 1
        BY <1>0, <3>4
      <4> QED
        BY <2>1, <2>4, <3>1, <3>2, <4>1
    <3> QED
      BY <3>3, <3>4
  <2> QED
    BY <2>2, <2>4, <2>5, <2>6
<1>3. n \in 0 .. n
  BY <1>0
<1> HIDE DEF T
<1>4. n \in T
  BY <1>0, <1>1, <1>2, <1>3, UpTo
<1> QED
  BY <1>4 DEF T

Keeps(s, set, f) ==
  f = [i \in 0 .. Len(s) |->
         IF i = 0 THEN <<>> ELSE IF s[i] \in set THEN Append(f[i - 1], s[i]) ELSE f[i - 1]]

LEMMA KeptUnfolds ==
  ASSUME NEW s, IsSeq(s), NEW set
  PROVE  \E g : /\ Kept(s, set) = g[Len(s)] /\ g[0] = <<>>
               /\ \A i \in 1 .. Len(s) : g[i] = IF s[i] \in set THEN Append(g[i - 1], s[i]) ELSE g[i - 1]
<1> DEFINE n == Len(s)
           E == Seq(ToSet(s))
           After(i, v) == IF s[i] \in set THEN Append(v, s[i]) ELSE v
           step == [iv \in (1 .. n) \X E |-> After(iv[1], iv[2])]
<1>1. n \in Nat /\ DOMAIN s = 1 .. n /\ ToSet(s) = {s[j] : j \in 1 .. n}
  <2>1. s \in Seq(ToSet(s))
    BY DEF IsSeq
  <2>2. n \in Nat /\ DOMAIN s = 1 .. n
    BY <2>1
  <2> QED
    BY <2>2 DEF ToSet
<1> HIDE DEF n
<1>2. <<>> \in E /\ \A i \in 1 .. n : \A v \in E : After(i, v) \in E
  <2> DEFINE S == ToSet(s)
  <2>1. \A i \in 1 .. n : s[i] \in S
    BY <1>1
  <2> HIDE DEF S
  <2> QED
    BY <2>1 DEF S
<1> HIDE DEF E
<1>3. PICK f \in [0 .. n -> E] : f[0] = <<>> /\ \A i \in 1 .. n : f[i] = After(i, f[i - 1])
  <2>1. step \in [(1 .. n) \X E -> E]
    BY <1>2
  <2>2. \A i \in 1 .. n : \A v \in E : step[<<i, v>>] = After(i, v)
    OBVIOUS
  <2>3. PICK f \in [0 .. n -> E] : f[0] = <<>> /\ \A i \in 1 .. n : f[i] = step[<<i, f[i - 1]>>]
    <3> HIDE DEF step
    <3>1. Steps(step, n, E) /\ <<>> \in E
      BY <1>1, <1>2, <2>1 DEF Steps
    <3> QED
      BY <3>1, Iterated
  <2> HIDE DEF step
  <2>4. \A i \in 1 .. n : f[i - 1] \in E
    BY <1>1
  <2> HIDE DEF After
  <2> QED
    BY <2>2, <2>3, <2>4
<1>4. \E g : Keeps(s, set, g)
  <2>1. \A i \in 0 .. n : f[i] = IF i = 0 THEN <<>> ELSE After(i, f[i - 1])
    <3>1. \A i \in 0 .. n : i = 0 \/ i \in 1 .. n
      BY <1>1
    <3>2. \A i \in 1 .. n : i # 0
      BY <1>1
    <3> HIDE DEF After
    <3> QED
      BY <1>3, <3>1, <3>2
  <2>2. f = [i \in 0 .. n |-> IF i = 0 THEN <<>> ELSE After(i, f[i - 1])]
    BY <2>1
  <2> QED
    BY <2>2 DEF Keeps, n
<1> DEFINE g == CHOOSE g : Keeps(s, set, g)
<1>5. Kept(s, set) = g[n]
  BY DEF Kept, Keeps, n
<1>6. Keeps(s, set, g)
  BY <1>4
<1> HIDE DEF g
<1>7. g[0] = <<>> /\ \A i \in 1 .. n : g[i] = After(i, g[i - 1])
  <2>1. \A i \in 0 .. n : g[i] = IF i = 0 THEN <<>> ELSE After(i, g[i - 1])
    BY <1>6 DEF Keeps, n
  <2> HIDE DEF After
  <2> QED
    BY <1>1, <2>1
<1> QED
  BY <1>5, <1>7 DEF n

LEMMA KeptElements ==
  ASSUME NEW s, IsSeq(s), NEW set
  PROVE  IsSeq(Kept(s, set)) /\ ToSet(Kept(s, set)) = ToSet(s) \cap set
<1> DEFINE n == Len(s)
<1>1. n \in Nat /\ DOMAIN s = 1 .. n /\ ToSet(s) = {s[j] : j \in 1 .. n}
  <2>1. n \in Nat /\ DOMAIN s = 1 .. n
    BY DEF IsSeq
  <2> QED
    BY <2>1 DEF ToSet
<1>2. PICK g : /\ Kept(s, set) = g[n] /\ g[0] = <<>>
               /\ \A i \in 1 .. n : g[i] = IF s[i] \in set THEN Append(g[i - 1], s[i]) ELSE g[i - 1]
  BY KeptUnfolds
<1> HIDE DEF n
<1> DEFINE T == {i \in 0 .. n : IsSeq(g[i]) /\ ToSet(g[i]) = {s[j] : j \in 1 .. i} \cap set}
<1>3. 0 \in T
  BY <1>1, <1>2, NothingInNothing
<1>4. ASSUME NEW i \in 1 .. n, i - 1 \in T
      PROVE  i \in T
  <2>1. IsSeq(g[i - 1]) /\ ToSet(g[i - 1]) = {s[j] : j \in 1 .. i - 1} \cap set
    BY <1>4
  <2>2. {s[j] : j \in 1 .. i} = {s[j] : j \in 1 .. i - 1} \cup {s[i]} /\ i \in 0 .. n
    <3>1. 1 .. i = (1 .. i - 1) \cup {i} /\ i \in 0 .. n
      BY <1>1
    <3> QED
      BY <3>1
  <2>3. g[i] = IF s[i] \in set THEN Append(g[i - 1], s[i]) ELSE g[i - 1]
    BY <1>2
  <2>4. CASE s[i] \in set
    <3>1. g[i] = Append(g[i - 1], s[i])
      BY <2>3, <2>4
    <3>2. g[i - 1] \in Seq(ToSet(g[i - 1]))
      BY <2>1 DEF IsSeq
    <3>3. /\ ToSet(Append(g[i - 1], s[i])) = ToSet(g[i - 1]) \cup {s[i]}
          /\ Append(g[i - 1], s[i]) \in Seq(ToSet(g[i - 1]) \cup {s[i]})
      BY <3>2, AnotherSent
    <3>4. ToSet(g[i]) = ToSet(g[i - 1]) \cup {s[i]} /\ IsSeq(g[i])
      BY <3>1, <3>3 DEF IsSeq
    <3> QED
      BY <2>1, <2>2, <2>4, <3>4
  <2>5. CASE s[i] \notin set
    BY <2>1, <2>2, <2>3, <2>5
  <2> QED
    BY <2>4, <2>5
<1>5. n \in 0 .. n
  BY <1>1
<1> HIDE DEF T
<1>6. n \in T
  BY <1>1, <1>3, <1>4, <1>5, UpTo
<1> QED
  BY <1>1, <1>2, <1>6 DEF T

-----------------------------------------------------------------------------
(* What an origin's request has of the viewer's.                           *)
Listed(sel) == sel.behavior \in {"none", "whitelist", "all", "allExcept"}

LEMMA ListIsTaken ==
  ASSUME NEW sel, Listed(sel), NEW names, NEW n
  PROVE  n \in Taken(sel, names) <=> n \in names /\ ListSelected(sel, n)
BY DEF Listed, Taken, ListSelected

LEMMA HeaderIsTaken ==
  ASSUME NEW b, b.cache.headers.behavior \in {"none", "whitelist", "all"}, NEW names, NEW n
  PROVE  n \in Taken(b.cache.headers, names) \cup Taken(b.orp.headers, names) <=> n \in names /\ ForwardsHeader(b, n)
<1>1. n \in Taken(b.cache.headers, names) <=> n \in names /\ HeaderSelected(b.cache.headers, n, FALSE)
  BY DEF Taken, HeaderSelected
<1>2. n \in Taken(b.orp.headers, names) <=> n \in names /\ HeaderSelected(b.orp.headers, n, TRUE)
  BY DEF Taken, HeaderSelected
<1> QED
  BY <1>1, <1>2 DEF ForwardsHeader

LEMMA PairsAreTaken ==
  ASSUME NEW pairs, IsSeq(pairs), NEW a, Listed(a), NEW c, Listed(c)
  PROVE  LET kept == Kept(pairs, {p \in ToSet(pairs) : ListSelected(a, p.name) \/ ListSelected(c, p.name)})
         IN  /\ ToSet(kept) \subseteq ToSet(pairs)
             /\ Named(kept) = Taken(a, Named(pairs)) \cup Taken(c, Named(pairs))
<1> DEFINE set == {p \in ToSet(pairs) : ListSelected(a, p.name) \/ ListSelected(c, p.name)}
           kept == Kept(pairs, set)
           both == Taken(a, Named(pairs)) \cup Taken(c, Named(pairs))
<1>1. ToSet(kept) = set
  BY KeptElements
<1> HIDE DEF kept
<1>2. ASSUME NEW n PROVE n \in both <=> n \in Named(pairs) /\ (ListSelected(a, n) \/ ListSelected(c, n))
  BY ListIsTaken
<1>3. ASSUME NEW n PROVE n \in Named(kept) <=> n \in Named(pairs) /\ (ListSelected(a, n) \/ ListSelected(c, n))
  BY <1>1 DEF Named
<1> HIDE DEF both
<1>4. Named(kept) = both
  BY <1>2, <1>3
<1> QED
  BY <1>1, <1>4 DEF kept, both

SameAt(g, h, n) == (n \in DOMAIN g <=> n \in DOMAIN h) /\ (n \in DOMAIN h => g[n] = h[n])

LEMMA SameElsewhere ==
  ASSUME NEW h, NEW n, NEW line, NEW k, k # n
  PROVE  SameAt(SetHeader(h, n, line), h, k)
BY SetHeaderElsewhere DEF SameAt

LEMMA SameAtIsTransitive ==
  ASSUME NEW f, NEW g, NEW h, NEW n, SameAt(f, g, n), SameAt(g, h, n)
  PROVE  SameAt(f, h, n)
BY DEF SameAt

LEMMA SameLines ==
  ASSUME NEW g, NEW h, NEW n, SameAt(g, h, n)
  PROVE  Lines(g, n) = Lines(h, n) /\ Get(g, n) = Get(h, n)
BY DEF SameAt, Lines, Get

LEMMA BuiltHeaders ==
  ASSUME NEW b, NEW r, NEW made, DOMAIN made \subseteq CloudFrontHeaders
  PROVE  LET headers == BuildOriginRequest(b, r, made).headers
         IN  /\ Get(headers, "Cookie") = FilterCookies(b, Get(r.headers, "Cookie"))
             /\ \A n : n \notin CloudFrontHeaders \cup {"Cookie"} => SameAt(headers, ViewerHeadersOf(b, r.headers), n)
<1> DEFINE synthesized == Restrict(made, {m \in DOMAIN made : SelectsCloudFrontHeader(b, m)})
           selected == ViewerHeadersOf(b, r.headers)
           cookies == FilterCookies(b, Get(r.headers, "Cookie"))
           both == Overlay(synthesized, selected)
           headers == BuildOriginRequest(b, r, made).headers
<1>1. headers = IF cookies # <<>> THEN SetHeader(both, "Cookie", cookies) ELSE both
  BY DEF BuildOriginRequest
<1>2. DOMAIN synthesized \subseteq CloudFrontHeaders
  BY DEF Restrict
<1>3. "Cookie" \notin DOMAIN selected
  BY DEF ViewerHeadersOf, Restrict, Separate
<1> HIDE DEF synthesized, selected, cookies, headers
<1>4. ASSUME NEW n, n \notin CloudFrontHeaders PROVE SameAt(both, selected, n)
  BY <1>2, <1>4 DEF Overlay, SameAt
<1>5. Get(both, "Cookie") = <<>>
  BY <1>2, <1>3, CloudFrontAssumption DEF Overlay, Get
<1> HIDE DEF both
<1>6. Get(headers, "Cookie") = cookies
  BY <1>1, <1>5, SetHeaderThere DEF Get
<1>7. ASSUME NEW n, n \notin CloudFrontHeaders \cup {"Cookie"} PROVE SameAt(headers, selected, n)
  BY <1>1, <1>4, <1>7, SameElsewhere, SameAtIsTransitive
<1> QED
  BY <1>6, <1>7 DEF headers, selected, cookies

(* Both kinds of origin get these, under a name that localfront and the    *)
(* origin's configuration do not set.                                      *)
Outgoing(b, r, made) ==
  RemoveHopByHopHeaders(Overlay(Restricted(r.headers, AlwaysForwardedHeaders), BuildOriginRequest(b, r, made).headers))

LEMMA OutgoingReaches ==
  ASSUME NEW d, NEW b, NEW r, NEW made,
         NEW n, n \notin (OwnNames \ {"Cookie"}) \cup DOMAIN b.origin.customHeaders
  PROVE  SameAt(OriginRequest(d, b, r, made).headers, Outgoing(b, r, made), n)
<1> DEFINE built == BuildOriginRequest(b, r, made)
           forwarded == Outgoing(b, r, made)
           encoded == IF built.acceptEncoding = <<>> THEN forwarded
                      ELSE SetHeader(forwarded, "Accept-Encoding", built.acceptEncoding)
           headers == OriginHeaders(b.origin, built, r)
           chained == AppendXForwardedFor(headers, Get(r.headers, "X-Forwarded-For"), r.ip)
           identified == SetHeader(chained, "X-Amz-Cf-Id", <<r.id>>)
<1>1. OriginRequest(d, b, r, made).headers = IF b.origin.custom THEN AddVia(identified, d.domain) ELSE headers
  BY DEF OriginRequest
<1>2. headers = Overlay(b.origin.customHeaders, encoded)
  BY DEF OriginHeaders, Outgoing
<1>3. n \notin {"Accept-Encoding", "Via", "X-Forwarded-For", "X-Amz-Cf-Id"} /\ n \notin DOMAIN b.origin.customHeaders
  BY DEF OwnNames
<1> HIDE DEF forwarded, built
<1>4. SameAt(encoded, forwarded, n)
  BY <1>3, SameElsewhere DEF SameAt
<1> HIDE DEF encoded
<1>5. SameAt(headers, encoded, n)
  <2>1. SameAt(Overlay(b.origin.customHeaders, encoded), encoded, n)
    BY <1>3 DEF Overlay, SameAt
  <2> QED
    BY <1>2, <2>1
<1> HIDE DEF headers
<1>6. SameAt(chained, headers, n)
  BY <1>3, SameElsewhere DEF AppendXForwardedFor
<1> HIDE DEF chained
<1>7. SameAt(identified, chained, n)
  BY <1>3, SameElsewhere
<1> HIDE DEF identified
<1>8. SameAt(AddVia(identified, d.domain), identified, n)
  BY <1>3, SameElsewhere DEF AddVia
<1> QED
  BY <1>1, <1>4, <1>5, <1>6, <1>7, <1>8, SameAtIsTransitive DEF forwarded

(* A request whose lists are lists.                                        *)
Proper(h) == IsSeq(Get(h, "Cookie")) /\ ("Connection" \in DOMAIN h => 1 \in DOMAIN h["Connection"])
IsRequest(r) == IsSeq(r.query) /\ Proper(r.headers)

(* The hop removes only what the viewer's Connection header lists.         *)
LEMMA OnlyListedRemoved ==
  ASSUME NEW b, NEW r, Proper(r.headers), NEW made, DOMAIN made \subseteq CloudFrontHeaders,
         NEW n, n \notin AlwaysForwardedHeaders
  PROVE  LET built == BuildOriginRequest(b, r, made).headers
             out == Outgoing(b, r, made)
         IN  /\ SameAt(out, built, n) \/ n \notin DOMAIN out
             /\ n \notin ConnectionListedHeaders(r.headers) \cup HopByHopHeaders => SameAt(out, built, n)
<1> DEFINE built == BuildOriginRequest(b, r, made).headers
           always == Restricted(r.headers, AlwaysForwardedHeaders)
           over == Overlay(always, built)
           removed == ToSet(Get(over, "Connection")) \cup HopByHopHeaders
           listed == ConnectionListedHeaders(r.headers)
<1>1. Outgoing(b, r, made) = DelHeaders(over, removed)
  BY DEF Outgoing, RemoveHopByHopHeaders
<1>2. DOMAIN always \subseteq AlwaysForwardedHeaders
  BY DEF Restricted, Restrict
<1>3. SameAt(over, built, n)
  <2> HIDE DEF always, built
  <2> QED
    BY <1>2 DEF Overlay, SameAt
<1>4. ToSet(Get(over, "Connection")) \subseteq listed
  <2>1. CASE "Connection" \notin DOMAIN over
    <3>1. Get(over, "Connection") = <<>>
      BY <2>1 DEF Get
    <3> QED
      BY <3>1, NothingInNothing
  <2>2. CASE "Connection" \in DOMAIN over
    <3>1. "Connection" \notin AlwaysForwardedHeaders /\ "Connection" \notin CloudFrontHeaders /\ "Connection" # "Cookie"
      BY CloudFrontAssumption DEF AlwaysForwardedHeaders
    <3>2. "Connection" \in DOMAIN built /\ over["Connection"] = built["Connection"]
      <4> HIDE DEF always, built
      <4> QED
        BY <1>2, <2>2, <3>1 DEF Overlay
    <3>3. "Connection" \in DOMAIN ViewerHeadersOf(b, r.headers)
      BY <3>1, <3>2, BuiltFromViewer
    <3>4. SameAt(built, ViewerHeadersOf(b, r.headers), "Connection")
      BY <3>1, BuiltHeaders
    <3>5. "Connection" \in DOMAIN r.headers /\ ViewerHeadersOf(b, r.headers)["Connection"] = r.headers["Connection"]
      BY <3>3 DEF ViewerHeadersOf, Restrict
    <3>6. Get(over, "Connection") = r.headers["Connection"][1] /\ 1 \in DOMAIN r.headers["Connection"]
      <4> HIDE DEF over, built
      <4> QED
        BY <2>2, <3>2, <3>3, <3>4, <3>5 DEF Get, SameAt, Proper
    <3>7. r.headers["Connection"][1] \in ToSet(Lines(r.headers, "Connection"))
      BY <3>5, <3>6 DEF ToSet, Lines
    <3> QED
      BY <3>6, <3>7 DEF ConnectionListedHeaders, Elements
  <2> QED
    BY <2>1, <2>2
<1> HIDE DEF over
<1>5. DOMAIN DelHeaders(over, removed) = DOMAIN over \ removed
  BY DEF DelHeaders, Restrict
<1>6. n \notin removed => SameAt(DelHeaders(over, removed), over, n)
  BY DEF DelHeaders, Restrict, SameAt
<1> HIDE DEF removed, built, listed
<1>7. n \notin listed \cup HopByHopHeaders => n \notin removed
  BY <1>4 DEF removed
<1> QED
  BY <1>1, <1>3, <1>5, <1>6, <1>7, SameAtIsTransitive DEF built, listed

LEMMA RequestIsSelected ==
  ASSUME NEW b,
         b.cache.headers.behavior \in {"none", "whitelist", "all"},
         Listed(b.cache.cookies), Listed(b.orp.cookies), Listed(b.cache.queryStrings), Listed(b.orp.queryStrings),
         "Cookie" \notin DOMAIN b.origin.customHeaders,
         NEW r, IsRequest(r), NEW made, DOMAIN made \subseteq CloudFrontHeaders, NEW d
  PROVE  IsSelectedFrom(OriginRequest(d, b, r, made), b, r)
<1> DEFINE request == OriginRequest(d, b, r, made)
           built == BuildOriginRequest(b, r, made).headers
           out == Outgoing(b, r, made)
           listed == ConnectionListedHeaders(r.headers)
           plain == DOMAIN r.headers \ (Separate \cup CloudFrontHeaders \cup DOMAIN Overrides \cup HopByHopHeaders
                      \cup AlwaysForwardedHeaders \cup listed \cup SetByLocalfront(b))
           had == Get(r.headers, "Cookie")
           cookies == Get(request.headers, "Cookie")
<1>1. request.query = FilterQuery(b, r.query)
  BY DEF OriginRequest, BuildOriginRequest
<1>2. /\ ToSet(request.query) \subseteq ToSet(r.query)
      /\ Named(request.query) = Taken(b.cache.queryStrings, Named(r.query)) \cup Taken(b.orp.queryStrings, Named(r.query))
  <2> HIDE DEF request
  <2> QED
    BY <1>1, PairsAreTaken DEF FilterQuery, IsRequest
<1>3. /\ ToSet(FilterCookies(b, had)) \subseteq ToSet(had)
      /\ Named(FilterCookies(b, had)) = Taken(b.cache.cookies, Named(had)) \cup Taken(b.orp.cookies, Named(had))
  <2>1. IsSeq(had)
    BY DEF IsRequest, Proper
  <2> HIDE DEF had
  <2> QED
    BY <2>1, PairsAreTaken DEF FilterCookies
<1>4. Proper(r.headers)
  BY DEF IsRequest
<1>5. cookies = FilterCookies(b, had) \/ (cookies = <<>> /\ "Cookie" \in listed)
  <2>1. "Cookie" \notin AlwaysForwardedHeaders \cup HopByHopHeaders
    BY DEF AlwaysForwardedHeaders, HopByHopHeaders
  <2>2. SameAt(request.headers, out, "Cookie")
    BY OutgoingReaches DEF OwnNames
  <2>3. /\ SameAt(out, built, "Cookie") \/ "Cookie" \notin DOMAIN out
        /\ "Cookie" \notin listed => SameAt(out, built, "Cookie")
    BY <1>4, <2>1, OnlyListedRemoved
  <2>4. Get(built, "Cookie") = FilterCookies(b, had)
    BY BuiltHeaders
  <2>5. "Cookie" \notin DOMAIN out => Get(out, "Cookie") = <<>>
    BY DEF Get
  <2> HIDE DEF request, out, built, listed, had
  <2>6. cookies = Get(out, "Cookie")
    BY <2>2, SameLines
  <2>7. SameAt(out, built, "Cookie") => Get(out, "Cookie") = Get(built, "Cookie")
    BY SameLines
  <2> QED
    BY <2>3, <2>4, <2>5, <2>6, <2>7
<1>6. ASSUME NEW n \in plain
      PROVE  Lines(request.headers, n) = IF ForwardsHeader(b, n) THEN r.headers[n] ELSE <<>>
  <2>1. /\ n \notin AlwaysForwardedHeaders \cup listed \cup HopByHopHeaders
        /\ n \notin CloudFrontHeaders \cup {"Cookie"}
        /\ n \notin (OwnNames \ {"Cookie"}) \cup DOMAIN b.origin.customHeaders
    BY DEF Separate, SetByLocalfront, OwnNames
  <2>2. SameAt(request.headers, out, n)
    BY <2>1, OutgoingReaches
  <2>3. SameAt(out, built, n)
    BY <1>4, <2>1, OnlyListedRemoved
  <2>4. SameAt(built, ViewerHeadersOf(b, r.headers), n)
    BY <2>1, BuiltHeaders
  <2>5. Lines(ViewerHeadersOf(b, r.headers), n) = IF ForwardsHeader(b, n) THEN r.headers[n] ELSE <<>>
    BY DEF ViewerHeadersOf, Restrict, Lines
  <2> HIDE DEF request, out, built
  <2>6. SameAt(request.headers, ViewerHeadersOf(b, r.headers), n)
    BY <2>2, <2>3, <2>4, SameAtIsTransitive
  <2> QED
    BY <2>5, <2>6, SameLines
<1>7. \A n \in plain : n \in Taken(b.cache.headers, plain) \cup Taken(b.orp.headers, plain) <=> ForwardsHeader(b, n)
  <2> HIDE DEF plain
  <2> QED
    BY HeaderIsTaken
<1>8. ToSet(cookies) \subseteq ToSet(had)
  BY <1>3, <1>5, NothingInNothing
<1> HIDE DEF request, cookies, had, plain, listed
<1>9. IsSelectedFrom(request, b, r)
  BY <1>2, <1>3, <1>5, <1>6, <1>7, <1>8 DEF IsSelectedFrom, cookies, had, plain, listed
<1> QED
  BY <1>9 DEF request

(* What a function gives back is a request again.                          *)
LEMMA SeqOfSome ==
  ASSUME NEW X, NEW s \in Seq(X)
  PROVE  IsSeq(s)
<1>1. \A i \in 1 .. Len(s) : s[i] \in ToSet(s)
  BY DEF ToSet
<1> QED
  BY <1>1 DEF IsSeq

(* What is as long as a sequence is one.                                   *)
LEMMA AsLong ==
  ASSUME NEW s, IsSeq(s), NEW g, g = [i \in DOMAIN s |-> g[i]]
  PROVE  IsSeq(g)
<1>1. Len(s) \in Nat /\ DOMAIN s = 1 .. Len(s)
  BY DEF IsSeq
<1>2. \A i \in 1 .. Len(s) : g[i] \in ToSet(g)
  BY <1>1 DEF ToSet
<1>3. g \in [1 .. Len(s) -> ToSet(g)]
  <2>1. g = [i \in 1 .. Len(s) |-> g[i]]
    BY <1>1
  <2> QED
    BY <1>2, <2>1
<1> QED
  BY <1>1, <1>3 DEF IsSeq

Flattens(seqs, f) == f = [i \in 1 .. Len(seqs) |-> IF i = 1 THEN seqs[i] ELSE f[i - 1] \o seqs[i]]

LEMMA FlatUnfolds ==
  ASSUME NEW seqs, IsSeq(seqs), \A i \in DOMAIN seqs : IsSeq(seqs[i])
  PROVE  /\ Len(seqs) = 0 => FlattenSeq(seqs) = <<>>
         /\ Len(seqs) # 0 =>
              \E g : /\ FlattenSeq(seqs) = g[Len(seqs)]
                    /\ \A i \in 1 .. Len(seqs) : g[i] = IF i = 1 THEN seqs[i] ELSE g[i - 1] \o seqs[i]
         /\ IsSeq(FlattenSeq(seqs))
<1> DEFINE n == Len(seqs)
           X == UNION {ToSet(seqs[i]) : i \in DOMAIN seqs}
           E == Seq(X)
           After(i, v) == IF i = 1 THEN seqs[i] ELSE v \o seqs[i]
           step == [iv \in (1 .. n) \X E |-> After(iv[1], iv[2])]
<1>1. n \in Nat /\ DOMAIN seqs = 1 .. n
  BY DEF IsSeq
<1>2. \A i \in 1 .. n : seqs[i] \in E
  <2> SUFFICES ASSUME NEW i \in 1 .. n PROVE seqs[i] \in E
    OBVIOUS
  <2>1. seqs[i] \in Seq(ToSet(seqs[i])) /\ ToSet(seqs[i]) \subseteq X
    BY <1>1 DEF IsSeq
  <2> DEFINE t == seqs[i]
  <2>2. t \in Seq(ToSet(t)) /\ ToSet(t) \subseteq X
    BY <2>1
  <2> HIDE DEF t, X
  <2>3. t \in Seq(X)
    <3>1. \A j \in 1 .. Len(t) : t[j] \in X
      BY <2>2
    <3> QED
      BY <2>2, <3>1
  <2> QED
    BY <2>3 DEF t
<1> HIDE DEF n, X
<1>3. <<>> \in E /\ \A i \in 1 .. n : \A v \in E : After(i, v) \in E
  BY <1>2
<1>4. CASE n = 0
  <2>1. FlattenSeq(seqs) = seqs /\ seqs = <<>>
    BY <1>1, <1>4 DEF FlattenSeq, n, IsSeq
  <2> QED
    BY <1>4, <2>1, NothingInNothing DEF n
<1>5. CASE n # 0
  <2> HIDE DEF E
  <2>1. step \in [(1 .. n) \X E -> E] /\ \A i \in 1 .. n : \A v \in E : step[<<i, v>>] = After(i, v)
    <3> HIDE DEF After
    <3> QED
      BY <1>3
  <2>2. PICK f \in [0 .. n -> E] : f[0] = <<>> /\ \A i \in 1 .. n : f[i] = step[<<i, f[i - 1]>>]
    <3> HIDE DEF step
    <3>1. Steps(step, n, E) /\ <<>> \in E
      BY <1>1, <1>3, <2>1 DEF Steps
    <3> QED
      BY <3>1, Iterated
  <2> DEFINE h == [i \in 1 .. n |-> f[i]]
  <2>3. \A i \in 1 .. n : f[i] \in E /\ f[i - 1] \in E /\ f[i] = After(i, f[i - 1])
    <3>1. \A i \in 1 .. n : f[i] \in E /\ f[i - 1] \in E
      BY <1>1
    <3> HIDE DEF After, step
    <3> QED
      BY <2>1, <2>2, <3>1
  <2>4. Flattens(seqs, h)
    <3>1. \A i \in 1 .. n : i # 1 => h[i - 1] = f[i - 1]
      BY <1>1
    <3>2. \A i \in 1 .. n : f[i] = IF i = 1 THEN seqs[i] ELSE h[i - 1] \o seqs[i]
      BY <2>3, <3>1
    <3>3. h = [i \in 1 .. n |-> IF i = 1 THEN seqs[i] ELSE h[i - 1] \o seqs[i]]
      BY <3>2
    <3> HIDE DEF h
    <3> QED
      BY <3>3 DEF Flattens, n
  <2> DEFINE g == CHOOSE g : Flattens(seqs, g)
  <2>5. FlattenSeq(seqs) = g[n]
    BY <1>5 DEF FlattenSeq, Flattens, n
  <2>6. Flattens(seqs, g)
    <3> HIDE DEF h
    <3> QED
      BY <2>4
  <2> HIDE DEF g
  <2>7. \A i \in 1 .. n : g[i] = IF i = 1 THEN seqs[i] ELSE g[i - 1] \o seqs[i]
    BY <2>6 DEF Flattens, n
  <2> DEFINE T == {i \in 0 .. n : i # 0 => g[i] \in E}
  <2>8. 0 \in T
    BY <1>1
  <2>9. ASSUME NEW i \in 1 .. n, i - 1 \in T PROVE i \in T
    <3>1. i \in 0 .. n
      BY <1>1
    <3>2. g[i] \in E
      <4>1. CASE i = 1
        BY <1>2, <2>7, <4>1 DEF E
      <4>2. CASE i # 1
        <5>1. g[i - 1] \in Seq(X)
          BY <2>9, <4>2 DEF E
        <5>2. seqs[i] \in Seq(X)
          BY <1>2 DEF E
        <5>3. g[i - 1] \o seqs[i] \in Seq(X)
          BY <5>1, <5>2
        <5> QED
          BY <2>7, <4>2, <5>3 DEF E
      <4> QED
        BY <4>1, <4>2
    <3> QED
      BY <3>1, <3>2
  <2>10. n \in 0 .. n
    BY <1>1
  <2> HIDE DEF T
  <2>11. n \in T
    BY <1>1, <2>8, <2>9, <2>10, UpTo
  <2>12. g[n] \in Seq(X)
    BY <1>5, <2>11 DEF T, E
  <2>13. \E c : FlattenSeq(seqs) = c[n] /\ \A i \in 1 .. n : c[i] = IF i = 1 THEN seqs[i] ELSE c[i - 1] \o seqs[i]
    BY <2>5, <2>7
  <2> QED
    BY <1>5, <2>5, <2>12, <2>13, SeqOfSome DEF n
<1> QED
  BY <1>4, <1>5

LEMMA SortedIsSeq ==
  ASSUME NEW names
  PROVE  IsSeq(Sorted(names)) /\ ToSet(Sorted(names)) \subseteq names
BY KeptElements, NameOrderAssumption DEF Sorted

LEMMA ValuesAreSeq ==
  ASSUME NEW pairs, IsSeq(pairs), NEW n
  PROVE  IsSeq(ValuesOf(pairs, n))
<1> DEFINE mine == Kept(pairs, {p \in ToSet(pairs) : p.name = n})
           values == ValuesOf(pairs, n)
<1>1. IsSeq(mine)
  BY KeptElements
<1>2. values = [i \in DOMAIN mine |-> mine[i].value]
  BY DEF ValuesOf
<1> HIDE DEF mine, values
<1>3. values = [i \in DOMAIN mine |-> values[i]]
  BY <1>2
<1> QED
  BY <1>1, <1>3, AsLong DEF values

LEMMA DecodedIsSeq ==
  ASSUME NEW query, IsSeq(query)
  PROVE  IsSeq(Decoded(query)) /\ Len(Decoded(query)) = Len(query)
<1> DEFINE d == Decoded(query)
<1>1. d = [i \in DOMAIN query |-> d[i]]
  BY DEF Decoded
<1> HIDE DEF d
<1> QED
  BY <1>1, AsLong DEF d

LEMMA QueryIsSeq ==
  ASSUME NEW query, IsSeq(query)
  PROVE  IsSeq(FieldsToQuery(QueryToFields(query)))
<1> DEFINE fields == QueryToFields(query)
           Params(n) == [i \in DOMAIN fields[n] |-> [name |-> n, value |-> fields[n][i]]]
           names == Sorted(DOMAIN fields)
           seqs == [i \in DOMAIN names |-> Params(names[i])]
<1>1. FieldsToQuery(fields) = FlattenSeq(seqs)
  BY DEF FieldsToQuery
<1>2. IsSeq(names) /\ ToSet(names) \subseteq DOMAIN fields
  BY SortedIsSeq
<1>3. \A n \in DOMAIN fields : IsSeq(fields[n])
  BY DecodedIsSeq, ValuesAreSeq DEF QueryToFields
<1> HIDE DEF fields
<1>4. ASSUME NEW n \in DOMAIN fields PROVE IsSeq(Params(n))
  <2> DEFINE params == Params(n)
  <2>1. params = [i \in DOMAIN fields[n] |-> params[i]]
    OBVIOUS
  <2> HIDE DEF params
  <2>2. IsSeq(params)
    BY <1>3, <2>1, AsLong
  <2> QED
    BY <2>2 DEF params
<1> HIDE DEF Params, names
<1>5. \A i \in DOMAIN seqs : IsSeq(seqs[i])
  BY <1>2, <1>4 DEF ToSet
<1>6. seqs = [i \in DOMAIN names |-> seqs[i]]
  OBVIOUS
<1> HIDE DEF seqs
<1>7. IsSeq(seqs)
  BY <1>2, <1>6, AsLong
<1>8. IsSeq(FlattenSeq(seqs))
  BY <1>5, <1>7, FlatUnfolds
<1> QED
  BY <1>1, <1>8 DEF fields

LEMMA CookiesAreSeq ==
  ASSUME NEW cookies
  PROVE  IsSeq(CookiesToHeader(cookies))
<1> DEFINE names == Sorted(DOMAIN cookies)
           pairs == CookiesToHeader(cookies)
<1>1. pairs = [i \in DOMAIN names |-> [name |-> names[i], value |-> cookies[names[i]]]]
  BY DEF CookiesToHeader
<1>2. IsSeq(names)
  BY SortedIsSeq
<1> HIDE DEF names, pairs
<1>3. pairs = [i \in DOMAIN names |-> pairs[i]]
  BY <1>1
<1> QED
  BY <1>2, <1>3, AsLong DEF pairs

LEMMA HeadersAreProper ==
  ASSUME NEW h, IsHeaders(h)
  PROVE  Proper(h)
<1>1. ASSUME NEW n \in DOMAIN h PROVE 1 \in DOMAIN h[n] /\ IsSeq(h[n][1])
  <2> DEFINE lines == h[n]
  <2>1. IsSeq(lines) /\ lines # <<>> /\ \A i \in DOMAIN lines : IsSeq(lines[i])
    BY DEF IsHeaders
  <2> HIDE DEF lines
  <2>2. 1 \in DOMAIN lines
    BY <2>1 DEF IsSeq
  <2> QED
    BY <2>1, <2>2 DEF lines
<1>2. IsSeq(Get(h, "Cookie"))
  BY <1>1, NothingInNothing DEF Get
<1> QED
  BY <1>1, <1>2 DEF Proper

LEMMA AppliedIsRequest ==
  ASSUME NEW r, {"path", "raw", "query", "headers"} \subseteq DOMAIN r, IsRequest(r),
         NEW made, DOMAIN made \subseteq CloudFrontHeaders,
         NEW p, IsHeaders(p.set), NEW uri
  PROVE  IsRequest(ApplyToRequest([Edited(p, NewRequestEvent(r, made)) EXCEPT !.uri = uri], r))
<1> DEFINE plain == DelHeaders(r.headers, {"Cookie", "Set-Cookie"})
           all == SetHeader(Overlay(made, plain), "Host", <<r.host>>)
           kept == Overlay(p.set, DelHeaders(all, p.drop))
           event == [Edited(p, NewRequestEvent(r, made)) EXCEPT !.uri = uri]
           request == ApplyToRequest(event, r)
<1>1. event.headers = kept /\ event.querystring = QueryToFields(r.query)
  <2>1. NewRequestEvent(r, made) = [uri |-> r.path, querystring |-> QueryToFields(r.query), headers |-> all,
                                    cookies |-> CookiesToMap(Get(r.headers, "Cookie"))]
    BY DEF NewRequestEvent, HeadersToFields
  <2> HIDE DEF all
  <2> QED
    BY <2>1 DEF Edited
<1>2. /\ request.query = FieldsToQuery(event.querystring)
      /\ \/ request.headers = event.headers
         \/ request.headers = SetHeader(event.headers, "Cookie", CookiesToHeader(event.cookies))
  <2> HIDE DEF event
  <2> QED
    BY DEF ApplyToRequest
<1> HIDE DEF event, request
<1>3. IsSeq(request.query)
  BY <1>1, <1>2, QueryIsSeq DEF IsRequest
<1>4. "Cookie" \notin DOMAIN made /\ "Connection" \notin DOMAIN made
  BY CloudFrontAssumption
<1>5. /\ "Cookie" \notin DOMAIN plain
      /\ "Connection" \in DOMAIN plain => "Connection" \in DOMAIN r.headers /\ plain["Connection"] = r.headers["Connection"]
  BY DEF DelHeaders, Restrict
<1> HIDE DEF plain
<1>6. /\ "Cookie" \notin DOMAIN all
      /\ "Connection" \in DOMAIN all => "Connection" \in DOMAIN plain /\ all["Connection"] = plain["Connection"]
  BY <1>4, <1>5, SetHeaderElsewhere DEF Overlay
<1> HIDE DEF all
<1>7. Proper(p.set)
  BY HeadersAreProper
<1>8. Proper(kept)
  <2> DEFINE rest == DelHeaders(all, p.drop)
  <2>1. /\ "Cookie" \notin DOMAIN rest
        /\ "Connection" \in DOMAIN rest => "Connection" \in DOMAIN all /\ rest["Connection"] = all["Connection"]
    BY <1>6 DEF DelHeaders, Restrict
  <2> HIDE DEF rest
  <2>2. Get(kept, "Cookie") = Get(p.set, "Cookie")
    BY <2>1 DEF Overlay, Get, rest
  <2>3. "Connection" \in DOMAIN kept => 1 \in DOMAIN kept["Connection"]
    <3>1. "Connection" \in DOMAIN rest => 1 \in DOMAIN rest["Connection"]
      BY <1>5, <1>6, <2>1 DEF IsRequest, Proper
    <3> QED
      BY <1>7, <3>1 DEF Overlay, Proper, rest
  <2> HIDE DEF kept
  <2> QED
    BY <1>7, <2>2, <2>3 DEF Proper
<1> HIDE DEF kept
<1>9. ASSUME NEW cookies PROVE Proper(SetHeader(kept, "Cookie", CookiesToHeader(cookies)))
  <2> DEFINE h == SetHeader(kept, "Cookie", CookiesToHeader(cookies))
  <2>1. Get(h, "Cookie") = CookiesToHeader(cookies)
    BY SetHeaderThere DEF Get
  <2>2. /\ "Connection" \in DOMAIN h <=> "Connection" \in DOMAIN kept
        /\ "Connection" \in DOMAIN kept => h["Connection"] = kept["Connection"]
    BY SetHeaderElsewhere
  <2> HIDE DEF h
  <2>3. Proper(h)
    BY <1>8, <2>1, <2>2, CookiesAreSeq DEF Proper
  <2> QED
    BY <2>3 DEF h
<1>10. Proper(request.headers)
  BY <1>1, <1>2, <1>8, <1>9
<1> QED
  BY <1>3, <1>10 DEF IsRequest, event, request

(* Strengthens OriginGetsWhatIsSelected: what the handler asks for is of a *)
(* path that a behavior serves, and its lists stay lists.                  *)
SelectionInv ==
  /\ DataInv
  /\ IsRequest(req)
  /\ \A s \in ToSet(sent) : s.path \in DOMAIN dist.behaviors /\ IsRequest(s.from)

LEMMA SelectionSuffices ==
  ASSUME DocumentedPolicies
  PROVE  SelectionInv => OriginGetsWhatIsSelected
<1> SUFFICES ASSUME SelectionInv, NEW s \in ToSet(sent)
             PROVE  IsSelectedFrom(s.request, dist.behaviors[s.path], s.from)
  BY DEF OriginGetsWhatIsSelected
<1> DEFINE b == dist.behaviors[s.path]
<1>1. s.request = OriginRequest(dist, b, s.from, viewerHeaders) /\ DOMAIN viewerHeaders \subseteq CloudFrontHeaders
  BY SynthesizedDomain DEF SelectionInv, DataInv, ExchangeInv, BuiltFrom
<1>2. IsRequest(s.from)
  BY DEF SelectionInv
<1>3. /\ b.cache.headers.behavior \in {"none", "whitelist", "all"}
      /\ {sel.behavior : sel \in {b.cache.cookies, b.orp.cookies, b.cache.queryStrings, b.orp.queryStrings}}
           \subseteq {"none", "whitelist", "all", "allExcept"}
      /\ "Cookie" \notin DOMAIN b.origin.customHeaders
  BY DEF DocumentedPolicies, SelectionInv, DataInv
<1> HIDE DEF b
<1>4. Listed(b.cache.cookies) /\ Listed(b.orp.cookies) /\ Listed(b.cache.queryStrings) /\ Listed(b.orp.queryStrings)
  BY <1>3 DEF Listed
<1>5. IsSelectedFrom(OriginRequest(dist, b, s.from, viewerHeaders), b, s.from)
  BY <1>1, <1>2, <1>3, <1>4, RequestIsSelected
<1> QED
  BY <1>1, <1>5 DEF b

LEMMA PageRequestIsRequest ==
  ASSUME DataInv, IsRequest(req), NEW page
  PROVE  IsRequest(PageRequest(page))
<1> DEFINE h == DelHeaders(req.headers, AlwaysForwardedHeaders)
           r == PageRequest(page)
<1>1. DOMAIN req = {"method", "path", "raw", "query", "headers", "host", "ip", "id"}
  BY RequestsAssumption DEF DataInv
<1>2. r.query = req.query /\ r.headers = h
  BY <1>1 DEF PageRequest
<1>3. /\ Get(h, "Cookie") = Get(req.headers, "Cookie")
      /\ "Connection" \in DOMAIN h => "Connection" \in DOMAIN req.headers /\ h["Connection"] = req.headers["Connection"]
  BY DEF DelHeaders, Restrict, Get, AlwaysForwardedHeaders
<1> HIDE DEF h, r
<1>4. IsRequest(r)
  BY <1>2, <1>3 DEF IsRequest, Proper
<1> QED
  BY <1>4 DEF r

LEMMA StepAsks ==
  ASSUME SelectionInv, [Next]_vars
  PROVE  \/ sent' = sent
         \/ \E path \in DOMAIN dist.behaviors : \E r :
              IsRequest(r) /\ (sent' = <<Asking(path, r)>> \/ sent' = Append(sent, Asking(path, r)))
<1>1. CASE FetchOrigin
  <2> DEFINE ask == Asking(viewer.path, req)
  <2>1. sent' = <<ask>> \/ sent' = sent
    <3> HIDE DEF ask
    <3> QED
      BY <1>1 DEF FetchOrigin, ask
  <2>2. viewer.path \in DOMAIN dist.behaviors /\ IsRequest(req)
    BY DEF SelectionInv, DataInv
  <2> QED
    BY <2>1, <2>2
<1>2. CASE ApplyErrorResponse
  <2>1. sent' = sent \/ \E e \in Matching(resp.status) : e.page # "" /\ sent' = Append(sent, PageAsking(e.page))
    BY <1>2 DEF ApplyErrorResponse
  <2>2. ASSUME NEW e \in Matching(resp.status), e.page # "" PROVE e.page \in DOMAIN dist.behaviors
    BY <2>2, DistributionsAssumption DEF Matching, SelectionInv, DataInv
  <2>3. \A page : IsRequest(PageRequest(page))
    BY PageRequestIsRequest DEF SelectionInv
  <2> QED
    BY <2>1, <2>2, <2>3 DEF PageAsking
<1>3. CASE sent' = sent
  BY <1>3
<1> QED
  BY <1>1, <1>2, <1>3 DEF Next, RunViewerRequest, SetResponseHeaders, RunViewerResponse, Write, vars

LEMMA RequestStaysRequest ==
  ASSUME SelectionInv, [Next]_vars
  PROVE  IsRequest(req')
<1>1. CASE RunViewerRequest
  <2> DEFINE p == Behavior.viewerRequest
  <2>1. \/ req' = req
        \/ p.kind = "edit" /\ \E u : req' = ApplyToRequest([Edited(p, NewRequestEvent(req, viewerHeaders)) EXCEPT !.uri = u], req)
    BY <1>1 DEF RunViewerRequest
  <2>2. p.kind = "edit" => IsHeaders(p.set)
    BY DistributionsAssumption DEF SelectionInv, DataInv, Behavior
  <2>3. {"path", "raw", "query", "headers"} \subseteq DOMAIN req
    BY RequestsAssumption DEF SelectionInv, DataInv
  <2>4. DOMAIN viewerHeaders \subseteq CloudFrontHeaders
    BY SynthesizedDomain DEF SelectionInv, DataInv, ExchangeInv
  <2>5. IsRequest(req)
    BY DEF SelectionInv
  <2> HIDE DEF p
  <2>6. ASSUME NEW u, IsHeaders(p.set)
        PROVE  IsRequest(ApplyToRequest([Edited(p, NewRequestEvent(req, viewerHeaders)) EXCEPT !.uri = u], req))
    BY <2>3, <2>4, <2>5, <2>6, AppliedIsRequest
  <2> QED
    BY <2>1, <2>2, <2>5, <2>6
<1>2. CASE req' = req
  BY <1>2 DEF SelectionInv
<1> QED
  BY <1>1, <1>2 DEF Next, FetchOrigin, ApplyErrorResponse, SetResponseHeaders, RunViewerResponse, Write, vars

(* Every origin, an error page's too, gets of the viewer's request, or of  *)
(* what the function made of it, exactly the headers, cookies and query    *)
(* parameters that the two policies select: nothing is lost where they     *)
(* overlap, and nothing slips through (DocumentedPolicies: the selections  *)
(* are those the configuration's model lists).                             *)
THEOREM OriginsGetWhatIsSelected ==
  ASSUME DocumentedPolicies
  PROVE  Spec => []OriginGetsWhatIsSelected
<1>1. Init => SelectionInv
  <2> SUFFICES ASSUME Init PROVE SelectionInv
    OBVIOUS
  <2>1. DataInv
    BY InitData
  <2>2. IsRequest(req)
    <3>1. req = viewer /\ IsHeaders(viewer.headers) /\ IsSeq(viewer.query)
      BY RequestsAssumption DEF Init
    <3> QED
      BY <3>1, HeadersAreProper DEF IsRequest
  <2>3. ToSet(sent) = {}
    BY DEF Init, ToSet
  <2> QED
    BY <2>1, <2>2, <2>3 DEF SelectionInv
<1>2. SelectionInv /\ [Next]_vars => SelectionInv'
  <2> SUFFICES ASSUME SelectionInv, [Next]_vars PROVE SelectionInv'
    OBVIOUS
  <2>1. DataInv' /\ dist' = dist
    BY StepData, StepSends DEF SelectionInv, DataInv
  <2>2. IsRequest(req')
    BY RequestStaysRequest
  <2>3. ASSUME NEW s \in ToSet(sent') PROVE s.path \in DOMAIN dist.behaviors /\ IsRequest(s.from)
    <3>1. CASE s \in ToSet(sent)
      BY <3>1 DEF SelectionInv
    <3>2. CASE \E path \in DOMAIN dist.behaviors : \E r : IsRequest(r) /\ s = Asking(path, r)
      BY <3>2 DEF Asking
    <3>3. sent \in Seq(ToSet(sent))
      BY DEF SelectionInv, DataInv, ExchangeInv
    <3>4. \A x : ToSet(<<x>>) = {x} /\ ToSet(Append(sent, x)) = ToSet(sent) \cup {x}
      BY <3>3, OneSent, AnotherSent
    <3>5. ASSUME NEW path \in DOMAIN dist.behaviors, NEW r, IsRequest(r),
                 sent' = <<Asking(path, r)>> \/ sent' = Append(sent, Asking(path, r))
          PROVE  s \in ToSet(sent) \/ s = Asking(path, r)
      <4> DEFINE x == Asking(path, r)
      <4>1. sent' = <<x>> \/ sent' = Append(sent, x)
        BY <3>5
      <4> HIDE DEF x
      <4>2. ToSet(sent') \subseteq ToSet(sent) \cup {x}
        BY <3>4, <4>1
      <4> QED
        BY <2>3, <4>2 DEF x
    <3>6. \/ sent' = sent
          \/ \E path \in DOMAIN dist.behaviors : \E r :
               IsRequest(r) /\ (sent' = <<Asking(path, r)>> \/ sent' = Append(sent, Asking(path, r)))
      BY StepAsks
    <3> QED
      BY <2>3, <3>1, <3>2, <3>5, <3>6
  <2> QED
    BY <2>1, <2>2, <2>3 DEF SelectionInv
<1>3. SelectionInv => OriginGetsWhatIsSelected
  BY SelectionSuffices
<1> QED
  BY <1>1, <1>2, <1>3, PTL DEF Spec

-----------------------------------------------------------------------------
(* A function that changes nothing.  What it gives back is in another      *)
(* order, but of each name there is what there was.  Lists, as they grow:  *)
(* what holds of the empty one and is kept by Append holds of all.         *)
LEMMA Growing ==
  ASSUME NEW X, NEW T, <<>> \in T, \A t \in Seq(X) : \A x \in X : t \in T => Append(t, x) \in T
  PROVE  \A s \in Seq(X) : s \in T
<1> SUFFICES ASSUME NEW s \in Seq(X) PROVE s \in T
  OBVIOUS
<1> DEFINE Prefix(i) == [j \in 1 .. i |-> s[j]]
           n == Len(s)
           K == {i \in 0 .. n : Prefix(i) \in T}
<1>1. n \in Nat /\ s = Prefix(n) /\ Prefix(0) = <<>>
  OBVIOUS
<1>2. ASSUME NEW i \in 1 .. n
      PROVE  i - 1 \in 0 .. n /\ i \in 0 .. n /\ Prefix(i - 1) \in Seq(X) /\ s[i] \in X /\ Prefix(i) = Append(Prefix(i - 1), s[i])
  <2>1. i - 1 \in Nat /\ i - 1 \in 0 .. n /\ i \in 0 .. n /\ s[i] \in X
    BY <1>1
  <2>2. \A j \in 1 .. i - 1 : s[j] \in X
    BY <1>1
  <2>3. Prefix(i - 1) \in Seq(X)
    BY <2>1, <2>2
  <2>4. Prefix(i) = Append(Prefix(i - 1), s[i])
    BY <2>1, <2>3
  <2> QED
    BY <2>1, <2>3, <2>4
<1>3. 0 \in K
  BY <1>1
<1>4. ASSUME NEW i \in 1 .. n, i - 1 \in K PROVE i \in K
  <2>1. Prefix(i - 1) \in T
    BY <1>4
  <2> HIDE DEF Prefix
  <2> QED
    BY <1>2, <2>1
<1>5. n \in 0 .. n
  BY <1>1
<1> HIDE DEF K
<1>6. n \in K
  BY <1>1, <1>3, <1>4, <1>5, UpTo
<1> QED
  BY <1>1, <1>6 DEF K

(* Sequences over a set are those in whose terms the lemmas above speak.   *)
LEMMA SeqOfMore ==
  ASSUME NEW X, NEW s \in Seq(X)
  PROVE  /\ IsSeq(s) /\ ToSet(s) \subseteq X /\ Len(s) \in Nat /\ DOMAIN s = 1 .. Len(s)
         /\ \A i \in 1 .. Len(s) : s[i] \in X
<1>1. IsSeq(s)
  BY SeqOfSome
<1> QED
  BY <1>1 DEF ToSet

LEMMA KeptNothing ==
  ASSUME NEW set
  PROVE  Kept(<<>>, set) = <<>>
<1>1. IsSeq(<<>>) /\ Len(<<>>) = 0
  BY NothingInNothing
<1> QED
  BY <1>1, KeptUnfolds

LEMMA KeptMore ==
  ASSUME NEW X, NEW s \in Seq(X), NEW x \in X, NEW set
  PROVE  Kept(Append(s, x), set) = IF x \in set THEN Append(Kept(s, set), x) ELSE Kept(s, set)
<1> DEFINE t == Append(s, x)
           n == Len(s)
<1>1. t \in Seq(X) /\ n \in Nat /\ Len(t) = n + 1 /\ t[n + 1] = x /\ \A i \in 1 .. n : t[i] = s[i]
  OBVIOUS
<1> HIDE DEF t
<1>2. PICK g : /\ Kept(s, set) = g[n] /\ g[0] = <<>>
               /\ \A i \in 1 .. n : g[i] = IF s[i] \in set THEN Append(g[i - 1], s[i]) ELSE g[i - 1]
  BY KeptUnfolds, SeqOfMore
<1>3. PICK h : /\ Kept(t, set) = h[Len(t)] /\ h[0] = <<>>
               /\ \A i \in 1 .. Len(t) : h[i] = IF t[i] \in set THEN Append(h[i - 1], t[i]) ELSE h[i - 1]
  BY <1>1, KeptUnfolds, SeqOfMore
<1> HIDE DEF n
<1> DEFINE T == {i \in 0 .. n : h[i] = g[i]}
<1>4. 0 \in T
  BY <1>1, <1>2, <1>3
<1>5. ASSUME NEW i \in 1 .. n, i - 1 \in T PROVE i \in T
  <2>1. i \in 1 .. Len(t) /\ i \in 0 .. n /\ t[i] = s[i]
    BY <1>1
  <2>2. h[i - 1] = g[i - 1]
    BY <1>5
  <2>3. h[i] = g[i]
    BY <1>2, <1>3, <2>1, <2>2
  <2> QED
    BY <2>1, <2>3
<1>6. n \in 0 .. n
  BY <1>1
<1> HIDE DEF T
<1>7. n \in T
  BY <1>1, <1>4, <1>5, <1>6, UpTo
<1>8. h[n] = Kept(s, set)
  BY <1>2, <1>7 DEF T
<1>9. h[n + 1] = IF x \in set THEN Append(h[n], x) ELSE h[n]
  <2>1. n + 1 \in 1 .. Len(t) /\ (n + 1) - 1 = n
    BY <1>1
  <2> QED
    BY <1>1, <1>3, <2>1
<1> QED
  BY <1>1, <1>3, <1>8, <1>9 DEF t

(* Only the elements of the list count.                                    *)
LEMMA KeptAlike ==
  ASSUME NEW s, IsSeq(s), NEW a, NEW c, a \cap ToSet(s) = c \cap ToSet(s)
  PROVE  Kept(s, a) = Kept(s, c)
<1> DEFINE n == Len(s)
<1>1. n \in Nat /\ \A i \in 1 .. n : s[i] \in a <=> s[i] \in c
  <2>1. n \in Nat /\ \A i \in 1 .. n : s[i] \in ToSet(s)
    BY DEF IsSeq, ToSet
  <2> QED
    BY <2>1
<1>2. PICK g : /\ Kept(s, a) = g[n] /\ g[0] = <<>>
               /\ \A i \in 1 .. n : g[i] = IF s[i] \in a THEN Append(g[i - 1], s[i]) ELSE g[i - 1]
  BY KeptUnfolds
<1>3. PICK h : /\ Kept(s, c) = h[n] /\ h[0] = <<>>
               /\ \A i \in 1 .. n : h[i] = IF s[i] \in c THEN Append(h[i - 1], s[i]) ELSE h[i - 1]
  BY KeptUnfolds
<1> HIDE DEF n
<1> DEFINE T == {i \in 0 .. n : h[i] = g[i]}
<1>4. 0 \in T
  BY <1>1, <1>2, <1>3
<1>5. ASSUME NEW i \in 1 .. n, i - 1 \in T PROVE i \in T
  <2>1. i \in 0 .. n /\ h[i - 1] = g[i - 1]
    BY <1>5
  <2> QED
    BY <1>1, <1>2, <1>3, <2>1
<1>6. n \in 0 .. n
  BY <1>1
<1> HIDE DEF T
<1>7. n \in T
  BY <1>1, <1>4, <1>5, <1>6, UpTo
<1> QED
  BY <1>2, <1>3, <1>7 DEF T

LEMMA InjectiveMore ==
  ASSUME NEW X, NEW t \in Seq(X), NEW x \in X
  PROVE  /\ ToSet(Append(t, x)) = ToSet(t) \cup {x}
         /\ IsInjective(Append(t, x)) <=> IsInjective(t) /\ x \notin ToSet(t)
<1> DEFINE u == Append(t, x)
<1>1. /\ Len(t) \in Nat /\ DOMAIN t = 1 .. Len(t) /\ DOMAIN u = 1 .. Len(t) + 1
      /\ u[Len(t) + 1] = x /\ \A i \in 1 .. Len(t) : u[i] = t[i]
  OBVIOUS
<1> HIDE DEF u
<1>2. ToSet(u) = ToSet(t) \cup {x}
  <2>1. t \in Seq(ToSet(t))
    BY SeqOfMore DEF IsSeq
  <2> QED
    BY <2>1, AnotherSent DEF u
<1>3. x \in ToSet(t) <=> \E i \in 1 .. Len(t) : t[i] = x
  BY <1>1 DEF ToSet
<1>4. ASSUME IsInjective(u) PROVE IsInjective(t) /\ x \notin ToSet(t)
  <2>1. \A i, j \in 1 .. Len(t) + 1 : u[i] = u[j] => i = j
    BY <1>1, <1>4 DEF IsInjective
  <2>2. \A i, j \in 1 .. Len(t) : t[i] = t[j] => i = j
    BY <1>1, <2>1
  <2>3. \A i \in 1 .. Len(t) : t[i] # x
    BY <1>1, <2>1
  <2> QED
    BY <1>1, <1>3, <2>2, <2>3 DEF IsInjective
<1>5. ASSUME IsInjective(t), x \notin ToSet(t) PROVE IsInjective(u)
  <2>1. \A i, j \in 1 .. Len(t) : t[i] = t[j] => i = j
    BY <1>1, <1>5 DEF IsInjective
  <2>2. \A i, j \in 1 .. Len(t) + 1 : u[i] = u[j] => i = j
    BY <1>1, <1>3, <1>5, <2>1
  <2> QED
    BY <1>1, <2>2 DEF IsInjective
<1> QED
  BY <1>2, <1>4, <1>5 DEF u

LEMMA KeptInjective ==
  ASSUME NEW X, NEW s \in Seq(X), IsInjective(s), NEW set
  PROVE  IsInjective(Kept(s, set))
<1> DEFINE T == {t \in Seq(X) : IsInjective(t) => IsInjective(Kept(t, set))}
<1>1. <<>> \in T
  BY KeptNothing DEF IsInjective
<1>2. ASSUME NEW t \in Seq(X), NEW x \in X, t \in T, IsInjective(Append(t, x))
      PROVE  IsInjective(Kept(Append(t, x), set))
  <2>1. IsInjective(t) /\ x \notin ToSet(t)
    BY <1>2, InjectiveMore
  <2> DEFINE k == Kept(t, set)
  <2>2. IsSeq(k) /\ ToSet(k) \subseteq ToSet(t) /\ IsInjective(k)
    BY <1>2, <2>1, KeptElements, SeqOfMore
  <2>3. Kept(Append(t, x), set) = IF x \in set THEN Append(k, x) ELSE k
    BY KeptMore
  <2> HIDE DEF k
  <2>4. IsInjective(Append(k, x))
    <3>1. k \in Seq(ToSet(k) \cup {x}) /\ x \notin ToSet(k)
      <4>1. k \in Seq(ToSet(k)) /\ Append(k, x) \in Seq(ToSet(k) \cup {x})
        BY <2>2, AnotherSent DEF IsSeq
      <4>2. Len(k) \in Nat /\ \A i \in 1 .. Len(k) : k[i] \in ToSet(k)
        BY <4>1
      <4>3. k \in Seq(ToSet(k) \cup {x})
        BY <4>1, <4>2
      <4> QED
        BY <2>1, <2>2, <4>3
    <3> QED
      BY <2>2, <3>1, InjectiveMore
  <2> QED
    BY <2>2, <2>3, <2>4
<1>3. \A t \in Seq(X) : \A x \in X : t \in T => Append(t, x) \in T
  <2>1. \A t \in Seq(X) : \A x \in X : Append(t, x) \in Seq(X)
    OBVIOUS
  <2> QED
    BY <1>2, <2>1
<1> HIDE DEF T
<1>4. s \in T
  BY <1>1, <1>3, Growing
<1> QED
  BY <1>4 DEF T

(* The pairs with one of the names N.                                      *)
Among(s, N) == Kept(s, {p \in ToSet(s) : p.name \in N})

LEMMA AmongNothing ==
  ASSUME NEW N
  PROVE  Among(<<>>, N) = <<>>
BY KeptNothing DEF Among

LEMMA AmongMore ==
  ASSUME NEW X, NEW s \in Seq(X), NEW x \in X, NEW N
  PROVE  /\ Among(Append(s, x), N) = IF x.name \in N THEN Append(Among(s, N), x) ELSE Among(s, N)
         /\ Among(s, N) \in Seq(X)
<1> DEFINE t == Append(s, x)
           a == {p \in ToSet(t) : p.name \in N}
           c == {p \in ToSet(s) : p.name \in N}
<1>1. IsSeq(s) /\ ToSet(s) \subseteq X /\ ToSet(t) = ToSet(s) \cup {x}
  <2>1. IsSeq(s) /\ ToSet(s) \subseteq X
    BY SeqOfMore
  <2> QED
    BY <2>1, AnotherSent DEF IsSeq
<1> HIDE DEF t
<1>2. Kept(s, a) = Kept(s, c)
  <2>1. a \cap ToSet(s) = c \cap ToSet(s)
    BY <1>1
  <2> HIDE DEF a, c
  <2> QED
    BY <1>1, <2>1, KeptAlike
<1>3. x \in a <=> x.name \in N
  BY <1>1
<1> HIDE DEF a
<1>4. Kept(t, a) = IF x \in a THEN Append(Kept(s, a), x) ELSE Kept(s, a)
  BY KeptMore DEF t
<1>5. Kept(s, c) \in Seq(X)
  <2> DEFINE k == Kept(s, c)
  <2>1. IsSeq(k) /\ ToSet(k) \subseteq X
    BY <1>1, KeptElements
  <2> HIDE DEF k
  <2>2. Len(k) \in Nat /\ \A i \in 1 .. Len(k) : k[i] \in X
    BY <2>1 DEF IsSeq, ToSet
  <2>3. k \in Seq(X)
    BY <2>1, <2>2 DEF IsSeq
  <2> QED
    BY <2>3 DEF k
<1> QED
  BY <1>2, <1>3, <1>4, <1>5 DEF Among, a, t

(* The values of pairs.                                                    *)
Valued(m) == [i \in DOMAIN m |-> m[i].value]

LEMMA ValuedMore ==
  ASSUME NEW X, NEW m \in Seq(X), NEW x \in X
  PROVE  Valued(Append(m, x)) = Append(Valued(m), x.value) /\ IsSeq(Valued(m))
<1>1. Len(m) \in Nat /\ DOMAIN m = 1 .. Len(m) /\ DOMAIN Append(m, x) = 1 .. Len(m) + 1
  OBVIOUS
<1>2. Append(m, x)[Len(m) + 1] = x /\ \A i \in 1 .. Len(m) : Append(m, x)[i] = m[i]
  OBVIOUS
<1> DEFINE v == Valued(m)
           Y == {m[i].value : i \in 1 .. Len(m)}
<1>3. v = [i \in 1 .. Len(m) |-> m[i].value]
  BY <1>1 DEF Valued
<1>4. v \in Seq(Y) /\ Len(v) = Len(m)
  <2>1. \A i \in 1 .. Len(m) : m[i].value \in Y
    OBVIOUS
  <2> HIDE DEF Y
  <2> QED
    BY <1>1, <1>3, <2>1
<1> HIDE DEF v, Y
<1>5. Append(v, x.value) = [i \in 1 .. Len(m) + 1 |-> IF i = Len(m) + 1 THEN x.value ELSE m[i].value]
  BY <1>1, <1>3, <1>4
<1>6. Valued(Append(m, x)) = [i \in 1 .. Len(m) + 1 |-> IF i = Len(m) + 1 THEN x.value ELSE m[i].value]
  BY <1>1, <1>2 DEF Valued
<1> QED
  BY <1>4, <1>5, <1>6, SeqOfMore DEF v

LEMMA ValuesAre ==
  ASSUME NEW s, NEW n
  PROVE  ValuesOf(s, n) = Valued(Among(s, {n}))
<1>1. {p \in ToSet(s) : p.name = n} = {p \in ToSet(s) : p.name \in {n}}
  OBVIOUS
<1> QED
  BY <1>1 DEF ValuesOf, Valued, Among

LEMMA ValuesOfNothing ==
  ASSUME NEW n
  PROVE  ValuesOf(<<>>, n) = <<>>
<1>1. ValuesOf(<<>>, n) = Valued(<<>>)
  BY ValuesAre, AmongNothing
<1>2. Valued(<<>>) = <<>>
  BY DEF Valued
<1> QED
  BY <1>1, <1>2

LEMMA ValuesMore ==
  ASSUME NEW X, NEW s \in Seq(X), NEW x \in X, NEW n
  PROVE  ValuesOf(Append(s, x), n) = IF x.name = n THEN Append(ValuesOf(s, n), x.value) ELSE ValuesOf(s, n)
<1>1. /\ Among(Append(s, x), {n}) = IF x.name \in {n} THEN Append(Among(s, {n}), x) ELSE Among(s, {n})
      /\ Among(s, {n}) \in Seq(X)
  BY AmongMore
<1>2. Valued(Append(Among(s, {n}), x)) = Append(Valued(Among(s, {n})), x.value)
  BY <1>1, ValuedMore
<1> QED
  BY <1>1, <1>2, ValuesAre

LEMMA ValuesJoined ==
  ASSUME NEW X, NEW s \in Seq(X), NEW t \in Seq(X), NEW n
  PROVE  ValuesOf(s \o t, n) = ValuesOf(s, n) \o ValuesOf(t, n)
<1> DEFINE T == {u \in Seq(X) : ValuesOf(s \o u, n) = ValuesOf(s, n) \o ValuesOf(u, n)}
<1>1. \A u \in Seq(X) : IsSeq(ValuesOf(u, n))
  BY ValuesAreSeq, SeqOfMore
<1>2. <<>> \in T
  <2> DEFINE v == ValuesOf(s, n)
  <2>1. s \o <<>> = s /\ ValuesOf(<<>>, n) = <<>>
    BY ValuesOfNothing
  <2>2. v \in Seq(ToSet(v))
    BY <1>1 DEF IsSeq
  <2> HIDE DEF v
  <2>3. v \o <<>> = v
    BY <2>2
  <2>4. ValuesOf(s \o <<>>, n) = v
    BY <2>1 DEF v
  <2>5. ValuesOf(s \o <<>>, n) = v \o ValuesOf(<<>>, n)
    BY <2>1, <2>3, <2>4
  <2>6. ValuesOf(s \o <<>>, n) = ValuesOf(s, n) \o ValuesOf(<<>>, n)
    BY <2>5 DEF v
  <2>7. <<>> \in Seq(X)
    OBVIOUS
  <2> QED
    BY <2>6, <2>7
<1>3. ASSUME NEW u \in Seq(X), NEW x \in X, ValuesOf(s \o u, n) = ValuesOf(s, n) \o ValuesOf(u, n)
      PROVE  ValuesOf(s \o Append(u, x), n) = ValuesOf(s, n) \o ValuesOf(Append(u, x), n)
  <2>1. s \o Append(u, x) = Append(s \o u, x) /\ s \o u \in Seq(X)
    OBVIOUS
  <2>2. ValuesOf(Append(s \o u, x), n) = IF x.name = n THEN Append(ValuesOf(s \o u, n), x.value) ELSE ValuesOf(s \o u, n)
    BY <2>1, ValuesMore
  <2>3. ValuesOf(Append(u, x), n) = IF x.name = n THEN Append(ValuesOf(u, n), x.value) ELSE ValuesOf(u, n)
    BY ValuesMore
  <2> DEFINE v == ValuesOf(s, n)
             w == ValuesOf(u, n)
             y == x.value
  <2>4. v \o Append(w, y) = Append(v \o w, y)
    <3>1. v \in Seq(ToSet(v)) /\ w \in Seq(ToSet(w))
      BY <1>1 DEF IsSeq
    <3> HIDE DEF v, w, y
    <3> DEFINE Y == ToSet(v) \cup ToSet(w) \cup {y}
    <3>2. v \in Seq(Y) /\ w \in Seq(Y) /\ y \in Y
      <4>1. \A i \in 1 .. Len(v) : v[i] \in ToSet(v)
        BY <3>1
      <4>2. \A i \in 1 .. Len(w) : w[i] \in ToSet(w)
        BY <3>1
      <4> QED
        BY <3>1, <4>1, <4>2
    <3> HIDE DEF Y
    <3> QED
      BY <3>2
  <2> QED
    BY <1>3, <2>1, <2>2, <2>3, <2>4
<1>4. \A u \in Seq(X) : \A x \in X : u \in T => Append(u, x) \in T
  <2>1. \A u \in Seq(X) : \A x \in X : Append(u, x) \in Seq(X)
    OBVIOUS
  <2> QED
    BY <1>3, <2>1
<1> HIDE DEF T
<1>5. t \in T
  BY <1>2, <1>4, Growing
<1> QED
  BY <1>5 DEF T

LEMMA ValuesAmong ==
  ASSUME NEW s, IsSeq(s), NEW N, NEW n
  PROVE  ValuesOf(Among(s, N), n) = IF n \in N THEN ValuesOf(s, n) ELSE <<>>
<1> DEFINE X == ToSet(s)
<1>1. s \in Seq(X)
  BY DEF IsSeq
<1> HIDE DEF X
<1> DEFINE T == {t \in Seq(X) : ValuesOf(Among(t, N), n) = IF n \in N THEN ValuesOf(t, n) ELSE <<>>}
<1>2. <<>> \in T
  BY AmongNothing, ValuesOfNothing
<1>3. ASSUME NEW t \in Seq(X), NEW x \in X, t \in T PROVE Append(t, x) \in T
  <2>1. Append(t, x) \in Seq(X)
    OBVIOUS
  <2>2. /\ Among(Append(t, x), N) = IF x.name \in N THEN Append(Among(t, N), x) ELSE Among(t, N)
        /\ Among(t, N) \in Seq(X)
    BY AmongMore
  <2>3. ValuesOf(Append(Among(t, N), x), n) = IF x.name = n THEN Append(ValuesOf(Among(t, N), n), x.value) ELSE ValuesOf(Among(t, N), n)
    BY <2>2, ValuesMore
  <2>4. ValuesOf(Append(t, x), n) = IF x.name = n THEN Append(ValuesOf(t, n), x.value) ELSE ValuesOf(t, n)
    BY ValuesMore
  <2>5. ValuesOf(Among(t, N), n) = IF n \in N THEN ValuesOf(t, n) ELSE <<>>
    BY <1>3
  <2>6. ValuesOf(Among(Append(t, x), N), n) = IF n \in N THEN ValuesOf(Append(t, x), n) ELSE <<>>
    BY <2>2, <2>3, <2>4, <2>5
  <2> QED
    BY <2>1, <2>6
<1> HIDE DEF T
<1>4. s \in T
  BY <1>1, <1>2, <1>3, Growing
<1> QED
  BY <1>4 DEF T

(* Pairs that all have the same name.                                      *)
LEMMA ValuesOfOne ==
  ASSUME NEW m, NEW X, \A x \in X : x.name = m, NEW s \in Seq(X), NEW n
  PROVE  ValuesOf(s, n) = IF n = m THEN Valued(s) ELSE <<>>
<1> DEFINE T == {t \in Seq(X) : ValuesOf(t, n) = IF n = m THEN Valued(t) ELSE <<>>}
<1>1. <<>> \in T
  <2>1. Valued(<<>>) = <<>>
    BY DEF Valued
  <2> QED
    BY <2>1, ValuesOfNothing
<1>2. ASSUME NEW t \in Seq(X), NEW x \in X, t \in T PROVE Append(t, x) \in T
  <2>1. Append(t, x) \in Seq(X) /\ x.name = m
    OBVIOUS
  <2>2. ValuesOf(Append(t, x), n) = IF x.name = n THEN Append(ValuesOf(t, n), x.value) ELSE ValuesOf(t, n)
    BY ValuesMore
  <2>3. Valued(Append(t, x)) = Append(Valued(t), x.value)
    BY ValuedMore
  <2>4. ValuesOf(t, n) = IF n = m THEN Valued(t) ELSE <<>>
    BY <1>2
  <2>5. ValuesOf(Append(t, x), n) = IF n = m THEN Valued(Append(t, x)) ELSE <<>>
    BY <2>1, <2>2, <2>3, <2>4
  <2> QED
    BY <2>1, <2>5
<1> HIDE DEF T
<1>3. s \in T
  BY <1>1, <1>2, Growing
<1> QED
  BY <1>3 DEF T

LEMMA NoValues ==
  ASSUME NEW s, IsSeq(s), NEW n, n \notin Named(s)
  PROVE  ValuesOf(s, n) = <<>>
<1> DEFINE k == Among(s, {n})
<1>1. IsSeq(k) /\ ToSet(k) = ToSet(s) \cap {p \in ToSet(s) : p.name \in {n}}
  BY KeptElements DEF Among
<1>2. ToSet(k) = {}
  BY <1>1 DEF Named
<1> HIDE DEF k
<1>3. k = <<>>
  <2>1. k \in Seq({})
    BY <1>1, <1>2 DEF IsSeq
  <2> QED
    BY <2>1
<1>4. Valued(<<>>) = <<>>
  BY DEF Valued
<1> QED
  BY <1>3, <1>4, ValuesAre DEF k

LEMMA FlatMore ==
  ASSUME NEW X, NEW ss \in Seq(Seq(X)), NEW s \in Seq(X)
  PROVE  FlattenSeq(Append(ss, s)) = FlattenSeq(ss) \o s
<1> DEFINE tt == Append(ss, s)
           n == Len(ss)
<1>1. /\ tt \in Seq(Seq(X)) /\ n \in Nat /\ DOMAIN ss = 1 .. n /\ Len(tt) = n + 1 /\ DOMAIN tt = 1 .. n + 1
      /\ tt[n + 1] = s /\ \A i \in 1 .. n : tt[i] = ss[i]
  OBVIOUS
<1>2. /\ IsSeq(ss) /\ \A i \in DOMAIN ss : IsSeq(ss[i])
      /\ IsSeq(tt) /\ \A i \in DOMAIN tt : IsSeq(tt[i])
  <2> HIDE DEF tt
  <2>1. (\A i \in DOMAIN ss : ss[i] \in Seq(X)) /\ \A i \in DOMAIN tt : tt[i] \in Seq(X)
    BY <1>1
  <2> QED
    BY <1>1, <2>1, SeqOfSome
<1> HIDE DEF tt
<1>3. PICK h : /\ FlattenSeq(tt) = h[n + 1]
               /\ \A i \in 1 .. n + 1 : h[i] = IF i = 1 THEN tt[i] ELSE h[i - 1] \o tt[i]
  <2>1. Len(tt) = n + 1 /\ Len(tt) # 0
    BY <1>1
  <2>2. PICK h : /\ FlattenSeq(tt) = h[Len(tt)]
                 /\ \A i \in 1 .. Len(tt) : h[i] = IF i = 1 THEN tt[i] ELSE h[i - 1] \o tt[i]
    BY <1>2, <2>1, FlatUnfolds
  <2> QED
    BY <2>1, <2>2
<1>4. CASE n = 0
  <2>1. FlattenSeq(tt) = s
    BY <1>1, <1>3, <1>4
  <2>2. FlattenSeq(ss) = <<>>
    BY <1>2, <1>4, FlatUnfolds
  <2>3. <<>> \o s = s
    OBVIOUS
  <2> QED
    BY <2>1, <2>2, <2>3 DEF tt
<1>5. CASE n # 0
  <2>1. PICK g : /\ FlattenSeq(ss) = g[n]
                 /\ \A i \in 1 .. n : g[i] = IF i = 1 THEN ss[i] ELSE g[i - 1] \o ss[i]
    BY <1>2, <1>5, FlatUnfolds
  <2> DEFINE T == {i \in 0 .. n : i # 0 => h[i] = g[i]}
  <2>2. 0 \in T
    BY <1>1
  <2>3. ASSUME NEW i \in 1 .. n, i - 1 \in T PROVE i \in T
    <3>1. i \in 0 .. n /\ i \in 1 .. n + 1 /\ tt[i] = ss[i]
      BY <1>1
    <3>2. h[i] = g[i]
      <4>1. CASE i = 1
        BY <1>3, <2>1, <3>1, <4>1
      <4>2. CASE i # 1
        <5>1. h[i - 1] = g[i - 1]
          BY <2>3, <4>2
        <5> QED
          BY <1>3, <2>1, <3>1, <4>2, <5>1
      <4> QED
        BY <4>1, <4>2
    <3> QED
      BY <3>1, <3>2
  <2>4. n \in 0 .. n
    BY <1>1
  <2> HIDE DEF T
  <2>5. n \in T
    BY <1>1, <2>2, <2>3, <2>4, UpTo
  <2>6. h[n] = FlattenSeq(ss)
    BY <1>5, <2>1, <2>5 DEF T
  <2>7. n + 1 \in 1 .. n + 1 /\ n + 1 # 1 /\ (n + 1) - 1 = n
    BY <1>1, <1>5
  <2>8. h[n + 1] = h[n] \o s
    BY <1>1, <1>3, <2>7
  <2> QED
    BY <1>3, <2>6, <2>8 DEF tt
<1> QED
  BY <1>4, <1>5

LEMMA FlatNothing == FlattenSeq(<<>>) = <<>>
<1>1. IsSeq(<<>>) /\ Len(<<>>) = 0 /\ \A i \in DOMAIN <<>> : IsSeq(<<>>[i])
  BY NothingInNothing
<1> QED
  BY <1>1, FlatUnfolds

(* The parameters that fieldsToQuery makes of the fields.                  *)
ParamsOf(fields, n) == [i \in DOMAIN fields[n] |-> [name |-> n, value |-> fields[n][i]]]
AllParams(fields, names) == [i \in DOMAIN names |-> ParamsOf(fields, names[i])]

LEMMA ParamsAreFields ==
  ASSUME NEW fields, \A k \in DOMAIN fields : IsSeq(fields[k]), NEW m \in DOMAIN fields, NEW n
  PROVE  ValuesOf(ParamsOf(fields, m), n) = IF n = m THEN fields[m] ELSE <<>>
<1> DEFINE s == ParamsOf(fields, m)
           X == {[name |-> m, value |-> fields[m][i]] : i \in DOMAIN fields[m]}
           f == fields[m]
<1>1. IsSeq(f)
  OBVIOUS
<1>2. s = [i \in DOMAIN f |-> s[i]] /\ \A i \in DOMAIN f : s[i] \in X /\ s[i].value = f[i]
  BY DEF ParamsOf
<1>3. \A x \in X : x.name = m
  OBVIOUS
<1> HIDE DEF f, s, X
<1>4. DOMAIN f = 1 .. Len(f) /\ Len(f) \in Nat /\ f = [i \in 1 .. Len(f) |-> f[i]]
  BY <1>1 DEF IsSeq
<1>5. s \in Seq(X) /\ DOMAIN s = DOMAIN f
  BY <1>2, <1>4
<1>6. Valued(s) = f
  <2>1. Valued(s) = [i \in 1 .. Len(f) |-> f[i]]
    BY <1>2, <1>4, <1>5 DEF Valued
  <2> QED
    BY <1>4, <2>1
<1>7. ValuesOf(s, n) = IF n = m THEN Valued(s) ELSE <<>>
  BY <1>3, <1>5, ValuesOfOne
<1> QED
  BY <1>6, <1>7 DEF s, f

LEMMA FieldsAreGiven ==
  ASSUME NEW fields, \A k \in DOMAIN fields : IsSeq(fields[k]),
         NEW names \in Seq(DOMAIN fields), IsInjective(names), NEW n
  PROVE  ValuesOf(FlattenSeq(AllParams(fields, names)), n) = IF n \in ToSet(names) THEN fields[n] ELSE <<>>
<1> DEFINE D == DOMAIN fields
           X == UNION {ToSet(ParamsOf(fields, m)) : m \in D}
           Given(t) == ValuesOf(FlattenSeq(AllParams(fields, t)), n) = IF n \in ToSet(t) THEN fields[n] ELSE <<>>
           T == {t \in Seq(D) : AllParams(fields, t) \in Seq(Seq(X)) /\ FlattenSeq(AllParams(fields, t)) \in Seq(X)
                                /\ (IsInjective(t) => Given(t))}
<1>1. ASSUME NEW m \in D PROVE ParamsOf(fields, m) \in Seq(X)
  <2> DEFINE s == ParamsOf(fields, m)
             f == fields[m]
  <2>1. IsSeq(f) /\ s = [i \in DOMAIN f |-> s[i]]
    BY DEF ParamsOf
  <2>2. ToSet(s) \subseteq X
    OBVIOUS
  <2> HIDE DEF s, f, X
  <2>3. IsSeq(s)
    BY <2>1, AsLong
  <2>4. Len(s) \in Nat /\ \A i \in 1 .. Len(s) : s[i] \in X
    BY <2>2, <2>3 DEF IsSeq, ToSet
  <2>5. s \in Seq(X)
    BY <2>3, <2>4 DEF IsSeq
  <2> QED
    BY <2>5 DEF s
<1> HIDE DEF X
<1>2. <<>> \in T
  <2>1. AllParams(fields, <<>>) = <<>>
    BY DEF AllParams
  <2>2. <<>> \in Seq(D) /\ <<>> \in Seq(Seq(X)) /\ <<>> \in Seq(X) /\ n \notin ToSet(<<>>)
    BY NothingInNothing
  <2> QED
    BY <2>1, <2>2, FlatNothing, ValuesOfNothing
<1>3. ASSUME NEW t \in Seq(D), NEW m \in D, t \in T PROVE Append(t, m) \in T
  <2> DEFINE all == AllParams(fields, t)
             one == ParamsOf(fields, m)
  <2>1. all \in Seq(Seq(X)) /\ FlattenSeq(all) \in Seq(X) /\ one \in Seq(X)
    BY <1>1, <1>3
  <2>2. AllParams(fields, Append(t, m)) = Append(all, one)
    <3>1. Len(t) \in Nat /\ DOMAIN t = 1 .. Len(t) /\ DOMAIN Append(t, m) = 1 .. Len(t) + 1
      OBVIOUS
    <3>2. Append(t, m)[Len(t) + 1] = m /\ \A i \in 1 .. Len(t) : Append(t, m)[i] = t[i]
      OBVIOUS
    <3>3. all = [i \in 1 .. Len(t) |-> ParamsOf(fields, t[i])] /\ Len(all) = Len(t)
      <4>1. all = [i \in 1 .. Len(t) |-> ParamsOf(fields, t[i])]
        BY <3>1 DEF AllParams
      <4> HIDE DEF all
      <4> QED
        BY <2>1, <3>1, <4>1
    <3> HIDE DEF all, one
    <3>4. Append(all, one) = [i \in 1 .. Len(t) + 1 |-> IF i = Len(t) + 1 THEN one ELSE ParamsOf(fields, t[i])]
      BY <2>1, <3>1, <3>3
    <3>5. AllParams(fields, Append(t, m)) = [i \in 1 .. Len(t) + 1 |-> IF i = Len(t) + 1 THEN one ELSE ParamsOf(fields, t[i])]
      BY <3>1, <3>2 DEF AllParams, one
    <3> QED
      BY <3>4, <3>5
  <2> HIDE DEF all, one
  <2>3. FlattenSeq(Append(all, one)) = FlattenSeq(all) \o one
    BY <2>1, FlatMore
  <2>4. Append(all, one) \in Seq(Seq(X)) /\ FlattenSeq(all) \o one \in Seq(X) /\ Append(t, m) \in Seq(D)
    BY <2>1
  <2>5. ASSUME IsInjective(Append(t, m)) PROVE Given(Append(t, m))
    <3>1. IsInjective(t) /\ m \notin ToSet(t) /\ ToSet(Append(t, m)) = ToSet(t) \cup {m}
      BY <2>5, InjectiveMore
    <3>2. ValuesOf(FlattenSeq(all), n) = IF n \in ToSet(t) THEN fields[n] ELSE <<>>
      BY <1>3, <3>1 DEF all
    <3>3. ValuesOf(FlattenSeq(all) \o one, n) = ValuesOf(FlattenSeq(all), n) \o ValuesOf(one, n)
      BY <2>1, ValuesJoined
    <3>4. ValuesOf(one, n) = IF n = m THEN fields[m] ELSE <<>>
      BY ParamsAreFields DEF one
    <3> DEFINE v == fields[n]
    <3>5. n \in D => v \o <<>> = v /\ <<>> \o v = v
      <4>1. n \in D => v \in Seq(ToSet(v))
        BY DEF IsSeq
      <4> HIDE DEF v
      <4> QED
        BY <4>1
    <3>6. <<>> \o <<>> = <<>> /\ ToSet(t) \subseteq D
      BY SeqOfMore
    <3>7. ValuesOf(FlattenSeq(all), n) \o ValuesOf(one, n) = IF n \in ToSet(t) \cup {m} THEN fields[n] ELSE <<>>
      <4>1. CASE n \in ToSet(t)
        BY <3>1, <3>2, <3>4, <3>5, <3>6, <4>1
      <4>2. CASE n = m
        BY <3>1, <3>2, <3>4, <3>5, <4>2
      <4>3. CASE n \notin ToSet(t) \cup {m}
        BY <3>2, <3>4, <3>6, <4>3
      <4> QED
        BY <4>1, <4>2, <4>3
    <3> QED
      BY <2>2, <2>3, <3>1, <3>3, <3>7
  <2> QED
    BY <2>2, <2>3, <2>4, <2>5
<1> HIDE DEF T
<1>4. names \in T
  <2> HIDE DEF D
  <2>1. names \in Seq(D)
    BY DEF D
  <2> QED
    BY <1>2, <1>3, <2>1, Growing
<1> QED
  BY <1>4 DEF T

LEMMA SortedNames ==
  ASSUME NEW names, names \subseteq ToSet(NameOrder)
  PROVE  Sorted(names) \in Seq(names) /\ IsInjective(Sorted(names)) /\ ToSet(Sorted(names)) = names
<1> DEFINE s == Sorted(names)
<1>1. NameOrder \in Seq(ToSet(NameOrder)) /\ IsInjective(NameOrder)
  BY NameOrderAssumption DEF IsSeq
<1>2. IsSeq(s) /\ ToSet(s) = names
  BY KeptElements, NameOrderAssumption DEF Sorted
<1>3. IsInjective(s)
  BY <1>1, KeptInjective DEF Sorted
<1> QED
  BY <1>2, <1>3 DEF IsSeq

(* Decoding leaves the parameters of a readable name alone.                *)
LEMMA DecodedMore ==
  ASSUME NEW X, NEW s \in Seq(X), NEW x \in X
  PROVE  Decoded(Append(s, x)) = Append(Decoded(s), [name |-> Unescaped(x.name), value |-> Unescaped(AfterCut(x.value))])
<1> DEFINE D(p) == [name |-> Unescaped(p.name), value |-> Unescaped(AfterCut(p.value))]
           t == Append(s, x)
<1>1. Len(s) \in Nat /\ DOMAIN s = 1 .. Len(s) /\ DOMAIN t = 1 .. Len(s) + 1
  OBVIOUS
<1>2. t[Len(s) + 1] = x /\ \A i \in 1 .. Len(s) : t[i] = s[i]
  OBVIOUS
<1>3. Decoded(s) = [i \in 1 .. Len(s) |-> D(s[i])] /\ Decoded(t) = [i \in 1 .. Len(s) + 1 |-> D(t[i])]
  BY <1>1 DEF Decoded
<1> HIDE DEF t, D
<1>4. ASSUME NEW u, u = [i \in 1 .. Len(s) |-> D(s[i])]
      PROVE  Append(u, D(x)) = [i \in 1 .. Len(s) + 1 |-> IF i = Len(s) + 1 THEN D(x) ELSE D(s[i])]
  <2>1. u \in Seq({D(s[i]) : i \in 1 .. Len(s)}) /\ Len(u) = Len(s)
    BY <1>1, <1>4
  <2> QED
    BY <1>1, <1>4, <2>1
<1>5. Decoded(t) = [i \in 1 .. Len(s) + 1 |-> IF i = Len(s) + 1 THEN D(x) ELSE D(s[i])]
  <2>1. \A i \in 1 .. Len(s) + 1 : i # Len(s) + 1 => i \in 1 .. Len(s)
    BY <1>1
  <2> QED
    BY <1>2, <1>3, <2>1
<1> QED
  BY <1>3, <1>4, <1>5 DEF t, D

LEMMA DecodedValues ==
  ASSUME NEW query, IsSeq(query), NEW n, Readable(query, n)
  PROVE  ValuesOf(Decoded(query), n) = ValuesOf(query, n)
<1> DEFINE X == ToSet(query)
           Y == {[name |-> Unescaped(p.name), value |-> Unescaped(AfterCut(p.value))] : p \in X}
           T == {t \in Seq(X) : Decoded(t) \in Seq(Y) /\ (Readable(t, n) => ValuesOf(Decoded(t), n) = ValuesOf(t, n))}
<1>1. query \in Seq(X)
  BY DEF IsSeq
<1> HIDE DEF X
<1>2. <<>> \in T
  <2>1. Decoded(<<>>) = <<>> /\ <<>> \in Seq(X) /\ <<>> \in Seq(Y)
    BY DEF Decoded
  <2> QED
    BY <2>1
<1>3. ASSUME NEW t \in Seq(X), NEW p \in X, t \in T PROVE Append(t, p) \in T
  <2> DEFINE d == [name |-> Unescaped(p.name), value |-> Unescaped(AfterCut(p.value))]
  <2>1. d \in Y /\ d.name = Unescaped(p.name) /\ d.value = Unescaped(AfterCut(p.value))
    OBVIOUS
  <2> HIDE DEF d, Y
  <2>2. /\ Decoded(Append(t, p)) = Append(Decoded(t), d) /\ Decoded(t) \in Seq(Y)
        /\ Append(t, p) \in Seq(X) /\ Append(Decoded(t), d) \in Seq(Y)
    BY <1>3, <2>1, DecodedMore DEF d
  <2>3. /\ ValuesOf(Append(t, p), n) = IF p.name = n THEN Append(ValuesOf(t, n), p.value) ELSE ValuesOf(t, n)
        /\ ValuesOf(Append(Decoded(t), d), n)
             = IF d.name = n THEN Append(ValuesOf(Decoded(t), n), d.value) ELSE ValuesOf(Decoded(t), n)
    BY <2>1, <2>2, ValuesMore
  <2>4. ASSUME Readable(Append(t, p), n)
        PROVE  /\ Readable(t, n) /\ (d.name = n <=> p.name = n)
               /\ p.name = n => d.value = p.value
    <3> DEFINE v == ValuesOf(t, n)
    <3>1. IsSeq(v)
      BY ValuesAreSeq, SeqOfMore
    <3>2. p.name = n => ToSet(Append(v, p.value)) = ToSet(v) \cup {p.value}
      <4> HIDE DEF v
      <4> QED
        BY <3>1, AnotherSent DEF IsSeq
    <3>3. d.name = n <=> p.name = n
      BY <2>1, <2>4 DEF Readable, Unescaped
    <3> HIDE DEF v
    <3>4. Readable(t, n)
      BY <2>3, <2>4, <3>2 DEF Readable, v
    <3>5. p.name = n => p.value \notin {NoValue} \cup Undecodable
      BY <2>3, <2>4, <3>2 DEF Readable, v
    <3>6. p.name = n => d.value = p.value
      BY <2>1, <3>5 DEF Unescaped, AfterCut
    <3> QED
      BY <3>3, <3>4, <3>6
  <2>5. Readable(Append(t, p), n) => ValuesOf(Append(Decoded(t), d), n) = ValuesOf(Append(t, p), n)
    BY <1>3, <2>3, <2>4
  <2> QED
    BY <2>2, <2>5
<1> HIDE DEF T
<1>4. query \in T
  BY <1>1, <1>2, <1>3, Growing
<1> QED
  BY <1>4 DEF T

(* A query comes back sorted by name, with the values of each name that    *)
(* can be read.                                                            *)
LEMMA QueryComesBack ==
  ASSUME NEW query, IsSeq(query), Named(query) \subseteq ToSet(NameOrder), NEW n, Readable(query, n)
  PROVE  ValuesOf(FieldsToQuery(QueryToFields(query)), n) = ValuesOf(query, n)
<1> DEFINE d == Decoded(query)
           fields == QueryToFields(query)
           names == Sorted(DOMAIN fields)
<1>1. DOMAIN fields = Named(d) /\ \A k \in DOMAIN fields : IsSeq(fields[k]) /\ fields[k] = ValuesOf(d, k)
  BY DecodedIsSeq, ValuesAreSeq DEF QueryToFields
<1>7. Named(d) \subseteq ToSet(NameOrder)
  <2>1. ASSUME NEW i \in DOMAIN query PROVE d[i].name \in ToSet(NameOrder)
    <3>1. query[i].name \in Named(query) /\ d[i].name = Unescaped(query[i].name)
      BY DEF Named, ToSet, Decoded
    <3> QED
      BY <3>1, EmptyAssumption DEF Unescaped
  <2>2. DOMAIN d = DOMAIN query
    BY DEF Decoded
  <2> HIDE DEF d
  <2> QED
    BY <2>1, <2>2 DEF Named, ToSet
<1>8. IsSeq(d) /\ ValuesOf(d, n) = ValuesOf(query, n)
  BY DecodedIsSeq, DecodedValues
<1>2. FieldsToQuery(fields) = FlattenSeq(AllParams(fields, names))
  BY DEF FieldsToQuery, AllParams, ParamsOf
<1> HIDE DEF fields, d
<1>3. names \in Seq(DOMAIN fields) /\ IsInjective(names) /\ ToSet(names) = DOMAIN fields
  BY <1>1, <1>7, SortedNames
<1> HIDE DEF names
<1>4. ValuesOf(FlattenSeq(AllParams(fields, names)), n) = IF n \in ToSet(names) THEN fields[n] ELSE <<>>
  BY <1>1, <1>3, FieldsAreGiven
<1>5. CASE n \in Named(d)
  BY <1>1, <1>2, <1>3, <1>4, <1>5, <1>8 DEF fields
<1>6. CASE n \notin Named(d)
  BY <1>1, <1>2, <1>3, <1>4, <1>6, <1>8, NoValues DEF fields
<1> QED
  BY <1>5, <1>6

LEMMA FilteredIsAmong ==
  ASSUME NEW b, NEW query, NEW M, Named(query) \subseteq M
  PROVE  FilterQuery(b, query) =
           Among(query, {n \in M : ListSelected(b.cache.queryStrings, n) \/ ListSelected(b.orp.queryStrings, n)})
<1> DEFINE N == {n \in M : ListSelected(b.cache.queryStrings, n) \/ ListSelected(b.orp.queryStrings, n)}
           chosen == {p \in ToSet(query) : ListSelected(b.cache.queryStrings, p.name) \/ ListSelected(b.orp.queryStrings, p.name)}
<1>1. \A p \in ToSet(query) : p.name \in M
  BY DEF Named
<1>2. chosen = {p \in ToSet(query) : p.name \in N}
  BY <1>1
<1> HIDE DEF N
<1> QED
  BY <1>2 DEF FilterQuery, Among, N

(* Whatever the policies select.                                           *)
LEMMA QueryIsNotNoticed ==
  ASSUME NEW query, IsSeq(query), Named(query) \subseteq ToSet(NameOrder), NEW b, NEW n,
         Readable(FilterQuery(b, query), n)
  PROVE  ValuesOf(FilterQuery(b, query), n) = ValuesOf(FilterQuery(b, FieldsToQuery(QueryToFields(query))), n)
<1> DEFINE other == FieldsToQuery(QueryToFields(query))
           M == Named(query) \cup Named(other)
           N == {k \in M : ListSelected(b.cache.queryStrings, k) \/ ListSelected(b.orp.queryStrings, k)}
<1>1. IsSeq(other) /\ (Readable(query, n) => ValuesOf(other, n) = ValuesOf(query, n))
  BY QueryIsSeq, QueryComesBack
<1> HIDE DEF other
<1>2. FilterQuery(b, query) = Among(query, N) /\ FilterQuery(b, other) = Among(other, N)
  <2> HIDE DEF M
  <2>1. Named(query) \subseteq M /\ Named(other) \subseteq M
    BY DEF M
  <2> QED
    BY <2>1, FilteredIsAmong
<1> HIDE DEF N
<1>3. /\ ValuesOf(Among(query, N), n) = IF n \in N THEN ValuesOf(query, n) ELSE <<>>
      /\ ValuesOf(Among(other, N), n) = IF n \in N THEN ValuesOf(other, n) ELSE <<>>
  BY <1>1, ValuesAmong
<1>4. n \in N => Readable(query, n)
  BY <1>2, <1>3 DEF Readable
<1> QED
  BY <1>1, <1>2, <1>3, <1>4 DEF other

LEMMA CountTo ==
  ASSUME NEW n \in Nat
  PROVE  IsFiniteSet(1 .. n) /\ Cardinality(1 .. n) = n
<1>1. IsFiniteSet(1 .. n) /\ Cardinality(1 .. n) = IF 1 > n THEN 0 ELSE n - 1 + 1
  BY FS_Interval
<1> QED
  BY <1>1

(* Two lists of the same elements, each there once.                        *)
LEMMA OnceEach ==
  ASSUME NEW s, IsSeq(s), IsInjective(s), NEW t, IsSeq(t), IsInjective(t), ToSet(s) = ToSet(t)
  PROVE  SameElements(s, t)
<1>1. ASSUME NEW u, IsSeq(u), IsInjective(u)
      PROVE  Len(u) \in Nat /\ Cardinality(ToSet(u)) = Len(u)
  <2> DEFINE I == 1 .. Len(u)
             U == ToSet(u)
  <2>1. u \in Seq(U) /\ Len(u) \in Nat /\ U = {u[i] : i \in I} /\ DOMAIN u = I
    BY <1>1, SeqOfMore DEF IsSeq, ToSet
  <2> HIDE DEF U
  <2>2. u \in [I -> U]
    BY <2>1
  <2>3. u \in Surjection(I, U) /\ u \in Injection(I, U)
    BY <1>1, <2>1, <2>2 DEF Surjection, Injection
  <2>4. IsFiniteSet(I) /\ Cardinality(I) = Len(u)
    BY <2>1, CountTo
  <2> HIDE DEF I
  <2> QED
    BY <2>1, <2>3, <2>4, FS_Surjection DEF U
<1> QED
  BY <1>1 DEF SameElements

LEMMA NamesDiffer ==
  ASSUME NEW pairs, IsSeq(pairs), OneOfEach(pairs)
  PROVE  \A i, j \in DOMAIN pairs : pairs[i].name = pairs[j].name => i = j
<1> DEFINE n == Len(pairs)
           f == [i \in 1 .. n |-> pairs[i].name]
           T == Named(pairs)
<1>1. n \in Nat /\ DOMAIN pairs = 1 .. n /\ T = {pairs[i].name : i \in 1 .. n}
  BY SeqOfMore DEF IsSeq, Named, ToSet
<1>2. f \in Surjection(1 .. n, T)
  <2>1. f \in [1 .. n -> T]
    BY <1>1
  <2>2. \A k \in T : \E i \in 1 .. n : f[i] = k
    BY <1>1
  <2> HIDE DEF f, T
  <2> QED
    BY <2>1, <2>2 DEF Surjection
<1>3. IsFiniteSet(1 .. n) /\ Cardinality(1 .. n) = n
  BY <1>1, CountTo
<1>4. Cardinality(T) = n
  BY DEF OneOfEach
<1> HIDE DEF f, T
<1>5. f \in Injection(1 .. n, T)
  BY <1>2, <1>3, <1>4, FS_Surjection
<1>6. \A i, j \in 1 .. n : f[i] = f[j] => i = j
  BY <1>5 DEF Injection, IsInjective
<1> QED
  BY <1>1, <1>6 DEF f

(* A Cookie header with one cookie of each name comes back sorted.         *)
Once(pairs) == IsSeq(pairs) /\ (\A p \in ToSet(pairs) : IsPair(p)) /\ OneOfEach(pairs)

LEMMA CookieFound ==
  ASSUME NEW pairs, Once(pairs), NEW p \in ToSet(pairs)
  PROVE  CookiesToMap(pairs)[p.name] = p.value
<1> DEFINE k == Among(pairs, {p.name})
<1>1. IsSeq(pairs) /\ pairs \in Seq(ToSet(pairs)) /\ \A i, j \in DOMAIN pairs : pairs[i].name = pairs[j].name => i = j
  BY NamesDiffer DEF Once, IsSeq
<1>2. IsInjective(pairs)
  BY <1>1 DEF IsInjective
<1>3. IsSeq(k) /\ IsInjective(k) /\ ToSet(k) = {p}
  <2>1. IsSeq(k) /\ ToSet(k) = ToSet(pairs) \cap {q \in ToSet(pairs) : q.name \in {p.name}}
    BY <1>1, KeptElements DEF Among
  <2>2. IsInjective(k)
    BY <1>1, <1>2, KeptInjective DEF Among
  <2>3. \A q \in ToSet(pairs) : q.name = p.name => q = p
    BY <1>1 DEF ToSet
  <2> HIDE DEF k
  <2> QED
    BY <2>1, <2>2, <2>3
<1> HIDE DEF k
<1>4. Valued(k) = <<p.value>>
  <2>1. Len(k) \in Nat /\ DOMAIN k = 1 .. Len(k) /\ \A i \in 1 .. Len(k) : k[i] = p
    BY <1>3, SeqOfMore DEF IsSeq
  <2>2. \A i, j \in 1 .. Len(k) : i = j
    BY <1>3, <2>1 DEF IsInjective
  <2>3. \E i \in 1 .. Len(k) : k[i] = p
    BY <1>3, <2>1 DEF ToSet
  <2>4. Len(k) = 1
    BY <2>1, <2>2, <2>3
  <2>5. Valued(k) = [i \in 1 .. 1 |-> p.value]
    BY <2>1, <2>4 DEF Valued
  <2> QED
    BY <2>5
<1>5. ValuesOf(pairs, p.name) = <<p.value>>
  BY <1>4, ValuesAre DEF k
<1>6. Last(<<p.value>>) = p.value
  BY DEF Last
<1>7. p.name \in Named(pairs)
  BY DEF Named
<1>8. p.value # NoValue
  BY DEF Once, OneOfEach
<1> QED
  BY <1>5, <1>6, <1>7, <1>8 DEF CookiesToMap, AfterCut

LEMMA CookiesComeBack ==
  ASSUME NEW pairs, Once(pairs)
  PROVE  /\ IsSeq(CookiesToHeader(CookiesToMap(pairs)))
         /\ IsInjective(CookiesToHeader(CookiesToMap(pairs)))
         /\ ToSet(CookiesToHeader(CookiesToMap(pairs))) = ToSet(pairs)
         /\ IsInjective(pairs)
<1> DEFINE map == CookiesToMap(pairs)
           names == Sorted(DOMAIN map)
           c == CookiesToHeader(map)
<1>1. DOMAIN map = Named(pairs) /\ Named(pairs) \subseteq ToSet(NameOrder)
  BY DEF CookiesToMap, Named, Once, IsPair
<1>2. \A p \in ToSet(pairs) : map[p.name] = p.value /\ p = [name |-> p.name, value |-> p.value]
  BY CookieFound DEF Once, IsPair
<1>3. IsSeq(c) /\ c = [i \in DOMAIN names |-> [name |-> names[i], value |-> map[names[i]]]]
  BY CookiesAreSeq DEF CookiesToHeader
<1> HIDE DEF map
<1>4. IsInjective(names) /\ ToSet(names) = Named(pairs)
  BY <1>1, SortedNames
<1> HIDE DEF names, c
<1>5. IsInjective(c)
  <2>1. \A i \in DOMAIN c : c[i].name = names[i]
    BY <1>3
  <2>2. DOMAIN c = DOMAIN names
    BY <1>3
  <2> QED
    BY <1>4, <2>1, <2>2 DEF IsInjective
<1>6. ToSet(c) = {[name |-> n, value |-> map[n]] : n \in Named(pairs)}
  BY <1>3, <1>4 DEF ToSet
<1>7. ASSUME NEW x PROVE x \in ToSet(c) <=> x \in ToSet(pairs)
  <2>1. ASSUME x \in ToSet(c) PROVE x \in ToSet(pairs)
    <3>1. PICK n \in Named(pairs) : x = [name |-> n, value |-> map[n]]
      BY <1>6, <2>1
    <3>2. PICK p \in ToSet(pairs) : n = p.name
      BY DEF Named
    <3>3. x = p
      BY <1>2, <3>1, <3>2
    <3> QED
      BY <3>3
  <2>2. ASSUME x \in ToSet(pairs) PROVE x \in ToSet(c)
    <3>1. x.name \in Named(pairs) /\ x = [name |-> x.name, value |-> map[x.name]]
      BY <1>2, <2>2 DEF Named
    <3> QED
      BY <1>6, <3>1
  <2> QED
    BY <2>1, <2>2
<1>8. ToSet(c) = ToSet(pairs)
  <2> DEFINE A == ToSet(c)
             B == ToSet(pairs)
  <2>1. \A x : x \in A <=> x \in B
    BY <1>7
  <2> HIDE DEF A, B
  <2>2. A = B
    BY <2>1
  <2> QED
    BY <2>2 DEF A, B
<1>9. IsInjective(pairs)
  BY NamesDiffer DEF Once, IsInjective
<1> QED
  BY <1>3, <1>5, <1>8, <1>9 DEF c, map

LEMMA CookiesAreNotNoticed ==
  ASSUME NEW pairs, Once(pairs), NEW b
  PROVE  SameElements(FilterCookies(b, pairs), FilterCookies(b, CookiesToHeader(CookiesToMap(pairs))))
<1> DEFINE c == CookiesToHeader(CookiesToMap(pairs))
           chosen == {p \in ToSet(pairs) : ListSelected(b.cache.cookies, p.name) \/ ListSelected(b.orp.cookies, p.name)}
<1>1. IsSeq(c) /\ IsInjective(c) /\ ToSet(c) = ToSet(pairs) /\ IsInjective(pairs) /\ IsSeq(pairs)
  BY CookiesComeBack DEF Once
<1> HIDE DEF c
<1>2. FilterCookies(b, pairs) = Kept(pairs, chosen) /\ FilterCookies(b, c) = Kept(c, chosen)
  BY <1>1 DEF FilterCookies
<1> HIDE DEF chosen
<1>3. /\ IsSeq(Kept(pairs, chosen)) /\ IsSeq(Kept(c, chosen))
      /\ ToSet(Kept(pairs, chosen)) = ToSet(pairs) \cap chosen /\ ToSet(Kept(c, chosen)) = ToSet(c) \cap chosen
  BY <1>1, KeptElements
<1>4. pairs \in Seq(ToSet(pairs)) /\ c \in Seq(ToSet(c))
  BY <1>1 DEF IsSeq
<1>5. IsInjective(Kept(pairs, chosen)) /\ IsInjective(Kept(c, chosen))
  BY <1>1, <1>4, KeptInjective
<1>6. SameElements(Kept(pairs, chosen), Kept(c, chosen))
  BY <1>1, <1>3, <1>5, OnceEach
<1> QED
  BY <1>2, <1>6 DEF c

(* What a function that returns its event makes of a request.              *)
Returned(r, made, uri) == ApplyToRequest([Edited(PassThrough, NewRequestEvent(r, made)) EXCEPT !.uri = uri], r)

LEMMA ReturnedRequest ==
  ASSUME NEW r, DOMAIN r = {"method", "path", "raw", "query", "headers", "host", "ip", "id"},
         Once(Get(r.headers, "Cookie")), "Set-Cookie" \notin DOMAIN r.headers,
         NEW made, DOMAIN made \subseteq CloudFrontHeaders, NEW uri
  PROVE  /\ Returned(r, made, uri).method = r.method /\ Returned(r, made, uri).path = uri
         /\ Returned(r, made, uri).host = r.host /\ Returned(r, made, uri).ip = r.ip /\ Returned(r, made, uri).id = r.id
         /\ Returned(r, made, uri).query = FieldsToQuery(QueryToFields(r.query))
         /\ Get(Returned(r, made, uri).headers, "Cookie") = CookiesToHeader(CookiesToMap(Get(r.headers, "Cookie")))
         /\ \A n : n \notin CloudFrontHeaders \cup {"Cookie", "Host"} => SameAt(Returned(r, made, uri).headers, r.headers, n)
<1> DEFINE plain == DelHeaders(r.headers, {"Cookie", "Set-Cookie"})
           all == SetHeader(Overlay(made, plain), "Host", <<r.host>>)
           kept == Overlay(<<>>, DelHeaders(all, {}))
           map == CookiesToMap(Get(r.headers, "Cookie"))
           event == [Edited(PassThrough, NewRequestEvent(r, made)) EXCEPT !.uri = uri]
           q == Returned(r, made, uri)
<1>1. /\ event.headers = kept /\ event.uri = uri /\ event.querystring = QueryToFields(r.query)
      /\ event.cookies = Restrict(map, DOMAIN map \ {})
  <2>1. NewRequestEvent(r, made) = [uri |-> r.path, querystring |-> QueryToFields(r.query), headers |-> all, cookies |-> map]
    BY DEF NewRequestEvent, HeadersToFields
  <2> HIDE DEF all, map
  <2> QED
    BY <2>1 DEF Edited, PassThrough
<1>2. event.cookies = map
  <2>1. map = [n \in DOMAIN map |-> map[n]] /\ DOMAIN map \ {} = DOMAIN map
    BY DEF CookiesToMap
  <2> HIDE DEF map, event
  <2> QED
    BY <1>1, <2>1 DEF Restrict
<1>3. /\ q.method = r.method /\ q.path = uri /\ q.host = r.host /\ q.ip = r.ip /\ q.id = r.id
      /\ q.query = FieldsToQuery(QueryToFields(r.query))
      /\ q.headers = IF DOMAIN map = {} THEN kept ELSE SetHeader(kept, "Cookie", CookiesToHeader(map))
  <2>1. q = ApplyToRequest(event, r)
    BY DEF Returned
  <2> HIDE DEF event, q, kept, map
  <2> QED
    BY <1>1, <1>2, <2>1 DEF ApplyToRequest
<1>4. ASSUME NEW n, n \notin CloudFrontHeaders \cup {"Host"}
      PROVE  SameAt(kept, plain, n)
  <2> HIDE DEF plain
  <2>1. SameAt(all, plain, n)
    <3>1. SameAt(Overlay(made, plain), plain, n)
      BY <1>4 DEF Overlay, SameAt
    <3> QED
      BY <1>4, <3>1, SameElsewhere, SameAtIsTransitive
  <2> HIDE DEF all
  <2>2. SameAt(kept, all, n)
    BY OverlayOfNothing DEF SameAt
  <2> HIDE DEF kept
  <2> QED
    BY <2>1, <2>2, SameAtIsTransitive
<1>5. ASSUME NEW n, n # "Cookie"
      PROVE  SameAt(plain, r.headers, n)
  BY <1>5 DEF DelHeaders, Restrict, SameAt
<1>6. "Cookie" \notin DOMAIN kept
  <2>1. "Cookie" \notin DOMAIN plain
    BY DEF DelHeaders, Restrict
  <2>2. SameAt(kept, plain, "Cookie")
    BY <1>4, CloudFrontAssumption
  <2> HIDE DEF kept, plain
  <2> QED
    BY <2>1, <2>2 DEF SameAt
<1>7. DOMAIN map = {} => CookiesToHeader(map) = <<>>
  <2> DEFINE c == CookiesToHeader(map)
             s == Get(r.headers, "Cookie")
  <2>1. IsSeq(c) /\ ToSet(c) = ToSet(s) /\ DOMAIN map = Named(s)
    BY CookiesComeBack DEF CookiesToMap
  <2> HIDE DEF c, s, map
  <2>2. DOMAIN map = {} => ToSet(c) = {}
    <3>1. \A p \in ToSet(s) : p.name \in Named(s)
      BY DEF Named
    <3> QED
      BY <2>1, <3>1
  <2>3. ToSet(c) = {} => c = <<>>
    BY <2>1 DEF IsSeq
  <2> QED
    BY <2>2, <2>3 DEF c
<1> HIDE DEF kept, plain, map, q
<1>8. Get(q.headers, "Cookie") = CookiesToHeader(map)
  BY <1>3, <1>6, <1>7, SetHeaderThere DEF Get
<1>9. ASSUME NEW n, n \notin CloudFrontHeaders \cup {"Cookie", "Host"}
      PROVE  SameAt(q.headers, r.headers, n)
  <2>1. SameAt(q.headers, kept, n)
    <3>1. SameAt(kept, kept, n)
      BY DEF SameAt
    <3> QED
      BY <1>3, <1>9, <3>1, SameElsewhere
  <2>2. SameAt(kept, plain, n) /\ SameAt(plain, r.headers, n)
    BY <1>4, <1>5, <1>9
  <2> QED
    BY <2>1, <2>2, SameAtIsTransitive
<1> QED
  BY <1>3, <1>8, <1>9 DEF q, map

(* Header sets that differ at most in the order of their cookies, and what *)
(* is done to both of them.                                                *)
Alike(g, h) ==
  \A n : /\ n \in DOMAIN g <=> n \in DOMAIN h
         /\ n \in DOMAIN g => IF n = "Cookie" THEN SameElements(g[n][1], h[n][1]) ELSE g[n] = h[n]

LEMMA AlikeElsewhere ==
  ASSUME NEW g, NEW h, Alike(g, h), NEW n, n # "Cookie"
  PROVE  SameAt(g, h, n) /\ Get(g, n) = Get(h, n)
BY DEF Alike, SameAt, Get

LEMMA AlikeSet ==
  ASSUME NEW g, NEW h, Alike(g, h), NEW n, NEW line
  PROVE  Alike(SetHeader(g, n, line), SetHeader(h, n, line))
<1> DEFINE gn == SetHeader(g, n, line)
           hn == SetHeader(h, n, line)
<1>1. SameElements(line, line)
  BY DEF SameElements
<1>2. gn[n] = <<line>> /\ hn[n] = <<line>> /\ DOMAIN gn = DOMAIN g \cup {n} /\ DOMAIN hn = DOMAIN h \cup {n}
  BY DEF SetHeader, SetLines
<1>3. \A m : m # n => SameAt(gn, g, m) /\ SameAt(hn, h, m)
  BY SameElsewhere
<1> HIDE DEF gn, hn
<1>4. Alike(gn, hn)
  BY <1>1, <1>2, <1>3 DEF Alike, SameAt
<1> QED
  BY <1>4 DEF gn, hn

LEMMA AlikeCookie ==
  ASSUME NEW g, NEW h, Alike(g, h), NEW s, NEW t, SameElements(s, t)
  PROVE  Alike(SetHeader(g, "Cookie", s), SetHeader(h, "Cookie", t))
<1> DEFINE gn == SetHeader(g, "Cookie", s)
           hn == SetHeader(h, "Cookie", t)
<1>1. gn["Cookie"] = <<s>> /\ hn["Cookie"] = <<t>> /\ DOMAIN gn = DOMAIN g \cup {"Cookie"} /\ DOMAIN hn = DOMAIN h \cup {"Cookie"}
  BY DEF SetHeader, SetLines
<1>2. \A m : m # "Cookie" => SameAt(gn, g, m) /\ SameAt(hn, h, m)
  BY SameElsewhere
<1> HIDE DEF gn, hn
<1>3. Alike(gn, hn)
  BY <1>1, <1>2 DEF Alike, SameAt
<1> QED
  BY <1>3 DEF gn, hn

LEMMA AlikeOverlay ==
  ASSUME NEW f, NEW e, Alike(f, e), NEW g, NEW h, Alike(g, h)
  PROVE  Alike(Overlay(f, g), Overlay(e, h))
<1>1. /\ DOMAIN Overlay(f, g) = DOMAIN f \cup DOMAIN g /\ DOMAIN Overlay(e, h) = DOMAIN e \cup DOMAIN h
      /\ \A n \in DOMAIN f \cup DOMAIN g : Overlay(f, g)[n] = IF n \in DOMAIN f THEN f[n] ELSE g[n]
      /\ \A n \in DOMAIN e \cup DOMAIN h : Overlay(e, h)[n] = IF n \in DOMAIN e THEN e[n] ELSE h[n]
  BY DEF Overlay
<1> QED
  BY <1>1 DEF Alike

LEMMA AlikeDel ==
  ASSUME NEW g, NEW h, Alike(g, h), NEW names
  PROVE  Alike(DelHeaders(g, names), DelHeaders(h, names))
<1>1. /\ DOMAIN DelHeaders(g, names) = DOMAIN g \ names /\ DOMAIN DelHeaders(h, names) = DOMAIN h \ names
      /\ \A n \in DOMAIN g \ names : DelHeaders(g, names)[n] = g[n]
      /\ \A n \in DOMAIN h \ names : DelHeaders(h, names)[n] = h[n]
  BY DEF DelHeaders, Restrict
<1> QED
  BY <1>1 DEF Alike

LEMMA AlikeIfSame ==
  ASSUME NEW g, NEW h, \A n : SameAt(g, h, n)
  PROVE  Alike(g, h)
BY DEF Alike, SameAt, SameElements

LEMMA AlikeIsSame ==
  ASSUME NEW g, NEW h, Alike(g, h)
  PROVE  SameHeaders(g, h)
<1>1. DOMAIN g = DOMAIN h
  BY DEF Alike
<1>2. ASSUME NEW n \in DOMAIN g
      PROVE  CASE n = "Cookie" -> SameElements(g[n][1], h[n][1])
               [] n = "Set-Cookie" -> SameElements(g[n], h[n])
               [] OTHER -> g[n] = h[n]
  <2>1. n # "Cookie" => g[n] = h[n] /\ SameElements(g[n], h[n])
    BY DEF Alike, SameElements
  <2> QED
    BY <2>1 DEF Alike
<1> QED
  BY <1>1, <1>2 DEF SameHeaders

(* Two requests of which no behavior makes a difference.                   *)
Resembles(q, r) ==
  /\ q.method = r.method /\ q.path = r.path /\ q.host = r.host /\ q.ip = r.ip /\ q.id = r.id
  /\ \A n : n \notin CloudFrontHeaders \cup {"Cookie", "Host"} => SameAt(q.headers, r.headers, n)

CookiesResemble(b, q, r) ==
  LET s == FilterCookies(b, Get(q.headers, "Cookie"))
      t == FilterCookies(b, Get(r.headers, "Cookie"))
  IN  SameElements(s, t) /\ (s = <<>> <=> t = <<>>)

LEMMA ViewerHeadersSame ==
  ASSUME NEW b, NEW q, NEW r, Resembles(q, r)
  PROVE  \A n : SameAt(ViewerHeadersOf(b, q.headers), ViewerHeadersOf(b, r.headers), n)
<1> SUFFICES ASSUME NEW n PROVE SameAt(ViewerHeadersOf(b, q.headers), ViewerHeadersOf(b, r.headers), n)
  OBVIOUS
<1> DEFINE skipped == Separate \cup ConnectionListedHeaders(r.headers) \cup CloudFrontHeaders \cup DOMAIN Overrides
           v(h) == Restrict(h, {m \in DOMAIN h \ skipped : ForwardsHeader(b, m)})
<1>1. ConnectionListedHeaders(q.headers) = ConnectionListedHeaders(r.headers)
  <2>1. SameAt(q.headers, r.headers, "Connection")
    BY CloudFrontAssumption DEF Resembles
  <2>2. Lines(q.headers, "Connection") = Lines(r.headers, "Connection")
    BY <2>1, SameLines
  <2> QED
    BY <2>2 DEF ConnectionListedHeaders
<1>2. ViewerHeadersOf(b, q.headers) = v(q.headers) /\ ViewerHeadersOf(b, r.headers) = v(r.headers)
  BY <1>1 DEF ViewerHeadersOf
<1>3. \A h : /\ n \in DOMAIN v(h) <=> n \in DOMAIN h /\ n \notin skipped /\ ForwardsHeader(b, n)
             /\ n \in DOMAIN v(h) => v(h)[n] = h[n]
  BY DEF Restrict
<1>4. n \notin skipped => SameAt(q.headers, r.headers, n)
  BY DEF Resembles, Separate
<1> HIDE DEF v, skipped
<1>5. SameAt(v(q.headers), v(r.headers), n)
  BY <1>3, <1>4 DEF SameAt
<1> QED
  BY <1>2, <1>5

LEMMA BuiltAlike ==
  ASSUME NEW b, NEW q, NEW r, Resembles(q, r), CookiesResemble(b, q, r), NEW made
  PROVE  /\ Alike(BuildOriginRequest(b, q, made).headers, BuildOriginRequest(b, r, made).headers)
         /\ BuildOriginRequest(b, q, made).acceptEncoding = BuildOriginRequest(b, r, made).acceptEncoding
         /\ BuildOriginRequest(b, q, made).forwardHost = BuildOriginRequest(b, r, made).forwardHost
<1> DEFINE synthesized == Restrict(made, {n \in DOMAIN made : SelectsCloudFrontHeader(b, n)})
           before(x) == Overlay(synthesized, ViewerHeadersOf(b, x.headers))
           cookies(x) == FilterCookies(b, Get(x.headers, "Cookie"))
           built(x) == BuildOriginRequest(b, x, made)
           with(x) == SetHeader(before(x), "Cookie", cookies(x))
<1>1. ASSUME NEW x
      PROVE  /\ built(x).headers = IF cookies(x) # <<>> THEN with(x) ELSE before(x)
             /\ built(x).acceptEncoding = NormalizeAcceptEncoding(b, Get(x.headers, "Accept-Encoding"))
             /\ built(x).forwardHost = ForwardsHeader(b, "Host")
  BY DEF BuildOriginRequest
<1>2. Alike(before(q), before(r))
  <2>1. Alike(ViewerHeadersOf(b, q.headers), ViewerHeadersOf(b, r.headers))
    BY ViewerHeadersSame, AlikeIfSame
  <2>2. Alike(synthesized, synthesized)
    BY DEF Alike, SameElements
  <2> HIDE DEF synthesized
  <2> QED
    BY <2>1, <2>2, AlikeOverlay
<1>3. SameElements(cookies(q), cookies(r)) /\ (cookies(q) = <<>> <=> cookies(r) = <<>>)
  BY DEF CookiesResemble
<1>4. Get(q.headers, "Accept-Encoding") = Get(r.headers, "Accept-Encoding")
  <2>1. SameAt(q.headers, r.headers, "Accept-Encoding")
    BY CloudFrontAssumption DEF Resembles
  <2> QED
    BY <2>1, SameLines
<1> HIDE DEF before, cookies, built
<1>5. Alike(with(q), with(r))
  BY <1>2, <1>3, AlikeCookie
<1> HIDE DEF with
<1>6. Alike(built(q).headers, built(r).headers)
  BY <1>1, <1>2, <1>3, <1>5
<1>7. built(q).acceptEncoding = built(r).acceptEncoding /\ built(q).forwardHost = built(r).forwardHost
  BY <1>1, <1>4
<1> QED
  BY <1>6, <1>7 DEF built

LEMMA HopAlike ==
  ASSUME NEW g, NEW h, Alike(g, h)
  PROVE  Alike(RemoveHopByHopHeaders(g), RemoveHopByHopHeaders(h))
<1>1. Get(g, "Connection") = Get(h, "Connection")
  BY AlikeElsewhere
<1> QED
  BY <1>1, AlikeDel DEF RemoveHopByHopHeaders

LEMMA AskedAlike ==
  ASSUME NEW d, NEW b, NEW q, NEW r, Resembles(q, r), CookiesResemble(b, q, r), NEW made
  PROVE  /\ Alike(OriginRequest(d, b, q, made).headers, OriginRequest(d, b, r, made).headers)
         /\ OriginRequest(d, b, q, made).path = OriginRequest(d, b, r, made).path
         /\ OriginRequest(d, b, q, made).host = OriginRequest(d, b, r, made).host
<1> DEFINE built(x) == BuildOriginRequest(b, x, made)
           always(x) == Restricted(x.headers, AlwaysForwardedHeaders)
           forwarded(x) == RemoveHopByHopHeaders(Overlay(always(x), built(x).headers))
           encoded(x) == IF built(x).acceptEncoding = <<>> THEN forwarded(x)
                         ELSE SetHeader(forwarded(x), "Accept-Encoding", built(x).acceptEncoding)
           headers(x) == OriginHeaders(b.origin, built(x), x)
           chained(x) == AppendXForwardedFor(headers(x), Get(x.headers, "X-Forwarded-For"), x.ip)
           identified(x) == SetHeader(chained(x), "X-Amz-Cf-Id", <<x.id>>)
           request(x) == OriginRequest(d, b, x, made)
<1>1. ASSUME NEW x
      PROVE  /\ request(x).headers = IF b.origin.custom THEN AddVia(identified(x), d.domain) ELSE headers(x)
             /\ request(x).path = ApplyDefaultRootObject(x.path, d.rootObject)
             /\ request(x).host = IF b.origin.custom /\ built(x).forwardHost THEN x.host ELSE b.origin.host
             /\ headers(x) = Overlay(b.origin.customHeaders, encoded(x))
  BY DEF OriginRequest, OriginHeaders
<1>2. /\ Alike(built(q).headers, built(r).headers) /\ built(q).acceptEncoding = built(r).acceptEncoding
      /\ built(q).forwardHost = built(r).forwardHost
  BY BuiltAlike
<1> HIDE DEF built
<1>3. Alike(always(q), always(r))
  <2>1. ASSUME NEW n PROVE SameAt(always(q), always(r), n)
    <3>1. n \in AlwaysForwardedHeaders => SameAt(q.headers, r.headers, n)
      <4>1. n \in AlwaysForwardedHeaders => n \notin CloudFrontHeaders \cup {"Cookie", "Host"}
        BY CloudFrontAssumption DEF AlwaysForwardedHeaders
      <4> QED
        BY <4>1 DEF Resembles
    <3>2. \A h : /\ n \in DOMAIN Restricted(h, AlwaysForwardedHeaders) <=> n \in DOMAIN h /\ n \in AlwaysForwardedHeaders
                 /\ n \in DOMAIN Restricted(h, AlwaysForwardedHeaders) => Restricted(h, AlwaysForwardedHeaders)[n] = h[n]
      BY DEF Restricted, Restrict
    <3> QED
      BY <3>1, <3>2 DEF SameAt
  <2> HIDE DEF always
  <2> QED
    BY <2>1, AlikeIfSame
<1> HIDE DEF always
<1>4. Alike(forwarded(q), forwarded(r))
  BY <1>2, <1>3, AlikeOverlay, HopAlike
<1> HIDE DEF forwarded
<1>5. Alike(encoded(q), encoded(r))
  BY <1>2, <1>4, AlikeSet
<1> HIDE DEF encoded, headers
<1>6. Alike(headers(q), headers(r))
  <2>1. Alike(b.origin.customHeaders, b.origin.customHeaders)
    BY DEF Alike, SameElements
  <2> QED
    BY <1>1, <1>5, <2>1, AlikeOverlay
<1>7. Get(q.headers, "X-Forwarded-For") = Get(r.headers, "X-Forwarded-For") /\ q.ip = r.ip /\ q.id = r.id
      /\ q.path = r.path /\ q.host = r.host
  <2>1. SameAt(q.headers, r.headers, "X-Forwarded-For")
    BY CloudFrontAssumption DEF Resembles
  <2> QED
    BY <2>1, SameLines DEF Resembles
<1>8. Alike(chained(q), chained(r))
  BY <1>6, <1>7, AlikeSet DEF AppendXForwardedFor
<1> HIDE DEF chained
<1>9. Alike(identified(q), identified(r))
  BY <1>7, <1>8, AlikeSet
<1> HIDE DEF identified
<1>10. Alike(AddVia(identified(q), d.domain), AddVia(identified(r), d.domain))
  <2>1. Get(identified(q), "Via") = Get(identified(r), "Via")
    BY <1>9, AlikeElsewhere
  <2> QED
    BY <1>9, <2>1, AlikeSet DEF AddVia
<1> HIDE DEF request
<1>11. Alike(request(q).headers, request(r).headers)
  BY <1>1, <1>6, <1>10
<1>12. request(q).path = request(r).path /\ request(q).host = request(r).host
  BY <1>1, <1>2, <1>7
<1> QED
  BY <1>11, <1>12 DEF request

(* A request that such a function returns, at any behavior's origin.       *)
LEMMA ReturnedIsNotNoticed ==
  ASSUME CookiesAreOneWay, NEW r \in Requests, OneOfEach(Get(r.headers, "Cookie")),
         NEW made, DOMAIN made \subseteq CloudFrontHeaders, NEW d, NEW b
  PROVE  /\ SameHeaders(OriginRequest(d, b, r, made).headers, OriginRequest(d, b, Returned(r, made, r.path), made).headers)
         /\ \A n : Readable(OriginRequest(d, b, r, made).query, n) =>
                     ValuesOf(OriginRequest(d, b, r, made).query, n)
                       = ValuesOf(OriginRequest(d, b, Returned(r, made, r.path), made).query, n)
         /\ OriginRequest(d, b, r, made).path = OriginRequest(d, b, Returned(r, made, r.path), made).path
         /\ OriginRequest(d, b, r, made).host = OriginRequest(d, b, Returned(r, made, r.path), made).host
<1> DEFINE q == Returned(r, made, r.path)
           pairs == Get(r.headers, "Cookie")
<1>1. /\ DOMAIN r = {"method", "path", "raw", "query", "headers", "host", "ip", "id"}
      /\ IsHeaders(r.headers) /\ IsSeq(r.query)
      /\ \A p \in ToSet(r.query) \cup ToSet(pairs) : IsPair(p)
  BY RequestsAssumption
<1>2. "Set-Cookie" \notin DOMAIN r.headers
  BY DEF CookiesAreOneWay
<1>3. Once(pairs)
  <2>1. IsSeq(pairs)
    BY <1>1, HeadersAreProper DEF Proper
  <2> QED
    BY <1>1, <2>1 DEF Once
<1>4. /\ q.method = r.method /\ q.path = r.path /\ q.host = r.host /\ q.ip = r.ip /\ q.id = r.id
      /\ q.query = FieldsToQuery(QueryToFields(r.query))
      /\ Get(q.headers, "Cookie") = CookiesToHeader(CookiesToMap(pairs))
      /\ \A n : n \notin CloudFrontHeaders \cup {"Cookie", "Host"} => SameAt(q.headers, r.headers, n)
  BY <1>1, <1>2, <1>3, ReturnedRequest
<1> HIDE DEF q
<1>5. Resembles(r, q)
  <2>1. \A n : SameAt(q.headers, r.headers, n) => SameAt(r.headers, q.headers, n)
    BY DEF SameAt
  <2> QED
    BY <1>4, <2>1 DEF Resembles
<1>6. CookiesResemble(b, r, q)
  <2> DEFINE back == CookiesToHeader(CookiesToMap(pairs))
             s == FilterCookies(b, pairs)
             t == FilterCookies(b, back)
  <2>1. IsSeq(pairs) /\ IsSeq(back)
    BY <1>3, CookiesComeBack DEF Once
  <2>2. SameElements(s, t)
    BY <1>3, CookiesAreNotNoticed
  <2>3. IsSeq(s) /\ IsSeq(t)
    <3> HIDE DEF back, pairs
    <3> QED
      BY <2>1, KeptElements DEF FilterCookies
  <2>4. Get(q.headers, "Cookie") = back
    BY <1>4
  <2> HIDE DEF s, t
  <2>5. s = <<>> <=> t = <<>>
    BY <2>2, <2>3 DEF IsSeq, SameElements
  <2> QED
    BY <2>2, <2>4, <2>5 DEF CookiesResemble, s, t
<1>7. /\ Alike(OriginRequest(d, b, r, made).headers, OriginRequest(d, b, q, made).headers)
      /\ OriginRequest(d, b, r, made).path = OriginRequest(d, b, q, made).path
      /\ OriginRequest(d, b, r, made).host = OriginRequest(d, b, q, made).host
  BY <1>5, <1>6, AskedAlike
<1>8. ASSUME NEW n, Readable(OriginRequest(d, b, r, made).query, n)
      PROVE  ValuesOf(OriginRequest(d, b, r, made).query, n) = ValuesOf(OriginRequest(d, b, q, made).query, n)
  <2>1. Named(r.query) \subseteq ToSet(NameOrder)
    BY <1>1 DEF Named, IsPair
  <2>2. Readable(FilterQuery(b, r.query), n) =>
          ValuesOf(FilterQuery(b, r.query), n) = ValuesOf(FilterQuery(b, FieldsToQuery(QueryToFields(r.query))), n)
    BY <1>1, <2>1, QueryIsNotNoticed
  <2>3. \A x : OriginRequest(d, b, x, made).query = FilterQuery(b, x.query)
    BY DEF OriginRequest, BuildOriginRequest
  <2> QED
    BY <1>4, <1>8, <2>2, <2>3
<1> QED
  BY <1>7, <1>8, AlikeIsSame DEF q

(* Until its function runs, the request is the viewer's.                   *)
UntouchedInv == DataInv /\ (pc = "viewerRequest" => req = viewer)

LEMMA StepUntouched == UntouchedInv /\ [Next]_vars => UntouchedInv'
<1> SUFFICES ASSUME UntouchedInv, [Next]_vars PROVE UntouchedInv'
  OBVIOUS
<1>1. DataInv'
  BY StepData DEF UntouchedInv
<1>2. pc' = "viewerRequest" => UNCHANGED <<pc, req, viewer>>
  <2>1. CASE RunViewerRequest
    BY <2>1 DEF RunViewerRequest, WriteCFError
  <2>2. CASE FetchOrigin
    BY <2>2 DEF FetchOrigin, WriteCFError
  <2>3. CASE ApplyErrorResponse
    BY <2>3 DEF ApplyErrorResponse
  <2>4. CASE SetResponseHeaders
    BY <2>4 DEF SetResponseHeaders
  <2>5. CASE RunViewerResponse
    BY <2>5 DEF RunViewerResponse, WriteCFError
  <2>6. CASE Write
    BY <2>6 DEF Write
  <2>7. CASE UNCHANGED vars
    BY <2>7 DEF vars
  <2> QED
    BY <2>1, <2>2, <2>3, <2>4, <2>5, <2>6, <2>7 DEF Next
<1> QED
  BY <1>1, <1>2 DEF UntouchedInv

LEMMA StepReturns ==
  ASSUME UntouchedInv, [Next]_vars, pc = "viewerRequest", Behavior.viewerRequest = PassThrough
  PROVE  /\ UNCHANGED <<dist, viewerHeaders>>
         /\ req' = req \/ req' = Returned(req, viewerHeaders, req.path)
<1>1. CASE RunViewerRequest
  <2>1. PassThrough.kind = "edit" /\ "none" # "edit" /\ "fail" # "edit" /\ "respond" # "edit"
    BY HarmlessKinds
  <2>2. PassThrough.uri = ""
    BY Zenon DEF PassThrough
  <2>3. PICK u : /\ u = IF PassThrough.uri = "" THEN req.path ELSE PassThrough.uri
                 /\ req' = Returned(req, viewerHeaders, u)
    <3> DEFINE event == NewRequestEvent(req, viewerHeaders)
               u == IF PassThrough.uri = "" THEN req.path ELSE PassThrough.uri
    <3>1. req' = ApplyToRequest([Edited(PassThrough, event) EXCEPT !.uri = IF PassThrough.uri = "" THEN @ ELSE PassThrough.uri], req)
      BY <1>1, <2>1, Zenon DEF RunViewerRequest
    <3>2. Edited(PassThrough, event).uri = req.path
      BY DEF Edited, NewRequestEvent
    <3> QED
      BY <3>1, <3>2, Zenon DEF Returned
  <2>4. UNCHANGED <<dist, viewerHeaders>>
    BY <1>1 DEF RunViewerRequest, constant
  <2> QED
    BY <2>2, <2>3, <2>4, Zenon
<1>2. CASE UNCHANGED vars
  BY <1>2 DEF vars
<1> QED
  BY <1>1, <1>2 DEF Next, FetchOrigin, ApplyErrorResponse, SetResponseHeaders, RunViewerResponse, Write

(* A viewer-request function that returns its event as it is changes       *)
(* nothing an origin gets, whatever the policies and the request are, but  *)
(* for the parameters that cannot be read.                                 *)
THEOREM UnchangedRequestsAreNotNoticed ==
  ASSUME CookiesAreOneWay
  PROVE  Spec => IdentityRequestIsInvisible
<1> DEFINE Same(x, y, path) ==
             LET was == OriginRequest(dist, dist.behaviors[path], x, viewerHeaders)
                 is == OriginRequest(dist, dist.behaviors[path], y, viewerHeaders)
             IN  /\ SameHeaders(was.headers, is.headers)
                 /\ \A n \in Named(was.query) \cup Named(is.query) :
                      Readable(was.query, n) => ValuesOf(was.query, n) = ValuesOf(is.query, n)
                 /\ was.path = is.path /\ was.host = is.host
<1>1. Init => UntouchedInv
  BY InitData DEF Init, UntouchedInv
<1>2. UntouchedInv /\ [Next]_vars => UntouchedInv'
  BY StepUntouched
<1>3. ASSUME UntouchedInv, [Next]_vars, pc = "viewerRequest", Behavior.viewerRequest = PassThrough,
             OneOfEach(Get(req.headers, "Cookie")), NEW path \in DOMAIN dist.behaviors
      PROVE  LET was == Asking(path, req).request
                 is == Asking(path, req').request
             IN  /\ SameHeaders(was.headers, is.headers)
                 /\ \A n \in Named(was.query) \cup Named(is.query) :
                      Readable(was.query, n) => ValuesOf(was.query, n) = ValuesOf(is.query, n)
                 /\ was.path = is.path /\ was.host = is.host
  <2>1. req \in Requests /\ DOMAIN viewerHeaders \subseteq CloudFrontHeaders
    BY <1>3, SynthesizedDomain DEF UntouchedInv, DataInv, ExchangeInv
  <2>2. req' = req \/ req' = Returned(req, viewerHeaders, req.path)
    BY <1>3, StepReturns
  <2>3. \A x : Asking(path, x).request = OriginRequest(dist, dist.behaviors[path], x, viewerHeaders)
    BY DEF Asking
  <2>4. Same(req, req, path)
    BY DEF SameHeaders, SameElements
  <2>5. Same(req, Returned(req, viewerHeaders, req.path), path)
    BY <1>3, <2>1, ReturnedIsNotNoticed
  <2>6. Same(req, req', path)
    <3> HIDE DEF Same
    <3> QED
      BY <2>2, <2>4, <2>5
  <2> QED
    BY <2>3, <2>6
<1>4. UntouchedInv /\ [Next]_vars
        => [(pc = "viewerRequest" /\ Behavior.viewerRequest = PassThrough /\ OneOfEach(Get(req.headers, "Cookie")))
            => \A path \in DOMAIN dist.behaviors :
                 LET was == Asking(path, req).request
                     is == Asking(path, req').request
                 IN  /\ SameHeaders(was.headers, is.headers)
                     /\ \A n \in Named(was.query) \cup Named(is.query) :
                          Readable(was.query, n) => ValuesOf(was.query, n) = ValuesOf(is.query, n)
                     /\ was.path = is.path /\ was.host = is.host]_vars
  BY <1>3
<1> QED
  BY <1>1, <1>2, <1>4, PTL DEF Spec, IdentityRequestIsInvisible

-----------------------------------------------------------------------------
(* The cookies of a response, one to a line.                               *)
Singles(s) == [i \in DOMAIN s |-> <<s[i]>>]
Firsts(lines) == [i \in DOMAIN lines |-> lines[i][1]]

LEMMA SinglesAre ==
  ASSUME NEW s, IsSeq(s)
  PROVE  IsSeq(Singles(s)) /\ Len(Singles(s)) = Len(s) /\ ToSet(Singles(s)) = {<<x>> : x \in ToSet(s)}
<1> DEFINE t == Singles(s)
<1>1. Len(s) \in Nat /\ DOMAIN s = 1 .. Len(s)
  BY DEF IsSeq
<1>2. t = [i \in 1 .. Len(s) |-> <<s[i]>>]
  BY <1>1 DEF Singles
<1> HIDE DEF t
<1>3. t \in Seq({<<s[i]>> : i \in 1 .. Len(s)}) /\ Len(t) = Len(s)
  <2> DEFINE Y == {<<s[i]>> : i \in 1 .. Len(s)}
  <2>1. \A i \in 1 .. Len(s) : <<s[i]>> \in Y
    OBVIOUS
  <2> HIDE DEF Y
  <2>2. t \in Seq(Y) /\ Len(t) = Len(s)
    BY <1>1, <1>2, <2>1
  <2> QED
    BY <2>2 DEF Y
<1>4. IsSeq(t)
  BY <1>3, SeqOfMore
<1>5. ToSet(t) = {t[i] : i \in 1 .. Len(s)} /\ ToSet(s) = {s[i] : i \in 1 .. Len(s)}
  BY <1>1, <1>2 DEF ToSet
<1>6. \A i \in 1 .. Len(s) : t[i] = <<s[i]>>
  BY <1>2
<1>7. ToSet(t) = {<<x>> : x \in ToSet(s)}
  BY <1>5, <1>6
<1> QED
  BY <1>3, <1>4, <1>7 DEF t

LEMMA FirstsAre ==
  ASSUME NEW lines, IsSeq(lines), \A line \in ToSet(lines) : line = <<line[1]>>
  PROVE  /\ IsSeq(Firsts(lines)) /\ lines = Singles(Firsts(lines))
         /\ \A p \in ToSet(Firsts(lines)) : \E line \in ToSet(lines) : p = line[1]
         /\ \A line \in ToSet(lines) : line[1] \in ToSet(Firsts(lines))
<1> DEFINE s == Firsts(lines)
<1>1. Len(lines) \in Nat /\ DOMAIN lines = 1 .. Len(lines) /\ lines = [i \in 1 .. Len(lines) |-> lines[i]]
  BY DEF IsSeq
<1>2. s = [i \in 1 .. Len(lines) |-> lines[i][1]]
  BY <1>1 DEF Firsts
<1>3. ToSet(lines) = {lines[i] : i \in 1 .. Len(lines)}
  BY <1>1 DEF ToSet
<1> HIDE DEF s
<1>4. IsSeq(s) /\ ToSet(s) = {s[i] : i \in 1 .. Len(lines)} /\ DOMAIN s = 1 .. Len(lines)
  <2> DEFINE Y == {lines[i][1] : i \in 1 .. Len(lines)}
  <2>1. \A i \in 1 .. Len(lines) : lines[i][1] \in Y
    OBVIOUS
  <2> HIDE DEF Y
  <2>2. s \in Seq(Y)
    BY <1>1, <1>2, <2>1
  <2> QED
    BY <1>2, <2>2, SeqOfMore DEF ToSet
<1>5. \A i \in 1 .. Len(lines) : s[i] = lines[i][1] /\ lines[i] = <<s[i]>>
  BY <1>2, <1>3
<1>6. lines = [i \in 1 .. Len(lines) |-> <<s[i]>>]
  BY <1>1, <1>5
<1>7. lines = Singles(s)
  BY <1>4, <1>6 DEF Singles
<1> QED
  BY <1>3, <1>4, <1>5, <1>7 DEF s

(* What is so of every origin's response, and what keeps it so.            *)
CookieLines(h) ==
  /\ "Cookie" \notin DOMAIN h
  /\ "Set-Cookie" \in DOMAIN h => h["Set-Cookie"] # <<>>
  /\ IsSeq(Lines(h, "Set-Cookie"))
  /\ \A line \in ToSet(Lines(h, "Set-Cookie")) : line = <<line[1]>> /\ IsPair(line[1])

KeepsCookies(g, h) == \A n \in {"Cookie", "Set-Cookie"} : SameAt(g, h, n) \/ n \notin DOMAIN g

LEMMA CookieLinesKept ==
  ASSUME NEW g, NEW h, KeepsCookies(g, h), CookieLines(h)
  PROVE  CookieLines(g)
<1>1. "Cookie" \notin DOMAIN g
  BY DEF KeepsCookies, CookieLines, SameAt
<1>2. CASE SameAt(g, h, "Set-Cookie")
  <2>1. Lines(g, "Set-Cookie") = Lines(h, "Set-Cookie")
    BY <1>2, SameLines
  <2> QED
    BY <1>1, <1>2, <2>1 DEF CookieLines, SameAt
<1>3. CASE "Set-Cookie" \notin DOMAIN g
  <2>1. Lines(g, "Set-Cookie") = <<>>
    BY <1>3 DEF Lines
  <2> QED
    BY <1>1, <1>3, <2>1, NothingInNothing DEF CookieLines
<1> QED
  BY <1>2, <1>3 DEF KeepsCookies

LEMMA NoCookieLines ==
  ASSUME NEW h, {"Cookie", "Set-Cookie"} \cap DOMAIN h = {}
  PROVE  CookieLines(h)
<1>1. Lines(h, "Set-Cookie") = <<>>
  BY DEF Lines
<1> QED
  BY <1>1, NothingInNothing DEF CookieLines

LEMMA KeepingIsTransitive ==
  ASSUME NEW f, NEW g, NEW h, KeepsCookies(f, g), KeepsCookies(g, h)
  PROVE  KeepsCookies(f, h)
BY DEF KeepsCookies, SameAt

LEMMA SettingKeeps ==
  ASSUME NEW h, NEW n, n \notin {"Cookie", "Set-Cookie"}, NEW lines, NEW line, NEW override
  PROVE  /\ KeepsCookies(SetLines(h, n, lines), h) /\ KeepsCookies(SetHeader(h, n, line), h)
         /\ KeepsCookies(AddHeader(h, n, line), h) /\ KeepsCookies(SetUnless(h, n, line, override), h)
<1>1. \A all : KeepsCookies(SetLines(h, n, all), h)
  BY DEF KeepsCookies, SetLines, SameAt
<1>2. KeepsCookies(h, h)
  BY DEF KeepsCookies, SameAt
<1> QED
  BY <1>1, <1>2 DEF SetHeader, AddHeader, SetUnless

LEMMA DeletingKeeps ==
  ASSUME NEW h, NEW names
  PROVE  KeepsCookies(DelHeaders(h, names), h)
BY DEF KeepsCookies, DelHeaders, Restrict, SameAt

LEMMA CorsKeeps ==
  ASSUME NEW cors, DOMAIN cors.fields \cap {"Cookie", "Set-Cookie"} = {}, NEW h, NEW origin
  PROVE  KeepsCookies(ApplyCors(cors, h, origin), h)
<1> DEFINE allowed == ApplyAllowOrigin(cors, h, origin)
           fields == [n \in DOMAIN cors.fields |-> IF cors.override \/ Get(h, n) = <<>> THEN <<cors.fields[n]>> ELSE h[n]]
           echoed == SetUnless(h, "Access-Control-Allow-Origin", <<origin>>, cors.override)
<1>1. KeepsCookies(allowed, h)
  <2>1. KeepsCookies(h, h)
    BY DEF KeepsCookies, SameAt
  <2>2. \A line : KeepsCookies(SetUnless(h, "Access-Control-Allow-Origin", line, cors.override), h)
    BY SettingKeeps
  <2>3. KeepsCookies(AddVary(echoed, "Origin"), h)
    <3>1. KeepsCookies(echoed, h)
      BY <2>2
    <3> HIDE DEF echoed
    <3>2. KeepsCookies(AddHeader(echoed, "Vary", <<"Origin">>), echoed)
      BY SettingKeeps
    <3> QED
      BY <3>1, <3>2, KeepingIsTransitive DEF AddVary
  <2> QED
    BY <2>1, <2>2, <2>3 DEF ApplyAllowOrigin
<1>2. ApplyCors(cors, h, origin) = Overlay(fields, allowed) /\ DOMAIN fields = DOMAIN cors.fields
  BY DEF ApplyCors
<1> HIDE DEF allowed, fields
<1>3. KeepsCookies(Overlay(fields, allowed), allowed)
  BY <1>2 DEF KeepsCookies, Overlay, SameAt
<1> QED
  BY <1>1, <1>2, <1>3, KeepingIsTransitive

LEMMA PolicyKeeps ==
  ASSUME CookiesAreOneWay, NEW d \in Distributions, NEW path \in DOMAIN d.behaviors, NEW h, NEW requestOrigin
  PROVE  KeepsCookies(ApplyResponseHeaders(d.behaviors[path], h, requestOrigin), h)
<1> DEFINE b == d.behaviors[path]
           policy == b.responseHeaders
           custom == policy.customHeaders
           removed == DelHeaders(h, policy.removeHeaders)
           n == Len(custom)
           set == CHOOSE f : SetsCustom(custom, removed, n, f)
           all == set[n]
           after == ApplyResponseHeaders(b, h, requestOrigin)
<1>1. n \in Nat /\ DOMAIN custom = 1 .. n
  <2>1. IsSeq(custom)
    BY DistributionsAssumption
  <2> HIDE DEF custom
  <2> QED
    BY <2>1 DEF IsSeq
<1>2. after = IF requestOrigin = <<>> THEN all ELSE ApplyCors(policy.cors, all, requestOrigin[1])
  BY DEF ApplyResponseHeaders, SetsCustom
<1>3. SetsCustom(custom, removed, n, set)
  BY <1>1, CustomExists
<1>4. KeepsCookies(removed, h)
  BY DeletingKeeps
<1>5. \A i \in 1 .. n : custom[i].name \notin {"Cookie", "Set-Cookie"}
  <2>1. {custom[i].name : i \in DOMAIN custom} \cap {"Cookie", "Set-Cookie"} = {}
    BY DEF CookiesAreOneWay
  <2> HIDE DEF custom
  <2> QED
    BY <1>1, <2>1
<1>6. DOMAIN policy.cors.fields \cap {"Cookie", "Set-Cookie"} = {}
  BY DistributionsAssumption
<1> HIDE DEF removed, custom, n, set
<1>7. KeepsCookies(all, h)
  <2> DEFINE T == {i \in 0 .. n : KeepsCookies(set[i], h)}
  <2>1. 0 \in T
    BY <1>1, <1>3, <1>4 DEF SetsCustom
  <2>2. ASSUME NEW i \in 1 .. n, i - 1 \in T
        PROVE  i \in T
    <3>1. i \in 0 .. n /\ i # 0
      BY <1>1
    <3>2. set[i] = SetUnless(set[i - 1], custom[i].name, custom[i].line, custom[i].override)
      BY <1>3, <3>1 DEF SetsCustom
    <3>3. KeepsCookies(set[i - 1], h)
      BY <2>2
    <3>4. KeepsCookies(set[i], set[i - 1])
      BY <1>5, <3>2, SettingKeeps
    <3> QED
      BY <3>1, <3>3, <3>4, KeepingIsTransitive
  <2>3. n \in 0 .. n
    BY <1>1
  <2> HIDE DEF T
  <2>4. n \in T
    BY <1>1, <2>1, <2>2, <2>3, UpTo
  <2> QED
    BY <2>4 DEF T
<1> HIDE DEF all, after, b
<1>8. KeepsCookies(after, h)
  BY <1>2, <1>6, <1>7, CorsKeeps, KeepingIsTransitive
<1> QED
  BY <1>8 DEF after, b

LEMMA ObjectsHaveCookieLines ==
  ASSUME CookiesAreOneWay, NEW x \in Objects
  PROVE  CookieLines(x.headers)
<1> DEFINE lines == Lines(x.headers, "Set-Cookie")
<1>1. IsHeaders(x.headers) /\ \A line \in ToSet(lines) : line = <<line[1]>> /\ IsPair(line[1])
  BY ObjectsAssumption
<1>2. "Cookie" \notin DOMAIN x.headers
  BY DEF CookiesAreOneWay
<1>3. IsSeq(lines) /\ ("Set-Cookie" \in DOMAIN x.headers => x.headers["Set-Cookie"] # <<>>)
  BY <1>1, NothingInNothing DEF IsHeaders, Lines
<1> QED
  BY <1>1, <1>2, <1>3 DEF CookieLines

LEMMA WholeKeeps ==
  ASSUME NEW o, NEW x, CookieLines(x.headers), NEW codings
  PROVE  CookieLines(Whole(o, x, codings).headers)
<1> DEFINE size == IF codings = <<>> THEN x.size ELSE x.size \div 10
           entity == SetHeader(x.headers, "Content-Length", <<size>>)
           encoded == SetHeader(entity, "Content-Encoding", codings)
<1>1. Whole(o, x, codings).headers = IF codings = <<>> THEN entity ELSE encoded
  BY DEF Whole
<1> HIDE DEF size
<1>2. KeepsCookies(entity, x.headers)
  BY SettingKeeps
<1> HIDE DEF entity
<1>3. KeepsCookies(encoded, entity)
  BY SettingKeeps
<1> HIDE DEF encoded
<1>4. CookieLines(entity)
  BY <1>2, CookieLinesKept
<1>5. CookieLines(encoded)
  BY <1>3, <1>4, CookieLinesKept
<1> QED
  BY <1>1, <1>4, <1>5

LEMMA AnswersHaveCookieLines ==
  ASSUME CookiesAreOneWay, NEW o, NEW a \in OriginAnswers(o)
  PROVE  CookieLines(a.headers)
<1>1. \/ \E x \in Objects : \E c : a = Whole(o, x, c)
      \/ \E x \in Objects : a = Partial(o, x)
      \/ a = NotModified
      \/ a = NotFound(o)
  BY DEF OriginAnswers
<1>2. ASSUME NEW x \in Objects, NEW c, a = Whole(o, x, c) PROVE CookieLines(a.headers)
  BY <1>2, ObjectsHaveCookieLines, WholeKeeps
<1>3. ASSUME NEW x \in Objects, a = Partial(o, x) PROVE CookieLines(a.headers)
  <2> DEFINE entity == SetHeader(x.headers, "Content-Length", <<10>>)
  <2>1. a.headers = entity
    BY <1>3 DEF Partial
  <2>2. KeepsCookies(entity, x.headers)
    BY SettingKeeps
  <2> HIDE DEF entity
  <2> QED
    BY <2>1, <2>2, ObjectsHaveCookieLines, CookieLinesKept
<1>4. CASE a = NotModified
  <2>1. a.headers = <<>> /\ DOMAIN <<>> = {}
    BY <1>4 DEF NotModified
  <2> QED
    BY <2>1, NoCookieLines
<1>5. CASE a = NotFound(o)
  <2> DEFINE q == [o EXCEPT !.path = "missing"]
             x == [size |-> 2000, headers |-> <<>>]
             w == Whole(q, x, <<>>)
  <2>1. CookieLines(x.headers)
    BY NoCookieLines
  <2> HIDE DEF q, x
  <2>2. CookieLines(w.headers)
    BY <2>1, WholeKeeps
  <2>3. a = [w EXCEPT !.status = 404]
    BY <1>5 DEF NotFound, q, x
  <2>4. \E status, headers, body : w = [status |-> status, headers |-> headers, body |-> body]
    BY DEF Whole
  <2> HIDE DEF w
  <2>5. a.headers = w.headers
    BY <2>3, <2>4
  <2> QED
    BY <2>2, <2>5
<1> QED
  BY <1>1, <1>2, <1>3, <1>4, <1>5

LEMMA ErrorPagesHaveNone ==
  ASSUME NEW status
  PROVE  CookieLines(CFErrorPage(status).headers)
<1> DEFINE typed == SetHeader(<<>>, "Content-Type", <<"text/html">>)
           served == SetHeader(typed, "Server", <<"CloudFront">>)
<1>1. CFErrorPage(status).headers = served
  BY DEF CFErrorPage
<1>2. DOMAIN <<>> = {}
  OBVIOUS
<1>3. DOMAIN served = {"Content-Type", "Server"}
  BY <1>2 DEF SetHeader, SetLines
<1> HIDE DEF served
<1> QED
  BY <1>1, <1>3, NoCookieLines

(* A response that is on its way from an origin, through every stage up to *)
(* the function.                                                           *)
Bearing(m) == DOMAIN m = {"status", "headers", "body", "source"} /\ CookieLines(m.headers)

CookieInv ==
  /\ DataInv
  /\ pc \in {"errorResponse", "viewerResponse"} => Bearing(resp)
  /\ pc = "headers" /\ resp.source # "function" => Bearing(resp)

LEMMA HeldBears ==
  ASSUME NEW m, CookieLines(m.headers), NEW source
  PROVE  Bearing(Held(m, source))
BY DEF Held, Bearing

LEMMA StatusBears ==
  ASSUME NEW m, Bearing(m), NEW status
  PROVE  Bearing([m EXCEPT !.status = status])
BY DEF Bearing

LEMMA PageStatusBears ==
  ASSUME CookiesAreOneWay, NEW o, NEW a \in OriginAnswers(o), NEW status
  PROVE  CookieLines([a EXCEPT !.status = status].headers)
<1>1. a = [status |-> a.status, headers |-> a.headers, body |-> a.body]
  BY AnswersAreMessages
<1>2. [a EXCEPT !.status = status].headers = a.headers
  BY <1>1
<1> QED
  BY <1>2, AnswersHaveCookieLines

LEMMA ErrorResponseBears ==
  ASSUME CookiesAreOneWay, CookieInv, ApplyErrorResponse
  PROVE  pc' = "headers" /\ Bearing(resp')
<1>1. pc = "errorResponse" /\ pc' = "headers"
  BY Zenon DEF ApplyErrorResponse
<1>2. Bearing(resp)
  BY <1>1 DEF CookieInv
<1>3. \/ resp' = resp
      \/ \E e \in Matching(resp.status) :
           \/ resp' = [resp EXCEPT !.status = e.response]
           \/ \E a \in OriginAnswers(PageAsking(e.page).request) :
                resp' = Held([a EXCEPT !.status = e.response], "page")
           \/ resp' = Held(CFErrorPage(e.response), "page")
  BY Zenon DEF ApplyErrorResponse
<1>4. ASSUME NEW e, NEW a \in OriginAnswers(PageAsking(e.page).request),
             resp' = Held([a EXCEPT !.status = e.response], "page")
      PROVE  Bearing(resp')
  BY <1>4, PageStatusBears, HeldBears
<1>5. ASSUME NEW e, resp' = [resp EXCEPT !.status = e.response] PROVE Bearing(resp')
  BY <1>2, <1>5, StatusBears
<1>6. ASSUME NEW e, resp' = Held(CFErrorPage(e.response), "page") PROVE Bearing(resp')
  BY <1>6, ErrorPagesHaveNone, HeldBears
<1> QED
  BY <1>1, <1>2, <1>3, <1>4, <1>5, <1>6

LEMMA StepBears ==
  ASSUME CookiesAreOneWay, CookieInv, [Next]_vars
  PROVE  CookieInv'
<1>1. DataInv'
  BY StepData DEF CookieInv
<1>2. CASE RunViewerRequest
  <2>1. \/ pc' \in {"fetch", "done"}
        \/ pc' = "headers" /\ \E p : resp' = FunctionResponse(p)
    BY <1>2, Zenon DEF RunViewerRequest, WriteCFError
  <2>2. \A p : FunctionResponse(p).source = "function"
    BY DEF FunctionResponse
  <2> QED
    BY <1>1, <2>1, <2>2 DEF CookieInv
<1>3. CASE FetchOrigin
  <2>1. \/ \E a : CookieLines(a.headers) /\ resp' = Held(a, "origin") /\ pc' = "errorResponse"
        \/ pc' = "done"
    BY <1>3, AnswersHaveCookieLines, ErrorPagesHaveNone DEF FetchOrigin, WriteCFError
  <2> QED
    BY <1>1, <2>1, HeldBears DEF CookieInv
<1>4. CASE ApplyErrorResponse
  BY <1>1, <1>4, ErrorResponseBears DEF CookieInv
<1>5. CASE SetResponseHeaders
  <2> DEFINE after == ApplyResponseHeaders(Behavior, resp.headers, Get(req.headers, "Origin"))
  <2>1. /\ pc = "headers" /\ resp' = [resp EXCEPT !.headers = after]
        /\ pc' = "write" \/ (pc' = "viewerResponse" /\ resp.source # "function")
    BY <1>5 DEF SetResponseHeaders
  <2>2. ASSUME pc' = "viewerResponse" PROVE Bearing(resp')
    <3>1. Bearing(resp)
      BY <2>1, <2>2 DEF CookieInv
    <3>2. dist \in Distributions /\ viewer.path \in DOMAIN dist.behaviors
      BY DEF CookieInv, DataInv
    <3>3. KeepsCookies(after, resp.headers)
      BY <3>2, PolicyKeeps DEF Behavior
    <3> HIDE DEF after
    <3> QED
      BY <2>1, <3>1, <3>3, CookieLinesKept DEF Bearing
  <2> HIDE DEF after
  <2> QED
    BY <1>1, <2>1, <2>2 DEF CookieInv
<1>6. CASE RunViewerResponse
  <2>1. pc' \in {"done", "write"}
    BY <1>6, Zenon DEF RunViewerResponse, WriteCFError
  <2> QED
    BY <1>1, <2>1 DEF CookieInv
<1>7. CASE Write
  BY <1>1, <1>7 DEF Write, CookieInv
<1>8. CASE UNCHANGED vars
  BY <1>1, <1>8 DEF vars, CookieInv
<1> QED
  BY <1>2, <1>3, <1>4, <1>5, <1>6, <1>7, <1>8 DEF Next

LEMMA CookiesOfResponse ==
  ASSUME NEW h, CookieLines(h), OneOfEach(Firsts(Lines(h, "Set-Cookie")))
  PROVE  LET pairs == Firsts(Lines(h, "Set-Cookie"))
             back == CookiesToHeader(CookiesToMap(pairs))
         IN  /\ SameElements(Lines(h, "Set-Cookie"), Singles(back)) /\ IsSeq(Singles(back))
             /\ DOMAIN CookiesToMap(pairs) = {} <=> Lines(h, "Set-Cookie") = <<>>
<1> DEFINE lines == Lines(h, "Set-Cookie")
           pairs == Firsts(lines)
           back == CookiesToHeader(CookiesToMap(pairs))
<1>1. IsSeq(lines) /\ \A line \in ToSet(lines) : line = <<line[1]>> /\ IsPair(line[1])
  BY DEF CookieLines
<1> HIDE DEF lines
<1>2. /\ IsSeq(pairs) /\ lines = Singles(pairs)
      /\ \A p \in ToSet(pairs) : \E line \in ToSet(lines) : p = line[1]
  BY <1>1, FirstsAre
<1>3. Once(pairs)
  <2>1. OneOfEach(pairs)
    BY DEF lines
  <2> HIDE DEF pairs
  <2> QED
    BY <1>1, <1>2, <2>1 DEF Once
<1>4. IsSeq(back) /\ IsInjective(back) /\ ToSet(back) = ToSet(pairs) /\ IsInjective(pairs)
  BY <1>3, CookiesComeBack
<1>5. DOMAIN CookiesToMap(pairs) = Named(pairs)
  BY DEF CookiesToMap
<1> HIDE DEF back, pairs
<1>6. SameElements(pairs, back)
  BY <1>2, <1>4, OnceEach
<1>7. /\ IsSeq(Singles(back)) /\ Len(Singles(back)) = Len(back) /\ ToSet(Singles(back)) = {<<x>> : x \in ToSet(back)}
      /\ Len(Singles(pairs)) = Len(pairs) /\ ToSet(Singles(pairs)) = {<<x>> : x \in ToSet(pairs)}
  BY <1>2, <1>4, SinglesAre
<1>8. SameElements(lines, Singles(back))
  BY <1>2, <1>4, <1>6, <1>7 DEF SameElements
<1>9. Named(pairs) = {} <=> lines = <<>>
  <2>1. Named(pairs) = {} <=> ToSet(pairs) = {}
    BY DEF Named
  <2>2. ToSet(pairs) = {} <=> pairs = <<>>
    BY <1>2, NothingInNothing DEF IsSeq
  <2>3. Len(pairs) = Len(lines)
    BY <1>2, <1>7
  <2>4. pairs = <<>> <=> lines = <<>>
    BY <1>1, <1>2, <2>3 DEF IsSeq
  <2> QED
    BY <2>1, <2>2, <2>4
<1> QED
  BY <1>5, <1>7, <1>8, <1>9 DEF back, pairs, lines

(* The headers such a function returns.                                    *)
LEMMA ReturnedResponse ==
  ASSUME NEW status, NEW h, CookieLines(h), OneOfEach(Firsts(Lines(h, "Set-Cookie"))),
         AllNamed(Firsts(Lines(h, "Set-Cookie")))
  PROVE  SameHeaders(h, HTTPHeaders(Edited(PassThrough, ResponseEvent(status, h))))
<1> DEFINE lines == Lines(h, "Set-Cookie")
           plain == DelHeaders(h, {"Cookie", "Set-Cookie"})
           all == Overlay(<<>>, plain)
           kept == Overlay(<<>>, DelHeaders(all, {}))
           map == CookiesToMap(Firsts(lines))
           back == CookiesToHeader(map)
           event == Edited(PassThrough, ResponseEvent(status, h))
           g == HTTPHeaders(event)
<1>1. event.headers = kept /\ event.cookies = Restrict(map, DOMAIN map \ {})
  <2>1. ResponseEvent(status, h) = [status |-> status, headers |-> all, cookies |-> map]
    <3>1. SetCookiesToMap(Firsts(lines)) = map
      <4>1. DOMAIN map = Named(Firsts(lines)) /\ map = [n \in DOMAIN map |-> map[n]]
        BY DEF CookiesToMap
      <4>2. DOMAIN map \ {""} = DOMAIN map
        BY <4>1, Zenon DEF AllNamed
      <4> HIDE DEF map
      <4>3. Restrict(map, DOMAIN map) = map
        BY <4>1 DEF Restrict
      <4> QED
        BY <4>2, <4>3, Zenon DEF SetCookiesToMap, map
    <3> QED
      BY <3>1 DEF ResponseEvent, HeadersToFields, Firsts
  <2> HIDE DEF all, map
  <2> QED
    BY <2>1 DEF Edited, PassThrough
<1>2. event.cookies = map
  <2>1. map = [n \in DOMAIN map |-> map[n]] /\ DOMAIN map \ {} = DOMAIN map
    BY DEF CookiesToMap
  <2> HIDE DEF map, event
  <2> QED
    BY <1>1, <2>1 DEF Restrict
<1>3. g = IF DOMAIN map = {} THEN kept ELSE SetLines(kept, "Set-Cookie", Lines(kept, "Set-Cookie") \o Singles(back))
  <2> HIDE DEF event, map, kept
  <2> QED
    BY <1>1, <1>2 DEF HTTPHeaders, Singles
<1>4. ASSUME NEW n
      PROVE  /\ n \in DOMAIN kept <=> n \in DOMAIN h /\ n \notin {"Cookie", "Set-Cookie"}
             /\ n \in DOMAIN kept => kept[n] = h[n]
  <2>1. /\ n \in DOMAIN plain <=> n \in DOMAIN h /\ n \notin {"Cookie", "Set-Cookie"}
        /\ n \in DOMAIN plain => plain[n] = h[n]
    BY DEF DelHeaders, Restrict
  <2> HIDE DEF plain
  <2>2. (n \in DOMAIN all <=> n \in DOMAIN plain) /\ (n \in DOMAIN plain => all[n] = plain[n])
    <3>1. DOMAIN <<>> = {}
      OBVIOUS
    <3> QED
      BY <3>1 DEF Overlay
  <2> HIDE DEF all
  <2>3. (n \in DOMAIN kept <=> n \in DOMAIN all) /\ (n \in DOMAIN all => kept[n] = all[n])
    BY OverlayOfNothing
  <2> HIDE DEF kept
  <2> QED
    BY <2>1, <2>2, <2>3
<1>5. SameElements(lines, Singles(back)) /\ IsSeq(Singles(back)) /\ (DOMAIN map = {} <=> lines = <<>>)
  BY CookiesOfResponse
<1>6. "Set-Cookie" \in DOMAIN h => lines # <<>> /\ h["Set-Cookie"] = lines
  BY DEF CookieLines, Lines
<1>7. "Set-Cookie" \notin DOMAIN h => lines = <<>>
  BY DEF Lines
<1>8. "Cookie" \notin DOMAIN h
  BY DEF CookieLines
<1> HIDE DEF lines, kept, map, back, g
<1>9. Lines(kept, "Set-Cookie") \o Singles(back) = Singles(back)
  <2>1. Lines(kept, "Set-Cookie") = <<>>
    BY <1>4 DEF Lines
  <2>2. Singles(back) \in Seq(ToSet(Singles(back)))
    BY <1>5 DEF IsSeq
  <2> HIDE DEF back
  <2>3. \A X : \A s \in Seq(X) : <<>> \o s = s
    OBVIOUS
  <2> QED
    BY <2>1, <2>2, <2>3
<1>10. ASSUME lines = <<>> PROVE SameHeaders(h, g)
  <2>1. \A n : SameAt(h, g, n)
    BY <1>3, <1>4, <1>5, <1>6, <1>8, <1>10 DEF SameAt
  <2> QED
    BY <2>1, AlikeIfSame, AlikeIsSame
<1>11. ASSUME lines # <<>> PROVE SameHeaders(h, g)
  <2>1. /\ DOMAIN g = DOMAIN kept \cup {"Set-Cookie"} /\ g["Set-Cookie"] = Singles(back)
        /\ \A n \in DOMAIN kept : n # "Set-Cookie" => g[n] = kept[n]
    BY <1>3, <1>5, <1>9, <1>11 DEF SetLines
  <2>2. "Set-Cookie" \in DOMAIN h
    BY <1>7, <1>11
  <2>3. DOMAIN g = DOMAIN h
    BY <1>4, <1>8, <2>1, <2>2
  <2>4. \A n \in DOMAIN h : n # "Set-Cookie" => n # "Cookie" /\ h[n] = g[n]
    BY <1>4, <1>8, <2>1
  <2>5. SameElements(h["Set-Cookie"], g["Set-Cookie"])
    BY <1>5, <1>6, <2>1, <2>2
  <2>6. ASSUME NEW n \in DOMAIN h
        PROVE  CASE n = "Cookie" -> SameElements(h[n][1], g[n][1])
                 [] n = "Set-Cookie" -> SameElements(h[n], g[n])
                 [] OTHER -> h[n] = g[n]
    BY <2>4, <2>5
  <2> QED
    BY <2>3, <2>6 DEF SameHeaders
<1> QED
  BY <1>10, <1>11 DEF g

LEMMA ResponseReturns ==
  ASSUME CookieInv, [Next]_vars, pc = "viewerResponse", Behavior.viewerResponse = PassThrough
  PROVE  \/ resp' = resp
         \/ /\ resp'.status = resp.status
            /\ resp'.headers = HTTPHeaders(Edited(PassThrough, ResponseEvent(resp.status, resp.headers)))
<1>1. DOMAIN resp = {"status", "headers", "body", "source"}
  BY DEF CookieInv, Bearing
<1>2. CASE RunViewerResponse
  <2> DEFINE g == HTTPHeaders(Edited(PassThrough, ResponseEvent(resp.status, resp.headers)))
  <2>1. PassThrough.kind = "edit" /\ "fail" # "edit"
    BY HarmlessKinds
  <2>2. PassThrough.status = 0
    BY Zenon DEF PassThrough
  <2>3. resp' = Restyled(resp, IF PassThrough.status = 0 THEN resp.status ELSE PassThrough.status, g)
    BY <1>2, <2>1, Zenon DEF RunViewerResponse, Restyled
  <2> HIDE DEF g
  <2>4. resp' = Restyled(resp, resp.status, g)
    BY <2>2, <2>3, Zenon
  <2>5. \A status : Restyled(resp, status, g).status = status /\ Restyled(resp, status, g).headers = g
    BY <1>1 DEF Restyled
  <2> QED
    BY <2>4, <2>5 DEF g
<1>3. CASE UNCHANGED vars
  BY <1>3 DEF vars
<1> QED
  BY <1>2, <1>3 DEF Next, RunViewerRequest, FetchOrigin, ApplyErrorResponse, SetResponseHeaders, Write

(* A viewer-response function that returns its event as it is changes      *)
(* neither the status nor the headers, whatever the policies and the       *)
(* origins' answers are.                                                   *)
THEOREM UnchangedResponsesAreNotNoticed ==
  ASSUME CookiesAreOneWay
  PROVE  Spec => IdentityResponseIsInvisible
<1>1. Init => CookieInv
  BY InitData DEF Init, CookieInv
<1>2. CookieInv /\ [Next]_vars => CookieInv'
  BY StepBears
<1>3. ASSUME CookieInv, [Next]_vars, pc = "viewerResponse", Behavior.viewerResponse = PassThrough,
             OneOfEach(Firsts(Lines(resp.headers, "Set-Cookie"))), AllNamed(Firsts(Lines(resp.headers, "Set-Cookie")))
      PROVE  SameHeaders(resp.headers, resp'.headers) /\ resp'.status = resp.status
  <2>1. CookieLines(resp.headers)
    BY <1>3 DEF CookieInv, Bearing
  <2>2. SameHeaders(resp.headers, HTTPHeaders(Edited(PassThrough, ResponseEvent(resp.status, resp.headers))))
    BY <1>3, <2>1, ReturnedResponse
  <2>3. SameHeaders(resp.headers, resp.headers)
    BY DEF SameHeaders, SameElements
  <2> QED
    BY <1>3, <2>2, <2>3, ResponseReturns
<1>4. CookieInv /\ [Next]_vars
        => [LET lines == Lines(resp.headers, "Set-Cookie")
                cookies == [i \in DOMAIN lines |-> lines[i][1]]
            IN  (/\ pc = "viewerResponse" /\ Behavior.viewerResponse = PassThrough
                 /\ OneOfEach(cookies) /\ AllNamed(cookies))
                => /\ SameHeaders(resp.headers, resp'.headers)
                   /\ resp'.status = resp.status]_vars
  BY <1>3 DEF Firsts
<1> QED
  BY <1>1, <1>2, <1>4, PTL DEF Spec, IdentityResponseIsInvisible
=============================================================================
