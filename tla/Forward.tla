------------------------------- MODULE Forward -------------------------------
(***************************************************************************)
(* What a behavior sends to its origin: internal/behavior/viewer.go and    *)
(* forward.go, and the origin requests the data plane makes of it.         *)
(*                                                                         *)
(* A behavior without an origin request policy has NoPolicy, which selects *)
(* nothing, as the nil checks of the code do.  Cookies and query           *)
(* parameters are pairs of a name and a value; that the code keeps their   *)
(* encoding and leaves out empty ones is not modelled.                     *)
(***************************************************************************)
EXTENDS Headers, FiniteSets

CONSTANTS
  CloudFrontHeaders,  \* the names that begin with CloudFront-
  Overrides,          \* the X-Localfront- names, and the CloudFront header each sets
  Synthesized         \* the CloudFront headers of a request without overrides

ASSUME OverridesAssumption ==
  /\ \A n \in DOMAIN Overrides : Overrides[n] \in CloudFrontHeaders /\ n \notin CloudFrontHeaders
  /\ \A n, k \in DOMAIN Overrides : Overrides[n] = Overrides[k] => n = k

ASSUME SynthesizedAssumption == DOMAIN Synthesized \subseteq CloudFrontHeaders

(* No header that localfront itself sets or forwards begins so.            *)
ASSUME CloudFrontAssumption ==
  CloudFrontHeaders \cap {"Cookie", "Set-Cookie", "Host", "Accept-Encoding", "Origin", "Connection", "Via", "X-Forwarded-For",
     "X-Amz-Cf-Id", "Range", "If-Match", "If-None-Match", "If-Modified-Since", "If-Unmodified-Since"} = {}

Nothing == [behavior |-> "none", items |-> {}]
NoPolicy == [headers |-> Nothing, cookies |-> Nothing, queryStrings |-> Nothing]

(* SynthesizeViewerHeaders with applyViewerOverrides.                      *)
SynthesizeViewerHeaders(h) ==
  LET overriding == DOMAIN h \cap DOMAIN Overrides
      set == [c \in {Overrides[n] : n \in overriding} |-> h[CHOOSE n \in overriding : Overrides[n] = c]]
  IN  Overlay(set, Synthesized)

-----------------------------------------------------------------------------
(* The selections of a policy.                                             *)

(* headerSelected: allViewer and allExcept are for origin request policies.*)
HeaderSelected(sel, name, allowViewer) ==
  \/ sel.behavior = "all"
  \/ sel.behavior = "whitelist" /\ name \in sel.items
  \/ sel.behavior \in {"allViewer", "allViewerAndWhitelistCloudFront"} /\ allowViewer
  \/ sel.behavior = "allExcept" /\ allowViewer /\ name \notin sel.items

(* forwardsHeader: the union of both policies.                             *)
ForwardsHeader(b, name) ==
  HeaderSelected(b.cache.headers, name, FALSE) \/ HeaderSelected(b.orp.headers, name, TRUE)

(* selectsCloudFrontHeader.                                                *)
SelectsCloudFrontHeader(b, name) ==
  \/ b.cache.headers.behavior = "whitelist" /\ name \in b.cache.headers.items
  \/ b.orp.headers.behavior \in {"whitelist", "allViewerAndWhitelistCloudFront"} /\ name \in b.orp.headers.items

(* listSelected, for cookies and query strings.                            *)
ListSelected(sel, name) ==
  \/ sel.behavior = "all"
  \/ sel.behavior = "whitelist" /\ name \in sel.items
  \/ sel.behavior = "allExcept" /\ name \notin sel.items

FilterCookies(b, pairs) ==
  Kept(pairs, {p \in ToSet(pairs) : ListSelected(b.cache.cookies, p.name) \/ ListSelected(b.orp.cookies, p.name)})

FilterQuery(b, pairs) ==
  Kept(pairs, {p \in ToSet(pairs) : ListSelected(b.cache.queryStrings, p.name) \/ ListSelected(b.orp.queryStrings, p.name)})

(* normalizeAcceptEncoding: the codings the cache policy enables and the   *)
(* viewer accepts, gzip first.                                             *)
NormalizeAcceptEncoding(b, viewer) ==
  LET IfAccepted(e) == IF e \in ToSet(viewer) THEN <<e>> ELSE <<>>
  IN  IF b.cache.gzip \/ b.cache.brotli
      THEN (IF b.cache.gzip THEN IfAccepted("gzip") ELSE <<>>) \o (IF b.cache.brotli THEN IfAccepted("br") ELSE <<>>)
      ELSE IF ForwardsHeader(b, "Accept-Encoding") THEN viewer ELSE <<>>

-----------------------------------------------------------------------------
(* BuildOriginRequest.                                                     *)

Separate == {"Host", "Cookie", "Accept-Encoding"}

ConnectionListedHeaders(h) == Elements(Lines(h, "Connection"))

(* Mutant: the viewer's own CloudFront headers are forwarded as well.      *)
ViewerHeadersOf_CloudFront(b, h) ==
  LET skipped == Separate \cup ConnectionListedHeaders(h) \cup DOMAIN Overrides
  IN  Restrict(h, {n \in DOMAIN h \ skipped : ForwardsHeader(b, n)})

(* Step 1: the viewer's headers that both policies select between them.    *)
ViewerHeadersOf(b, h) ==
  LET skipped == Separate \cup ConnectionListedHeaders(h) \cup CloudFrontHeaders \cup DOMAIN Overrides
  IN  Restrict(h, {n \in DOMAIN h \ skipped : ForwardsHeader(b, n)})

BuildOriginRequest(b, r, viewerHeaders) ==
  LET synthesized == Restrict(viewerHeaders, {n \in DOMAIN viewerHeaders : SelectsCloudFrontHeader(b, n)})
      headers == Overlay(synthesized, ViewerHeadersOf(b, r.headers))
      cookies == FilterCookies(b, Get(r.headers, "Cookie"))
  IN  [headers |-> IF cookies # <<>> THEN SetHeader(headers, "Cookie", cookies) ELSE headers,
       query |-> FilterQuery(b, r.query),
       acceptEncoding |-> NormalizeAcceptEncoding(b, Get(r.headers, "Accept-Encoding")),
       forwardHost |-> ForwardsHeader(b, "Host")]

-----------------------------------------------------------------------------
(* The request an origin gets: fetchCustomOrigin and fetchS3Origin.        *)

AlwaysForwardedHeaders == {"Range", "If-Match", "If-None-Match", "If-Modified-Since", "If-Unmodified-Since"}

ApplyDefaultRootObject(path, root) == IF path = "/" /\ root # "" THEN root ELSE path

(* What both do to the headers; origin.customHeaders is a header set.      *)
OriginHeaders(origin, built, r) ==
  LET forwarded == RemoveHopByHopHeaders(Overlay(Restricted(r.headers, AlwaysForwardedHeaders), built.headers))
      encoded == IF built.acceptEncoding = <<>> THEN forwarded
                 ELSE SetHeader(forwarded, "Accept-Encoding", built.acceptEncoding)
  IN  Overlay(origin.customHeaders, encoded)

(* dist has the root object and the domain; r.raw says that the path's     *)
(* encoding is the viewer's own, which is kept unless the path was         *)
(* replaced.  Custom origins also get Host, X-Forwarded-For, X-Amz-Cf-Id   *)
(* and Via.                                                                *)
OriginRequest(dist, b, r, viewerHeaders) ==
  LET built == BuildOriginRequest(b, r, viewerHeaders)
      path == ApplyDefaultRootObject(r.path, dist.rootObject)
      headers == OriginHeaders(b.origin, built, r)
      chained == AppendXForwardedFor(headers, Get(r.headers, "X-Forwarded-For"), r.ip)
      custom == b.origin.custom
  IN  [method |-> r.method, path |-> path, query |-> built.query, custom |-> custom,
       headers |-> IF custom THEN AddVia(SetHeader(chained, "X-Amz-Cf-Id", <<r.id>>), dist.domain) ELSE headers,
       host |-> IF custom /\ built.forwardHost THEN r.host ELSE b.origin.host,
       raw |-> custom /\ r.raw /\ path = r.path]
=============================================================================
