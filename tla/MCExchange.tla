------------------------------ MODULE MCExchange -----------------------------
(* Distributions that differ in the policies, functions and origin of the  *)
(* behavior of "/" and "/a"; error pages come from another behavior.       *)
EXTENDS Exchange, TLC

CONSTANTS cc, dv, xcc  \* CloudFront-Viewer-Country, -Is-Desktop-Viewer; X-Localfront-Viewer-Country

MCNameOrder == <<"", "%", "c1", "c2", "q1", "q2">>
MCUndecodable == {"%"}
MCCloudFrontHeaders == {cc, dv}
MCOverrides == xcc :> cc
MCSynthesized == cc :> <<<<"US">>>> @@ dv :> <<<<"true">>>>
MCCompressibleTypes == {"text/html"}

Pair(n, v) == [name |-> n, value |-> v]
Select(kind, items) == [behavior |-> kind, items |-> items]
All == Select("all", {})
Only(items) == Select("whitelist", items)
But(items) == Select("allExcept", items)
Cache(headers, cookies, query, codings) ==
  [headers |-> headers, cookies |-> cookies, queryStrings |-> query,
   gzip |-> "gzip" \in codings, brotli |-> "br" \in codings]
Orp(headers, cookies, query) == [headers |-> headers, cookies |-> cookies, queryStrings |-> query]

listing == [cache |-> Cache(Only({"X-A", "Origin", cc}), Only({"c1"}), Only({"q1"}), {"gzip"}), orp |-> NoPolicy]
viewerAll == [cache |-> Cache(Nothing, Nothing, Nothing, {"gzip", "br"}), orp |-> Orp(Select("allViewer", {}), All, All)]
mixed == [cache |-> Cache(Nothing, Only({"c1"}), Only({"q2"}), {"br"}),
          orp |-> Orp(Select("allViewerAndWhitelistCloudFront", {dv}), Only({"c2"}), But({"q2"}))]
except == [cache |-> Cache(Only({cc}), Nothing, Nothing, {}), orp |-> Orp(But({"X-A", "Host"}), But({"c1"}), Nothing)]
legacy == [cache |-> Cache(All, All, All, {}), orp |-> NoPolicy]

custom == [custom |-> TRUE, host |-> "app", customHeaders |-> "X-Secret" :> <<<<"s">>>>]
bucket == [custom |-> FALSE, host |-> "bucket", customHeaders |-> "X-A" :> <<<<"ours">>>>]

Cors(origins, override) ==
  [allowOrigins |-> origins, fields |-> "Access-Control-Max-Age" :> <<"9">>, override |-> override]
strict == [removeHeaders |-> {"Server"}, cors |-> Cors({"o1"}, TRUE),
           customHeaders |-> <<[name |-> "Vary", line |-> <<"Cookie">>, override |-> TRUE],
                               [name |-> "X-Frame-Options", line |-> <<"DENY">>, override |-> FALSE]>>]
open == [NoResponseHeaders EXCEPT !.cors = Cors({"o1", "o2"}, FALSE)]

rewrite == [PassThrough EXCEPT !.uri = "/b", !.drop = {"X-A", "c1"},
              !.set = cc :> <<<<"forged">>>> @@ "X-B" :> <<<<"f">>>>]
deny == [kind |-> "respond", status |-> 0, headers |-> "Location" :> <<<<"/">>>>, cookies |-> "c1" :> "v", size |-> 2000]
restyle == [PassThrough EXCEPT !.status = 404, !.drop = {"Vary"}]
fail == [kind |-> "fail"]

Behave(policies, origin, rhp, compress, request, response) ==
  [origin |-> origin, responseHeaders |-> rhp, compress |-> compress,
   viewerRequest |-> request, viewerResponse |-> response] @@ policies

Mains ==
  {Behave(p, o, strict, TRUE, PassThrough, PassThrough) : p \in {listing, viewerAll, mixed, except, legacy}, o \in {custom, bucket}}
  \cup {Behave(viewerAll, custom, open, c, f, NoFunction) : c \in BOOLEAN, f \in {NoFunction, rewrite, deny, fail}}
  \cup {Behave(listing, bucket, open, TRUE, NoFunction, f) : f \in {restyle, fail}}

pages == Behave(except, custom, NoResponseHeaders, TRUE, fail, fail)
Dist(main, errors) ==
  [behaviors |-> ("/" :> main @@ "/a" :> main @@ "/err" :> pages), rootObject |-> "index", domain |-> "d1", errorResponses |-> errors]
Error(code, response, page) == [code |-> code, response |-> response, page |-> page]

MCDistributions ==
  {Dist(m, <<Error(404, 200, "/err"), Error(404, 500, "")>>) : m \in Mains}
  \cup {Dist(m, <<Error(502, 503, "/a"), Error(404, 410, "")>>) : m \in {Behave(mixed, bucket, open, TRUE, NoFunction, NoFunction)}}

Request(path, headers, query) ==
  [method |-> "GET", path |-> path, raw |-> TRUE, query |-> query, headers |-> headers, host |-> "www", ip |-> "ip", id |-> "id"]
HEADOf(r) == [r EXCEPT !.method = "HEAD"]

both == <<Pair("q2", "v"), Pair("q1", "v"), Pair("q2", "w")>>
cookies == "Cookie" :> <<<<Pair("c2", "v"), Pair("c1", "v")>>>>
accepting == "Accept-Encoding" :> <<<<"br", "gzip">>>>
broken == <<Pair("q2", "%"), Pair("%", "v"), Pair("q1", "v"), Pair("q2", NoValue), Pair("", "v")>>
plain == "X-A" :> <<<<"v">>>> @@ "Origin" :> <<<<"o1">>>> @@ cookies @@ accepting

MCRequests ==
  {Request("/a", plain, both), HEADOf(Request("/a", plain, both)),
   Request("/", "Range" :> <<<<"r">>>> @@ "If-None-Match" :> <<<<"e">>>> @@ accepting, <<>>),
   Request("/a", xcc :> <<<<"JP">>>> @@ cc :> <<<<"forged">>>> @@ "Origin" :> <<<<"o2">>>> @@ "Via" :> <<<<"proxy">>>>, both),
   Request("/a", "Connection" :> <<<<"close", "X-A">>, <<"X-B">>>> @@ "X-B" :> <<<<"v">>>> @@ "Te" :> <<<<"t">>>> @@ plain, <<>>),
   Request("/a", "Connection" :> <<<<"Range", "Cookie">>>> @@ "Range" :> <<<<"r">>>> @@ "Accept-Encoding" :> <<<<"gzip">>>> @@ cookies, <<>>),
   Request("/a", "Cookie" :> <<<<Pair("c1", "v"), Pair("c1", "w")>>>> @@ "Accept-Encoding" :> <<<<"zstd">>>>, <<Pair("q1", "v")>>),
   Request("/a", accepting, broken),
   Request("/a", "Cookie" :> <<<<Pair("c2", NoValue), Pair("c1", "v")>>>>, Append(broken, Pair("q1", "%")))}

html == "Content-Type" :> <<<<"text/html">>>>
MCObjects ==
  {[size |-> 40000, headers |-> "Set-Cookie" :> <<<<Pair("c2", "v")>>, <<Pair("c1", "v")>>>> @@ "Vary" :> <<<<"X-A", "Origin">>>> @@ html],
   [size |-> 900, headers |-> "Set-Cookie" :> <<<<Pair("", "v")>>, <<Pair("c1", "v")>>>> @@ "Access-Control-Allow-Origin" :> <<<<"o9">>>> @@ html],
   [size |-> 2000, headers |-> "Cache-Control" :> <<<<"public", "no-transform">>>> @@ "Set-Cookie" :> <<<<Pair("c1", NoValue)>>>> @@ "Connection" :> <<<<"X-A">>>> @@ "X-A" :> <<<<"v">>>> @@ html]}

(* The hypotheses of the theorems about this module.                       *)
ASSUME PlainConfiguration == DocumentedPolicies /\ Unconditional /\ PlainHeaders /\ CookiesAreOneWay
=============================================================================
