----------------------------- MODULE MCAdmission -----------------------------
(* Two configurations that differ in key rotation, in the order of         *)
(* behaviors and in what is enabled; visitors without links, with links as *)
(* issued and with links that were changed.                                *)
EXTENDS Admission, TLC

CONSTANTS
  www, tenant, x, com, d1,  \* labels
  p, q,                     \* characters of paths
  app,                      \* a parameter of an application's query
  rsa1, rsa2, rsa3          \* RSA keys

ex == <<x, com>>
wwwHost == <<www>> \o ex
tenantHost == <<tenant>> \o ex

Behavior(pattern, methods, groups) == [pattern |-> pattern, methods |-> methods, keyGroups |-> groups]

open == Behavior(<<Star>>, {"GET", "POST"}, <<>>)
private == Behavior(<<Slash, p, Star>>, {"GET"}, <<<<"K1">>, <<"K0", "K2">>>>)
narrow == Behavior(<<Star, QMark, q>>, {"GET"}, <<>>)

Dist(enabled, domain, aliases, root, behaviors, default) ==
  [enabled |-> enabled, domain |-> domain, aliases |-> aliases, root |-> root,
   behaviors |-> behaviors, default |-> default]

Exact(host) == [wild |-> FALSE, labels |-> host]
Wild(labels) == [wild |-> TRUE, labels |-> labels]

(* Before: tenants are served by the second distribution; K0 cannot be     *)
(* parsed.  After: K1 has another key, the narrow behavior comes first,    *)
(* the second distribution is disabled.                                    *)
before ==
  [dists |-> <<Dist(TRUE, <<d1>>, <<Exact(wwwHost)>>, <<p>>, <<private, narrow>>, open),
               Dist(TRUE, ex, <<Wild(ex)>>, <<p>>, <<>>, private)>>,
   pubKeys |-> ("K1" :> rsa1 @@ "K2" :> rsa2)]

after ==
  [dists |-> <<Dist(TRUE, <<d1>>, <<Wild(ex), Exact(wwwHost)>>, <<p>>, <<narrow, private>>, open),
               Dist(FALSE, ex, <<Exact(tenantHost)>>, None, <<>>, open)>>,
   pubKeys |-> ("K1" :> rsa3 @@ "K2" :> rsa2)]

MCConfigs == {before, after}

Doc(resource, lessThan, greaterThan, ip) ==
  [resource |-> resource, lessThan |-> lessThan, greaterThan |-> greaterThan, ip |-> ip]

Addresses == {"a1", "a2"}
Keys == {<<"K1", rsa1>>, <<"K1", rsa3>>, <<"K2", rsa2>>, <<"K2", rsa3>>, <<"K0", rsa1>>, <<"K9", rsa2>>}
Own == <<[name |-> "app", value |-> app], [name |-> "b", value |-> None]>>
Queries == {<<>>, Own}
Urls == [host : {wwwHost, tenantHost}, path : {<<Slash, p, q>>}, query : Queries]
BlankUrls == [host : {wwwHost}, path : {<<Slash, p, q>>}, query : {<<Own[1], Blank, Own[2]>>, <<Blank>>}]
Root == [host |-> tenantHost, path |-> <<Slash>>, query |-> <<>>]
LinksOf(kind, docs(_), urls) ==
  {[kind |-> kind, keyID |-> k[1], rsa |-> k[2], doc |-> doc, url |-> url, via |-> via] :
     k \in Keys, url \in urls, doc \in UNION {docs(u) : u \in urls}, via \in {"query", "cookies"}}

(* What SDK users sign: a canned policy for the URL itself, with either    *)
(* scheme, the root as its object; custom policies with wildcards.         *)
Object(u) == IF u.path = <<Slash>> THEN <<Slash, p>> ELSE u.path
CannedDocs(u) == {Doc(URL(scheme, u.host, Object(u), u.query), 2, 0, None) : scheme \in {Https, Http}}
CustomDocs(u) ==
  {Doc(<<Https, SchemeSep>> \o u.host \o <<Slash, p, Star>>, 2, 0, None),
   Doc(<<Star, SchemeSep, Star>> \o ex \o <<Slash, Star>>, 2, 0, {"a1"}),
   Doc(<<Slash, Star>>, 0, 1, None),
   Doc(<<Https, SchemeSep>> \o u.host \o <<Slash, p, q, QMark, app>>, 2, 1, None),
   Doc(<<Star>>, 1, 0, None)}

AllLinks ==
  LinksOf("canned", CannedDocs, Urls \cup {Root}) \cup LinksOf("custom", CustomDocs, Urls \cup {Root})
    \cup {l \in LinksOf("canned", CannedDocs, BlankUrls) \cup LinksOf("custom", CustomDocs, BlankUrls) : l.keyID = "K1"}

Plain(host, path, method) ==
  [request |-> [host |-> host, path |-> path, remote |-> "a1", method |-> method, query |-> <<>>, cookies |-> NoCredentials],
   link |-> None]

(* Credentials cut short or garbled; cookies do not make up for a query    *)
(* that names a key.                                                       *)
BrokenCredentials ==
  {[keyPairID |-> id, signature |-> sig, policy |-> pol, expires |-> exp] :
     id \in {"K1", None}, sig \in {Malformed, None}, pol \in {Malformed, None}, exp \in {Malformed, 2, None}}
Broken(c, method) ==
  LET good == Credentials(CHOOSE l \in LinksOf("canned", CannedDocs, Urls) : l.keyID = "K1" /\ l.url.host = wwwHost)
      query == <<Param("Key-Pair-Id", c.keyPairID), Param("Signature", c.signature), Param("Policy", c.policy), Param("Expires", c.expires)>>
  IN [request |-> [host |-> wwwHost, path |-> <<Slash, p, q>>, remote |-> "a1", method |-> method,
                   query |-> query, cookies |-> IF c.keyPairID = None THEN NoCredentials ELSE good],
      link |-> None]

Elsewhere(v) == [v EXCEPT !.request.path = <<Slash, p, p>>]

MCLinks == AllLinks

(* Followed with one thing changed: a parameter or cookie of the signer's, *)
(* for the whole policy among them; or a parameter more, at either end.    *)
Changed(query, name, value) == [i \in DOMAIN query |-> IF query[i].name = name THEN Param(name, value) ELSE query[i]]
Wide == Doc(<<Star>>, 3, 0, None)
Altered(link) ==
  LET r == Follow(link, "a1").request
      queries == {Changed(r.query, "Expires", 3), Changed(r.query, "Policy", Wide), Changed(r.query, "Key-Pair-Id", "K2"),
                  Append(r.query, Param("Policy", Wide)), Append(r.query, Param("Policy", link.doc)),
                  Append(r.query, Param("Expires", 3)), Append(r.query, Own[1]), <<Own[2]>> \o r.query, Append(r.query, Blank)}
      jars == {[r.cookies EXCEPT !.expires = 3], [r.cookies EXCEPT !.policy = Wide],
               [r.cookies EXCEPT !.policy = link.doc], [r.cookies EXCEPT !.keyPairID = "K2"]}
  IN {[request |-> [r EXCEPT !.query = query], link |-> None] : query \in queries}
       \cup IF link.via = "query" THEN {} ELSE {[request |-> [r EXCEPT !.cookies = jar], link |-> None] : jar \in jars}

MCVisits ==
  {Plain(h, pa, m) : h \in {wwwHost, tenantHost, <<d1>>, ex, <<com>>, <<www, www>> \o ex},
                     pa \in {<<Slash>>, <<Slash, p>>, <<Slash, q, p, q>>, <<Slash, p, q>>}, m \in {"GET", "POST"}}
    \cup {Follow(l, a) : l \in AllLinks, a \in Addresses}
    \cup {Elsewhere(Follow(l, "a1")) : l \in AllLinks}
    \cup UNION {Altered(l) : l \in {k \in AllLinks : k.keyID = "K1" /\ k.rsa = rsa1 /\ k.url.host = wwwHost}}
    \cup {Broken(c, m) : c \in BrokenCredentials, m \in {"GET", "POST"}}

MCPublicHosts == {None, wwwHost}

(* What the theorems that are not about all visits ask for.                *)
ASSUME VisitsArePlain ==
  /\ PlainPaths
  /\ \A v \in Visits : NoStarIn(v.request.path) /\ (v.link # None => WellFormed(v.link))
=============================================================================
