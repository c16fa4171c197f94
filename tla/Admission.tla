------------------------------- MODULE Admission -------------------------------
(***************************************************************************)
(* How a request is let in: ServeHTTP from the snapshot to the method      *)
(* check, and the verification of signed URLs and cookies at the head of   *)
(* serve.  Time passes, and the configuration may be swapped (its keys     *)
(* rotated, its behaviors reordered), between any two stages.              *)
(*                                                                         *)
(* A configuration is [dists, pubKeys]; pubKeys maps the IDs of the public *)
(* keys that could be parsed to RSA keys.  A distribution is [enabled,     *)
(* domain, aliases, root, behaviors, default], a behavior is [pattern,     *)
(* methods, keyGroups], a key group is a sequence of key IDs.              *)
(***************************************************************************)
EXTENDS Routing, Sign

CONSTANTS
  Configs,      \* the configurations
  Links,        \* the links that the owners of keys have signed
  Visits,       \* what viewers ask for: [request, link]
  PublicHosts,  \* what --public-host may be, None: empty
  MaxTime,      \* bound: the clock stops there
  MaxSwaps      \* bound: number of swaps

(* The shapes of configurations: lists, and patterns, are sequences.       *)
IsSeq(x) == x \in Seq(ToSet(x))

IsAlias(al) == al = [wild |-> al.wild, labels |-> al.labels] /\ al.wild \in BOOLEAN /\ IsSeq(al.labels)

IsDistribution(d) ==
  /\ d # None
  /\ d.root # None => IsSeq(d.root)
  /\ IsSeq(d.behaviors)
  /\ \A i \in DOMAIN d.behaviors : IsSeq(d.behaviors[i].pattern)
  /\ \A i \in DOMAIN d.aliases : IsAlias(d.aliases[i])

ASSUME ConfigAssumption ==
  \A cfg \in Configs : cfg # None /\ IsSeq(cfg.dists) /\ \A d \in DOMAIN cfg.dists : IsDistribution(cfg.dists[d])

ASSUME RequestAssumption ==
  \A v \in Visits :
    /\ IsSeq(v.request.host)
    /\ IsSeq(v.request.path) /\ v.request.path # <<>> /\ Head(v.request.path) = Slash
    /\ IsSeq(v.request.query)

ASSUME PublicHostAssumption == \A h \in PublicHosts : h # None => IsSeq(h)

ASSUME BoundAssumption == MaxTime \in Nat /\ MaxSwaps \in Nat

ASSUME NoneAssumption == None \notin Nat /\ Malformed \notin Nat

VARIABLES
  now,        \* the clock
  config,     \* the configuration in Server.snap
  swaps,
  publicHost, \* Server.publicHost, an option of the command line
  visit,      \* the request, and the link it follows as it was issued, or None
  stage,      \* "new", "routed", "verify", "admitted", "refused"
  snap,       \* the snapshot of the request
  dist, beh,  \* what it was routed to
  checkedAt   \* when its signature was verified, or None

serverVars == <<config, swaps, publicHost>>
vars == <<now, serverVars, visit, stage, snap, dist, beh, checkedAt>>

request == visit.request

Init ==
  /\ now = 0 /\ swaps = 0
  /\ config \in Configs /\ publicHost \in PublicHosts
  /\ visit \in Visits
  /\ stage = "new"
  /\ snap = None /\ dist = None /\ beh = None /\ checkedAt = None

(* ServeHTTP loads the snapshot, matches the Host and selects a behavior.  *)
Route ==
  /\ stage = "new"
  /\ snap' = config
  /\ LET d == Match(config, request.host)
     IN IF d = None
        THEN stage' = "refused" /\ UNCHANGED <<dist, beh>>
        ELSE /\ stage' = "routed"
             /\ dist' = config.dists[d]
             /\ beh' = Select(dist', request.path)
  /\ UNCHANGED <<now, serverVars, visit, checkedAt>>

CheckMethod ==
  /\ stage = "routed"
  /\ stage' = IF AllowsMethod(beh, request.method) THEN "verify" ELSE "refused"
  /\ UNCHANGED <<now, serverVars, visit, snap, dist, beh, checkedAt>>

(* The keys of a behavior's key groups; those that could not be parsed are *)
(* not among them.                                                         *)
TrustedKeys(cfg, b) ==
  {[id |-> id, rsa |-> cfg.pubKeys[id]] :
     id \in DOMAIN cfg.pubKeys \cap UNION {ToSet(group) : group \in ToSet(b.keyGroups)}}

CheckSignature_ReadsCurrent ==
  /\ stage = "verify"
  /\ checkedAt' = now
  /\ stage' = IF beh.keyGroups = <<>> \/ Verify(request, TrustedKeys(config, beh), now, dist.root, publicHost)
              THEN "admitted" ELSE "refused"
  /\ UNCHANGED <<now, serverVars, visit, snap, dist, beh>>

(* Without key groups there is nothing to verify.                          *)
CheckSignature ==
  /\ stage = "verify"
  /\ checkedAt' = now
  /\ stage' = IF beh.keyGroups = <<>> \/ Verify(request, TrustedKeys(snap, beh), now, dist.root, publicHost)
              THEN "admitted" ELSE "refused"
  /\ UNCHANGED <<now, serverVars, visit, snap, dist, beh>>

Swap ==
  /\ swaps < MaxSwaps
  /\ swaps' = swaps + 1
  /\ config' \in Configs
  /\ UNCHANGED <<now, publicHost, visit, stage, snap, dist, beh, checkedAt>>

Tick ==
  /\ now < MaxTime
  /\ now' = now + 1
  /\ UNCHANGED <<serverVars, visit, stage, snap, dist, beh, checkedAt>>

Next == Route \/ CheckMethod \/ CheckSignature \/ Swap \/ Tick

Spec == Init /\ [][Next]_vars

-----------------------------------------------------------------------------
(* Links: what a signer hands out and a viewer follows.                    *)

(* A link is [kind, keyID, rsa, doc, url, via]: a document that covers the *)
(* URL [host, path, query], signed with a key, to be sent in the query or  *)
(* in cookies.  The signer of the AWS SDK appends its parameters to the    *)
(* URL's own, and covers with a canned policy that URL as it is.           *)
Credentials(link) ==
  [keyPairID |-> link.keyID,
   signature |-> [key |-> link.rsa, over |-> link.doc],
   policy |-> IF link.kind = "custom" THEN link.doc ELSE None,
   expires |-> IF link.kind = "canned" THEN link.doc.lessThan ELSE None]

NoCredentials == [keyPairID |-> None, signature |-> None, policy |-> None, expires |-> None]

Param(name, value) == [name |-> name, value |-> value]

SignedQuery(link) ==
  LET c == Credentials(link)
  IN link.url.query
       \o (IF link.kind = "canned" THEN <<Param("Expires", c.expires)>> ELSE <<Param("Policy", c.policy)>>)
       \o <<Param("Signature", c.signature), Param("Key-Pair-Id", c.keyPairID)>>

Follow(link, remote) ==
  [request |-> [host |-> link.url.host, path |-> link.url.path, remote |-> remote, method |-> "GET",
                query |-> IF link.via = "query" THEN SignedQuery(link) ELSE link.url.query,
                cookies |-> IF link.via = "cookies" THEN Credentials(link) ELSE NoCredentials],
   link |-> link]

(* What a signer can sign: a URL that names no signing parameters, and     *)
(* either the canned policy of a URL or any policy that names a resource.  *)
IsLink(link) ==
  /\ link.via \in {"query", "cookies"}
  /\ IsSeq(link.url.query)
  /\ \A i \in DOMAIN link.url.query : link.url.query[i].name \notin SigningParams
  /\ {link.keyID, link.rsa, link.doc, Credentials(link).signature} \cap {None, Malformed} = {}
  /\ IsSeq(link.doc.resource) /\ link.doc.resource # <<>>
  /\ \/ /\ link.kind = "canned"
        /\ link.doc = CannedPolicy(link.doc.resource, link.doc.lessThan)
        /\ link.doc.lessThan \in Nat \ {0}
     \/ link.kind = "custom"

ASSUME LinkAssumption == None \notin Links /\ \A link \in Links : IsLink(link)

(* Nobody signs but the owner of a key: a signature in a request is one of *)
(* a link.  What comes with it is the viewer's to choose.                  *)
ASSUME SignatureAssumption ==
  LET signatures == {None, Malformed} \cup {Credentials(link).signature : link \in Links}
  IN \A v \in Visits : ExtractCredentials(v.request).signature \in signatures

(* Following a link as it was issued leaves its query and cookies alone.   *)
Carries(r, link) ==
  LET followed == Follow(link, r.remote).request
  IN r.query = followed.query /\ r.cookies = followed.cookies

ASSUME FollowAssumption == \A v \in Visits : v.link # None => v.link \in Links /\ Carries(v.request, v.link)

(* What an SDK signs with a custom policy: a URL with its scheme, a path,  *)
(* or everything; and an IP condition that parses.                         *)
WellFormed(link) ==
  link.kind = "custom" =>
    /\ link.doc.ip # Malformed
    /\ \/ link.doc.resource = <<Star>>
       \/ Head(link.doc.resource) = Slash
       \/ SchemeSep \in ToSet(BeforeQuery(link.doc.resource))

NoSchemeIn(path) == SchemeSep \notin ToSet(path)

PlainPaths ==
  /\ \A v \in Visits : NoSchemeIn(v.request.path)
  /\ \A cfg \in Configs : \A d \in DOMAIN cfg.dists :
       cfg.dists[d].root # None => NoSchemeIn(<<Slash>> \o cfg.dists[d].root)

(* In force: after its beginning, before its end, for this address.        *)
InForce(doc, time, remote) ==
  /\ doc.lessThan > 0 => time < doc.lessThan
  /\ doc.greaterThan > 0 => doc.greaterThan < time
  /\ doc.ip # None => remote \in doc.ip

(* The key is one that the behavior's key groups name by this ID.          *)
Trusted(id, rsa) ==
  /\ \E g \in ToSet(beh.keyGroups) : id \in ToSet(g)
  /\ id \in DOMAIN snap.pubKeys /\ snap.pubKeys[id] = rsa

Authority == IF publicHost = None THEN request.host ELSE publicHost

ServedPath == IF request.path = <<Slash>> /\ dist.root # None THEN <<Slash>> \o dist.root ELSE request.path

(* A canned policy is about one URL, its query included; a custom one      *)
(* about all that its resource, the query left out, matches (Glob relates  *)
(* MatchGlob to what wildcards mean).                                      *)
IsAbout(doc, query) == \E scheme \in {Https, Http} : doc.resource = URL(scheme, Authority, ServedPath, query)

CoversURL(doc) ==
  \/ MatchGlob(BeforeQuery(doc.resource), ServedPath)
  \/ \E scheme \in {Https, Http} : MatchGlob(BeforeQuery(doc.resource), URL(scheme, Authority, ServedPath, <<>>))

Presented == ExtractCredentials(request)

(* What the viewer asks for beside the signer's parameters.                *)
OwnParams == {param \in ToSet(request.query) : param # Blank /\ param.name \notin SigningParams}

(* The signature is one of this link, of a trusted key, in force, and of a *)
(* document about what is asked for, its own parameters included unless a  *)
(* whole policy came with it.                                              *)
AuthorisedBy(link) ==
  /\ Presented.signature = Credentials(link).signature
  /\ Trusted(Presented.keyPairID, link.rsa)
  /\ InForce(link.doc, checkedAt, request.remote)
  /\ IF Presented.policy # None THEN CoversURL(link.doc)
     ELSE \E query \in Suffixes(link.doc.resource) : ToSet(query) = OwnParams /\ IsAbout(link.doc, query)

(* The link that is followed opens what is asked for.                      *)
Entitled ==
  /\ visit.link # None
  /\ Trusted(visit.link.keyID, visit.link.rsa)
  /\ InForce(visit.link.doc, checkedAt, request.remote)
  /\ IF visit.link.kind = "custom" THEN CoversURL(visit.link.doc) ELSE IsAbout(visit.link.doc, visit.link.url.query)

-----------------------------------------------------------------------------
TypeOK ==
  /\ now \in 0 .. MaxTime /\ swaps \in 0 .. MaxSwaps /\ publicHost \in PublicHosts
  /\ config \in Configs
  /\ stage \in {"new", "routed", "verify", "admitted", "refused"}
  /\ snap \in Configs \cup {None}
  /\ checkedAt \in (0 .. MaxTime) \cup {None}
  /\ stage \in {"routed", "verify", "admitted"} =>
       /\ dist \in ToSet(snap.dists)
       /\ beh \in ToSet(dist.behaviors) \cup {dist.default}

(* Past a restricted behavior comes only a viewer with the signature of a  *)
(* link by a key of that behavior, in the configuration the request        *)
(* started with, for a document that covers what is asked for and is in    *)
(* force when it is checked, whatever else the viewer changed.             *)
OnlyAuthorisedEnter ==
  stage = "admitted" /\ beh.keyGroups # <<>> => \E link \in Links : AuthorisedBy(link)

(* A link the SDK signed is good for what it was signed for: whoever       *)
(* follows it in time is not turned away, in whatever way it travels and   *)
(* whatever query string the URL has of its own, if a canned policy's has  *)
(* no empty parameter: those are lost when the code puts the query         *)
(* together again, and the URL is no longer the one that was signed.       *)
IssuedLinksWork ==
  stage = "refused" /\ checkedAt # None /\ Entitled =>
    visit.link.kind = "canned" /\ Blank \in ToSet(visit.link.url.query)

(* The serving distribution is an enabled one that declares the host, by   *)
(* name if any does, and a host some enabled distribution declares is      *)
(* served.                                                                 *)
HostIsServedByOwner ==
  snap # None =>
    LET owners == {d \in ToSet(snap.dists) : d.enabled /\ (request.host = d.domain \/ \E al \in ToSet(d.aliases) : ~al.wild /\ al.labels = request.host)}
        wild == {d \in ToSet(snap.dists) : d.enabled /\ \E al \in ToSet(d.aliases), l \in ToSet(request.host) : al.wild /\ request.host = <<l>> \o al.labels}
    IN IF owners # {} THEN dist \in owners ELSE IF wild # {} THEN dist \in wild ELSE dist = None

(* The behavior in force is the first in template order whose pattern      *)
(* covers the path.                                                        *)
FirstMatchServes ==
  dist # None =>
    LET hits == {i \in DOMAIN dist.behaviors : Matches(TrimSlash(dist.behaviors[i].pattern), TrimSlash(request.path))}
    IN IF hits = {} THEN beh = dist.default
       ELSE \E i \in hits : beh = dist.behaviors[i] /\ \A j \in hits : i <= j
=============================================================================
