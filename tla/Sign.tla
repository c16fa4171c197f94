--------------------------------- MODULE Sign ---------------------------------
(***************************************************************************)
(* Verification of signed URLs and signed cookies: Verify of internal/sign *)
(* with everything it calls.                                               *)
(*                                                                         *)
(* A signed document is [resource, lessThan, greaterThan, ip]; an RSA      *)
(* signature is the pair of the key that made it and the document it       *)
(* covers, and a value that does not decode is Malformed.  URLs are        *)
(* sequences of tokens, so that the wildcards of a resource can be         *)
(* matched; QMark, the character '?', also starts a query string.  A query *)
(* is a sequence of parameters [name, value], the pieces between its '&'s; *)
(* an empty piece is Blank, and <<Blank>> is the query of a URL that ends  *)
(* in '?'.  Epochs and the clock count the same ticks.                     *)
(***************************************************************************)
EXTENDS Wildcards, SequencesExt

CONSTANTS
  Https, Http,  \* the schemes
  SchemeSep,    \* "://"
  Malformed     \* what does not decode or parse

ASSUME TokenAssumption == Slash \notin {Star, QMark, Https, Http} /\ SchemeSep \notin {Star, QMark}

SigningParams == {"Key-Pair-Id", "Signature", "Policy", "Expires", "Hash-Algorithm"}

Blank == [name |-> None, value |-> None]

(* The first parameter of that name.                                       *)
Get(query, name) ==
  IF \E i \in DOMAIN query : query[i].name = name
  THEN query[SelectInSeq(query, LAMBDA param : param.name = name)].value
  ELSE None

FromQuery(r) ==
  [keyPairID |-> Get(r.query, "Key-Pair-Id"), signature |-> Get(r.query, "Signature"),
   policy |-> Get(r.query, "Policy"), expires |-> Get(r.query, "Expires")]

(* The cookies count only when the query names neither key nor signature;  *)
(* then nothing of the query is used.                                      *)
ExtractCredentials(r) ==
  LET c == FromQuery(r)
  IN IF c.keyPairID = None /\ c.signature = None THEN r.cookies ELSE c

CredentialsComplete(c) ==
  c.keyPairID # None /\ c.signature # None /\ (c.policy # None \/ c.expires # None)

(* trusted is a set of [id, rsa]: a snapshot has one key of an ID, so that *)
(* it makes no difference which the search meets first.                    *)
FindKey(trusted, id) ==
  IF \E key \in trusted : key.id = id THEN (CHOOSE key \in trusted : key.id = id).rsa ELSE None

VerifyRSA(rsa, doc, signature) == signature = [key |-> rsa, over |-> doc]

(* --public-host, or the request's own Host when that is empty.            *)
ResourceHost(r, publicHost) == IF publicHost # None THEN publicHost ELSE r.host

(* The root was signed, and is served, as the default root object.         *)
ApplyDefaultRootObject(path, root) ==
  IF path \in {<<>>, <<Slash>>} /\ root # None THEN <<Slash>> \o root ELSE path

ResourceQuery_DropsAll(query) == <<>>

(* What is left out of the query: empty pieces, and the signer's own.      *)
Stripped(param) == param = Blank \/ param.name \in SigningParams

(* The other parameters, one after the other.                              *)
ResourceQuery(query) ==
  LET kept[i \in 0 .. Len(query)] ==
        IF i = 0 THEN <<>>
        ELSE IF Stripped(query[i]) THEN kept[i - 1]
        ELSE Append(kept[i - 1], query[i])
  IN kept[Len(query)]

URL(scheme, host, path, query) ==
  <<scheme, SchemeSep>> \o host \o path \o (IF query = <<>> THEN <<>> ELSE <<QMark>> \o query)

CannedPolicy(resource, expires) ==
  [resource |-> resource, lessThan |-> expires, greaterThan |-> 0, ip |-> None]

VerifyCanned(r, rsa, c, now, root, host) ==
  LET path == ApplyDefaultRootObject(r.path, root)
      query == ResourceQuery(r.query)
  IN /\ c.expires # Malformed
     /\ \E scheme \in {Https, Http} :
          VerifyRSA(rsa, CannedPolicy(URL(scheme, host, path, query), c.expires), c.signature)
     /\ now < c.expires

(* The policy's IP condition is a network: a set of addresses.             *)
CheckIP(network, remote) == network # Malformed /\ remote \in network

(* Everything from the first '?' on is cut off the resource.               *)
BeforeQuery(resource) ==
  LET marks == {i \in DOMAIN resource : resource[i] = QMark}
  IN IF marks = {} THEN resource ELSE SubSeq(resource, 1, (CHOOSE i \in marks : \A j \in marks : i <= j) - 1)

ResourceMatches(resource, host, path) ==
  LET pattern == BeforeQuery(resource)
  IN \/ resource \in {<<>>, <<Star>>}
     \/ SchemeSep \notin ToSet(pattern) /\ MatchGlob(pattern, path)
     \/ SchemeSep \in ToSet(pattern) /\ \E scheme \in {Https, Http} : MatchGlob(pattern, <<scheme, SchemeSep>> \o host \o path)

VerifyCustom(r, rsa, c, now, root, host) ==
  LET doc == c.policy
  IN /\ doc # Malformed
     /\ VerifyRSA(rsa, doc, c.signature)
     /\ doc.lessThan > 0 => now < doc.lessThan
     /\ doc.greaterThan > 0 => now > doc.greaterThan
     /\ doc.ip # None => CheckIP(doc.ip, r.remote)
     /\ ResourceMatches(doc.resource, host, ApplyDefaultRootObject(r.path, root))

Verify(r, trusted, now, root, publicHost) ==
  LET c == ExtractCredentials(r)
      rsa == FindKey(trusted, c.keyPairID)
      host == ResourceHost(r, publicHost)
  IN /\ CredentialsComplete(c)
     /\ rsa # None
     /\ c.signature # Malformed
     /\ IF c.policy # None THEN VerifyCustom(r, rsa, c, now, root, host)
        ELSE VerifyCanned(r, rsa, c, now, root, host)
=============================================================================
