---------------------------- MODULE AdmissionProofs ----------------------------
(***************************************************************************)
(* Proofs about who serves a request and who is let in, for any            *)
(* configurations, requests and swaps.                                     *)
(***************************************************************************)
EXTENDS Admission, WildcardProofs

(* The distribution and the behavior are what the snapshot says.           *)
Routed ==
  IF Match(snap, request.host) = None
  THEN dist = None /\ stage = "refused" /\ checkedAt = None
  ELSE /\ Match(snap, request.host) \in DOMAIN snap.dists
       /\ dist = snap.dists[Match(snap, request.host)]
       /\ beh = Select(dist, request.path)

(* The decision at the last stage, of the snapshot and not of what is      *)
(* served by now.                                                          *)
Decided ==
  /\ checkedAt \in 0 .. MaxTime
  /\ stage \in {"admitted", "refused"}
  /\ stage = "admitted" <=>
       beh.keyGroups = <<>> \/ Verify(request, TrustedKeys(snap, beh), checkedAt, dist.root, publicHost)

AdmissionInv ==
  /\ now \in 0 .. MaxTime /\ swaps \in 0 .. MaxSwaps /\ publicHost \in PublicHosts
  /\ config \in Configs /\ visit \in Visits
  /\ stage \in {"new", "routed", "verify", "admitted", "refused"}
  /\ snap = None => stage = "new" /\ dist = None
  /\ stage = "new" => snap = None
  /\ snap # None => snap \in Configs /\ Routed
  /\ stage \in {"new", "routed", "verify"} => checkedAt = None
  /\ stage = "admitted" => checkedAt # None
  /\ checkedAt # None => Decided

-----------------------------------------------------------------------------
(* Routing.                                                                *)

LEMMA MinIsFirst ==
  ASSUME NEW S, S \subseteq Nat, S # {}
  PROVE  Min(S) \in S /\ \A n \in S : Min(S) <= n
<1>1. \E m \in S : \A n \in S : m <= n
  BY SmallestOf
<1> QED BY <1>1 DEF Min

LEMMA MaxIsLast ==
  ASSUME NEW bound \in Nat, NEW S, S \subseteq 0 .. bound, S # {}
  PROVE  Max(S) \in S /\ \A n \in S : Max(S) >= n
<1>1. \E m \in S : \A n \in S : n <= m
  BY LargestOf
<1>2. \E m \in S : \A n \in S : m >= n
  <2>1. \A m, n \in S : n <= m => m >= n
    OBVIOUS
  <2> QED BY <1>1, <2>1
<1> QED BY <1>2 DEF Max

(* The distribution that Match names declares the host, by name if any     *)
(* enabled one does.                                                       *)
LEMMA MatchDeclares ==
  ASSUME NEW cfg \in Configs, NEW host
  PROVE  /\ ExactMatch(cfg, host) # {} => Match(cfg, host) \in ExactMatch(cfg, host)
         /\ ExactMatch(cfg, host) = {} /\ WildcardMatch(cfg, host) # {} => Match(cfg, host) \in WildcardMatch(cfg, host)
         /\ ExactMatch(cfg, host) = {} /\ WildcardMatch(cfg, host) = {} => Match(cfg, host) = None
<1>1. DOMAIN cfg.dists = 1 .. Len(cfg.dists) /\ Len(cfg.dists) \in Nat
  BY ConfigAssumption DEF IsSeq
<1>2. ExactMatch(cfg, host) \subseteq 0 .. Len(cfg.dists) /\ WildcardMatch(cfg, host) \subseteq Nat
  BY <1>1 DEF ExactMatch, WildcardMatch, Enabled
<1> QED BY <1>1, <1>2, MinIsFirst, MaxIsLast DEF Match
(* An index Match names is one of a distribution; it is never None.        *)
LEMMA MatchIsIndex ==
  ASSUME NEW cfg \in Configs, NEW host
  PROVE  Match(cfg, host) # None => Match(cfg, host) \in DOMAIN cfg.dists
BY MatchDeclares DEF ExactMatch, WildcardMatch, Enabled

LEMMA IndexIsNotNone ==
  ASSUME NEW cfg \in Configs PROVE None \notin DOMAIN cfg.dists
BY ConfigAssumption, NoneAssumption DEF IsSeq

(* What the two ways of declaring a host are.                              *)
DeclaresByName(d, host) ==
  d.enabled /\ (host = d.domain \/ \E al \in ToSet(d.aliases) : ~al.wild /\ al.labels = host)

DeclaresByWildcard(d, host) ==
  d.enabled /\ \E al \in ToSet(d.aliases), l \in ToSet(host) : al.wild /\ host = <<l>> \o al.labels

LEMMA ExactIsByName ==
  ASSUME NEW cfg \in Configs, NEW host, NEW d \in DOMAIN cfg.dists
  PROVE  d \in ExactMatch(cfg, host) <=> DeclaresByName(cfg.dists[d], host)
<1> DEFINE dd == cfg.dists[d]
<1>1. \A i \in DOMAIN dd.aliases : IsAlias(dd.aliases[i])
  BY ConfigAssumption DEF IsDistribution
<1>2. \A i \in DOMAIN dd.aliases :
        dd.aliases[i] = [wild |-> FALSE, labels |-> host] <=> ~dd.aliases[i].wild /\ dd.aliases[i].labels = host
  <2> TAKE i \in DOMAIN dd.aliases
  <2> DEFINE al == dd.aliases[i]
  <2> HIDE DEF dd
  <2>1. al = [wild |-> al.wild, labels |-> al.labels] /\ al.wild \in BOOLEAN
    BY <1>1 DEF IsAlias
  <2> HIDE DEF al
  <2>2. al = [wild |-> FALSE, labels |-> host] => ~al.wild /\ al.labels = host
    OBVIOUS
  <2>3. ~al.wild /\ al.labels = host => al = [wild |-> FALSE, labels |-> host]
    BY <2>1
  <2>4. al = [wild |-> FALSE, labels |-> host] <=> ~al.wild /\ al.labels = host
    BY <2>2, <2>3
  <2> QED BY <2>4 DEF al
<1>3. Names(dd, host) <=> (host = dd.domain \/ \E al \in ToSet(dd.aliases) : ~al.wild /\ al.labels = host)
  <2> HIDE DEF dd
  <2> QED BY <1>2 DEF Names, ToSet
<1> QED BY <1>3 DEF ExactMatch, Enabled, DeclaresByName

LEMMA WildcardIsByWildcard ==
  ASSUME NEW cfg \in Configs, NEW host, IsSeq(host), NEW d \in DOMAIN cfg.dists
  PROVE  d \in WildcardMatch(cfg, host) <=> DeclaresByWildcard(cfg.dists[d], host)
<1> DEFINE dd == cfg.dists[d]
<1>1. \A i \in DOMAIN dd.aliases : IsAlias(dd.aliases[i])
  BY ConfigAssumption DEF IsDistribution
<1>2. ASSUME NEW al, IsAlias(al)
      PROVE  WildcardCovers(al, host) <=> \E l \in ToSet(host) : al.wild /\ host = <<l>> \o al.labels
  <2> DEFINE labels == al.labels
  <2>1. labels \in Seq(ToSet(labels)) /\ host \in Seq(ToSet(host)) /\ al.wild \in BOOLEAN
    BY <1>2 DEF IsAlias, IsSeq
  <2>2. ASSUME Len(host) = Len(labels) + 1, Tail(host) = labels
        PROVE  host[1] \in ToSet(host) /\ host = <<host[1]>> \o labels
    <3>1. Len(labels) \in Nat /\ Len(host) \in Nat /\ 1 \in DOMAIN host
      BY <2>1, <2>2
    <3>2. host[1] \in ToSet(host)
      BY <3>1 DEF ToSet
    <3> HIDE DEF labels
    <3>3. \A i \in 1 .. Len(labels) : labels[i] = host[i + 1]
      <4>1. host # <<>>
        BY <3>1
      <4>2. \A i \in 1 .. Len(Tail(host)) : Tail(host)[i] = host[i + 1]
        BY <2>1, <4>1
      <4> QED BY <2>2, <4>2
    <3>4. Len(<<host[1]>> \o labels) = Len(host)
      BY <2>1, <2>2, <3>1
    <3>5. \A i \in 1 .. Len(host) : (<<host[1]>> \o labels)[i] = host[i]
      <4> TAKE i \in 1 .. Len(host)
      <4>1. CASE i = 1
        BY <2>1, <4>1
      <4>2. CASE i # 1
        <5>1. i - 1 \in 1 .. Len(labels)
          BY <2>1, <2>2, <3>1, <4>2
        <5>2. (<<host[1]>> \o labels)[i] = labels[i - 1]
          BY <2>1, <5>1
        <5> QED BY <3>3, <5>1, <5>2
      <4> QED BY <4>1, <4>2
    <3>6. <<host[1]>> \o labels \in Seq(ToSet(host) \cup ToSet(labels)) /\ host \in Seq(ToSet(host) \cup ToSet(labels))
      BY <2>1, <3>2
    <3> QED BY <3>2, <3>4, <3>5, <3>6
  <2>3. ASSUME NEW l \in ToSet(host), host = <<l>> \o labels
        PROVE  Len(host) = Len(labels) + 1 /\ Tail(host) = labels
    <3> HIDE DEF labels
    <3> QED BY <2>1, <2>3
  <2> QED BY <2>2, <2>3 DEF WildcardCovers
<1>3. (\E i \in DOMAIN dd.aliases : WildcardCovers(dd.aliases[i], host))
        <=> \E al \in ToSet(dd.aliases), l \in ToSet(host) : al.wild /\ host = <<l>> \o al.labels
  <2> HIDE DEF dd
  <2> QED BY <1>1, <1>2 DEF ToSet
<1> QED BY <1>3 DEF WildcardMatch, Enabled, DeclaresByWildcard

(* Select names the first behavior that matches.                           *)
LEMMA SelectIsFirst ==
  ASSUME NEW d, IsDistribution(d), NEW path
  PROVE  LET hits == {i \in DOMAIN d.behaviors : MatchPath(d.behaviors[i].pattern, path)}
         IN IF hits = {} THEN Select(d, path) = d.default
            ELSE \E i \in hits : Select(d, path) = d.behaviors[i] /\ \A j \in hits : i <= j
<1> DEFINE hits == {i \in DOMAIN d.behaviors : MatchPath(d.behaviors[i].pattern, path)}
<1>1. hits \subseteq Nat
  BY DEF IsDistribution, IsSeq
<1>2. Select(d, path) = IF hits = {} THEN d.default ELSE d.behaviors[Min(hits)]
  BY DEF Select
<1> HIDE DEF hits
<1>3. hits # {} => Min(hits) \in hits /\ \A j \in hits : Min(hits) <= j
  BY <1>1, MinIsFirst
<1>4. IF hits = {} THEN Select(d, path) = d.default
      ELSE \E i \in hits : Select(d, path) = d.behaviors[i] /\ \A j \in hits : i <= j
  BY <1>2, <1>3
<1> QED BY <1>4 DEF hits

-----------------------------------------------------------------------------
(* The invariant.                                                          *)

LEMMA InitAdmission == Init => AdmissionInv
<1> SUFFICES ASSUME Init PROVE AdmissionInv
  OBVIOUS
<1>1. 0 \in 0 .. MaxTime /\ 0 \in 0 .. MaxSwaps
  BY BoundAssumption
<1> QED BY <1>1 DEF Init, AdmissionInv

LEMMA NextAdmission == AdmissionInv /\ [Next]_vars => AdmissionInv'
<1> SUFFICES ASSUME AdmissionInv, [Next]_vars PROVE AdmissionInv'
  OBVIOUS
<1> USE DEF request, serverVars
<1>1. CASE Route
  <2> DEFINE d == Match(config, request.host)
  <2>1. config \in Configs /\ config # None
    BY ConfigAssumption DEF AdmissionInv
  <2>2. checkedAt = None /\ dist = None /\ snap' = config /\ checkedAt' = None
    BY <1>1 DEF Route, AdmissionInv
  <2>3. now' = now /\ swaps' = swaps /\ publicHost' = publicHost /\ config' = config /\ visit' = visit
    BY <1>1 DEF Route
  <2>4. CASE d = None
    <3>1. stage' = "refused" /\ dist' = dist
      BY <1>1, <2>4 DEF Route
    <3>2. Routed'
      BY <2>2, <2>3, <2>4, <3>1 DEF Routed
    <3> QED BY <2>1, <2>2, <2>3, <3>1, <3>2 DEF AdmissionInv
  <2>5. CASE d # None
    <3>1. stage' = "routed" /\ dist' = config.dists[d] /\ beh' = Select(dist', request.path)
      BY <1>1, <2>5 DEF Route
    <3>2. d \in DOMAIN config.dists
      BY <2>1, <2>5, MatchIsIndex
    <3>3. Routed'
      BY <2>2, <2>3, <2>5, <3>1, <3>2 DEF Routed
    <3> QED BY <2>1, <2>2, <2>3, <3>1, <3>3 DEF AdmissionInv
  <2> QED BY <2>4, <2>5
<1>2. CASE CheckMethod
  <2>1. /\ stage = "routed" /\ stage' \in {"verify", "refused"}
        /\ UNCHANGED <<now, config, swaps, publicHost, visit, snap, dist, beh, checkedAt>>
    BY <1>2 DEF CheckMethod
  <2>2. snap # None /\ checkedAt = None /\ Routed
    BY <2>1 DEF AdmissionInv
  <2>3. Routed'
    BY <2>1, <2>2 DEF Routed
  <2> QED BY <2>1, <2>2, <2>3 DEF AdmissionInv
<1>3. CASE CheckSignature
  <2>1. /\ stage = "verify" /\ stage' \in {"admitted", "refused"} /\ checkedAt' = now
        /\ UNCHANGED <<now, config, swaps, publicHost, visit, snap, dist, beh>>
        /\ stage' = "admitted" <=>
             beh.keyGroups = <<>> \/ Verify(request, TrustedKeys(snap, beh), now, dist.root, publicHost)
    BY <1>3 DEF CheckSignature
  <2>2. snap # None /\ Routed /\ now \in 0 .. MaxTime
    BY <2>1 DEF AdmissionInv
  <2>3. checkedAt' \in 0 .. MaxTime /\ checkedAt' # None
    BY <2>1, <2>2, NoneAssumption
  <2>4. Routed'
    BY <2>1, <2>2 DEF Routed
  <2>5. Decided'
    BY <2>1, <2>3 DEF Decided
  <2> QED BY <2>1, <2>2, <2>3, <2>4, <2>5 DEF AdmissionInv
<1>4. CASE Swap
  <2>1. UNCHANGED <<now, publicHost, visit, stage, snap, dist, beh, checkedAt>> /\ config' \in Configs
    BY <1>4 DEF Swap
  <2>2. swaps' \in 0 .. MaxSwaps
    BY <1>4, BoundAssumption DEF Swap, AdmissionInv
  <2> QED BY <2>1, <2>2 DEF AdmissionInv, Routed, Decided
<1>5. CASE Tick
  <2>1. UNCHANGED <<config, swaps, publicHost, visit, stage, snap, dist, beh, checkedAt>>
    BY <1>5 DEF Tick
  <2>2. now' \in 0 .. MaxTime
    BY <1>5, BoundAssumption DEF Tick, AdmissionInv
  <2> QED BY <2>1, <2>2 DEF AdmissionInv, Routed, Decided
<1>6. CASE UNCHANGED vars
  BY <1>6 DEF vars, AdmissionInv, Routed, Decided
<1> QED BY <1>1, <1>2, <1>3, <1>4, <1>5, <1>6 DEF Next

(* The invariant holds of every run.                                       *)
THEOREM AdmissionInvariant == Spec => []AdmissionInv
BY InitAdmission, NextAdmission, PTL DEF Spec

(* The types of the variables, and that a request is served by a           *)
(* distribution and a behavior of its own snapshot.                        *)
THEOREM AdmissionTypes == Spec => []TypeOK
<1>1. AdmissionInv => TypeOK
  <2> SUFFICES ASSUME AdmissionInv PROVE TypeOK
    OBVIOUS
  <2>1. checkedAt \in (0 .. MaxTime) \cup {None}
    BY DEF AdmissionInv, Decided
  <2>2. ASSUME stage \in {"routed", "verify", "admitted"}
        PROVE  dist \in ToSet(snap.dists) /\ beh \in ToSet(dist.behaviors) \cup {dist.default}
    <3>1. snap \in Configs /\ Routed
      BY <2>2 DEF AdmissionInv
    <3>2. PICK d \in DOMAIN snap.dists : dist = snap.dists[d] /\ beh = Select(dist, request.path)
      BY <2>2, <3>1 DEF Routed
    <3>3. IsDistribution(dist)
      BY <3>1, <3>2, ConfigAssumption
    <3>4. beh \in ToSet(dist.behaviors) \cup {dist.default}
      BY <3>2, <3>3, SelectIsFirst DEF ToSet
    <3> QED BY <3>2, <3>4 DEF ToSet
  <2> QED BY <2>1, <2>2 DEF AdmissionInv, TypeOK
<1> QED BY <1>1, AdmissionInvariant, PTL

(* A host is served by an enabled distribution that declares it, by name   *)
(* if any does, whichever configuration the request was routed in.         *)
THEOREM OwnersServe == Spec => []HostIsServedByOwner
<1>1. AdmissionInv => HostIsServedByOwner
  <2> DEFINE host == request.host
             owners == {d \in ToSet(snap.dists) : DeclaresByName(d, host)}
             wild == {d \in ToSet(snap.dists) : DeclaresByWildcard(d, host)}
  <2> SUFFICES ASSUME AdmissionInv, snap # None
               PROVE  IF owners # {} THEN dist \in owners ELSE IF wild # {} THEN dist \in wild ELSE dist = None
    BY DEF HostIsServedByOwner, DeclaresByName, DeclaresByWildcard
  <2>1. snap \in Configs /\ Routed /\ visit \in Visits
    BY DEF AdmissionInv
  <2>2. IsSeq(host)
    BY <2>1, RequestAssumption DEF request
  <2>3. \A d \in DOMAIN snap.dists : (d \in ExactMatch(snap, host) <=> snap.dists[d] \in owners)
                                     /\ (d \in WildcardMatch(snap, host) <=> snap.dists[d] \in wild)
    BY <2>1, <2>2, ExactIsByName, WildcardIsByWildcard DEF ToSet
  <2>4. ExactMatch(snap, host) \subseteq DOMAIN snap.dists /\ WildcardMatch(snap, host) \subseteq DOMAIN snap.dists
    BY DEF ExactMatch, WildcardMatch, Enabled
  <2>5. (owners = {} <=> ExactMatch(snap, host) = {}) /\ (wild = {} <=> WildcardMatch(snap, host) = {})
    BY <2>3, <2>4 DEF ToSet
  <2>6. Match(snap, host) # None => Match(snap, host) \in DOMAIN snap.dists /\ dist = snap.dists[Match(snap, host)]
    BY <2>1, MatchIsIndex DEF Routed
  <2>7. Match(snap, host) = None => dist = None
    BY <2>1 DEF Routed
  <2>8. None \notin DOMAIN snap.dists
    BY <2>1, IndexIsNotNone
  <2> HIDE DEF host, owners, wild
  <2> QED BY <2>1, <2>3, <2>4, <2>5, <2>6, <2>7, <2>8, MatchDeclares
<1> QED BY <1>1, AdmissionInvariant, PTL

(* A behavior's pattern matches a path when it covers it, if the path has  *)
(* no '*' of its own.                                                      *)
LEMMA PathMatches ==
  ASSUME NEW pat, IsSeq(pat), NEW path, IsSeq(path), NoStarIn(path)
  PROVE  MatchPath(pat, path) <=> Matches(TrimSlash(pat), TrimSlash(path))
<1>1. Len(TrimSlash(pat)) \in Nat /\ Len(TrimSlash(path)) \in Nat
  BY DEF IsSeq, TrimSlash
<1>2. NoStarIn(TrimSlash(path))
  <2>1. path \in Seq(ToSet(path))
    BY DEF IsSeq
  <2>2. CASE path # <<>> /\ Head(path) = Slash
    <3>1. \A i \in 1 .. Len(Tail(path)) : i + 1 \in 1 .. Len(path) /\ Tail(path)[i] = path[i + 1]
      BY <2>1, <2>2
    <3> QED BY <2>2, <3>1 DEF NoStarIn, TrimSlash
  <2>3. CASE ~(path # <<>> /\ Head(path) = Slash)
    BY <2>3 DEF TrimSlash
  <2> QED BY <2>2, <2>3
<1> QED BY <1>1, <1>2, MatchGlobIsSound, MatchGlobIsComplete DEF MatchPath

(* The behavior in force is the first in template order whose pattern      *)
(* covers the path, for paths without a '*' of their own.                  *)
THEOREM FirstMatchIsServed ==
  ASSUME \A v \in Visits : NoStarIn(v.request.path)
  PROVE  Spec => []FirstMatchServes
<1>1. AdmissionInv => FirstMatchServes
  <2> SUFFICES ASSUME AdmissionInv, dist # None PROVE FirstMatchServes
    BY DEF FirstMatchServes
  <2>1. snap \in Configs /\ Routed /\ visit \in Visits
    BY DEF AdmissionInv
  <2>2. PICK d \in DOMAIN snap.dists : dist = snap.dists[d] /\ beh = Select(dist, request.path)
    BY <2>1 DEF Routed
  <2>3. IsDistribution(dist)
    BY <2>1, <2>2, ConfigAssumption
  <2>4. IsSeq(request.path) /\ NoStarIn(request.path)
    BY <2>1, RequestAssumption DEF request
  <2>5. \A i \in DOMAIN dist.behaviors :
          MatchPath(dist.behaviors[i].pattern, request.path)
            <=> Matches(TrimSlash(dist.behaviors[i].pattern), TrimSlash(request.path))
    BY <2>3, <2>4, PathMatches DEF IsDistribution
  <2>6. {i \in DOMAIN dist.behaviors : MatchPath(dist.behaviors[i].pattern, request.path)}
          = {i \in DOMAIN dist.behaviors : Matches(TrimSlash(dist.behaviors[i].pattern), TrimSlash(request.path))}
    BY <2>5
  <2> QED BY <2>2, <2>3, <2>6, SelectIsFirst DEF FirstMatchServes
<1> QED BY <1>1, AdmissionInvariant, PTL

-----------------------------------------------------------------------------
(* The query string.                                                       *)

LEMMA GetOnly ==
  ASSUME NEW query, IsSeq(query), NEW name, NEW i \in DOMAIN query, query[i].name = name,
         \A j \in DOMAIN query : query[j].name = name => j = i
  PROVE  Get(query, name) = query[i].value
<1> DEFINE I == {j \in 1 .. Len(query) : query[j].name = name}
<1>1. DOMAIN query = 1 .. Len(query) /\ Len(query) \in Nat
  BY DEF IsSeq
<1>2. I = {i}
  BY <1>1
<1>3. i \in Nat
  BY <1>1
<1>4. Min(I) = i
  BY <1>2, <1>3, MinIsFirst
<1>5. SelectInSeq(query, LAMBDA param : param.name = name) = IF I # {} THEN Min(I) ELSE 0
  BY DEF SelectInSeq
<1> HIDE DEF I
<1> QED BY <1>2, <1>4, <1>5 DEF Get

LEMMA GetNone ==
  ASSUME NEW query, NEW name, \A j \in DOMAIN query : query[j].name # name
  PROVE  Get(query, name) = None
BY DEF Get

(* ResourceQuery, unfolded.                                                *)
Kept(query, k, f) ==
  f = [i \in 0 .. k |->
         IF i = 0 THEN <<>>
         ELSE IF Stripped(query[i]) THEN f[i - 1]
         ELSE Append(f[i - 1], query[i])]

LEMMA KeptExists ==
  ASSUME NEW query, NEW n \in Nat PROVE \E f : Kept(query, n, f)
<1> DEFINE missing == {k \in Nat : ~\E f : Kept(query, k, f)}
<1> SUFFICES ASSUME missing # {} PROVE FALSE
  OBVIOUS
<1>1. PICK m \in missing : \A k \in missing : m <= k
  <2> HIDE DEF missing
  <2>1. missing \subseteq Nat
    BY DEF missing
  <2> QED BY <2>1, SmallestOf
<1>2. CASE m = 0
  <2> DEFINE f == [i \in 0 .. 0 |-> <<>>]
  <2>1. Kept(query, 0, f)
    BY DEF Kept
  <2> QED BY <1>1, <1>2, <2>1
<1>3. CASE m # 0
  <2>1. m - 1 \in Nat /\ m - 1 \notin missing
    BY <1>1, <1>3
  <2>2. PICK f : Kept(query, m - 1, f)
    BY <2>1
  <2> DEFINE step(g, i) == IF Stripped(query[i]) THEN g[i - 1] ELSE Append(g[i - 1], query[i])
             h == [i \in 0 .. m |-> IF i < m THEN f[i] ELSE step(f, m)]
             hh == [i \in 0 .. m |-> IF i = 0 THEN <<>>
                                     ELSE IF Stripped(query[i]) THEN h[i - 1]
                                     ELSE Append(h[i - 1], query[i])]
  <2>3. \A i \in 0 .. m : h[i] = hh[i]
    <3> TAKE i \in 0 .. m
    <3>1. CASE i < m
      <4>1. i \in 0 .. m - 1 /\ h[i] = f[i]
        BY <3>1, <2>1
      <4>2. i # 0 => i - 1 \in 0 .. m /\ h[i - 1] = f[i - 1]
        BY <3>1, <2>1
      <4>3. f[i] = IF i = 0 THEN <<>> ELSE step(f, i)
        BY <2>2, <4>1 DEF Kept
      <4>4. hh[i] = IF i = 0 THEN <<>> ELSE step(h, i)
        OBVIOUS
      <4> HIDE DEF h, hh
      <4> QED BY <4>1, <4>2, <4>3, <4>4
    <3>2. CASE i = m
      <4>1. m - 1 \in 0 .. m /\ m - 1 < m /\ m \in 0 .. m
        BY <2>1, <1>3
      <4>2. h[m - 1] = f[m - 1] /\ h[m] = step(f, m)
        BY <4>1, <2>1
      <4>3. hh[m] = step(h, m)
        BY <1>3, <4>1
      <4> HIDE DEF h, hh
      <4> QED BY <3>2, <4>2, <4>3
    <3> QED BY <3>1, <3>2, <1>1
  <2>4. h = hh
    <3>1. h = [i \in 0 .. m |-> h[i]] /\ hh = [i \in 0 .. m |-> hh[i]]
      OBVIOUS
    <3> HIDE DEF h, hh
    <3> QED BY <2>3, <3>1
  <2>5. Kept(query, m, h)
    BY <2>4 DEF Kept
  <2> HIDE DEF h
  <2> QED BY <1>1, <2>5
<1> QED BY <1>2, <1>3

LEMMA ResourceQueryUnfolds ==
  ASSUME NEW query, IsSeq(query)
  PROVE  \E f : Kept(query, Len(query), f) /\ ResourceQuery(query) = f[Len(query)]
<1>1. Len(query) \in Nat
  BY DEF IsSeq
<1> DEFINE kept == CHOOSE f : Kept(query, Len(query), f)
<1>2. Kept(query, Len(query), kept)
  BY <1>1, KeptExists
<1>3. ResourceQuery(query) = kept[Len(query)]
  BY DEF ResourceQuery, Kept
<1> HIDE DEF kept
<1> QED BY <1>2, <1>3

(* What a signer appends is taken away again, and nothing else, if the     *)
(* query has no empty parameter.                                           *)
LEMMA ResourceQueryRestores ==
  ASSUME NEW query, IsSeq(query), NEW ext, IsSeq(ext),
         \A i \in DOMAIN query : ~Stripped(query[i]),
         \A i \in DOMAIN ext : Stripped(ext[i])
  PROVE  ResourceQuery(query \o ext) = query
<1> DEFINE all == query \o ext
           n == Len(query)
           kept(i) == IF i <= n THEN SubSeq(query, 1, i) ELSE query
<1>1. /\ query \in Seq(ToSet(query)) /\ ext \in Seq(ToSet(ext)) /\ n \in Nat /\ Len(ext) \in Nat
      /\ DOMAIN query = 1 .. n /\ DOMAIN ext = 1 .. Len(ext)
  BY DEF IsSeq
<1>2. /\ Len(all) = n + Len(ext)
      /\ \A i \in 1 .. n : all[i] = query[i]
      /\ \A i \in n + 1 .. Len(all) : i - n \in 1 .. Len(ext) /\ all[i] = ext[i - n]
  BY <1>1
<1>3. IsSeq(all)
  <2>1. all \in Seq(ToSet(query) \cup ToSet(ext)) 
    BY <1>1
  <2> HIDE DEF all
  <2>2. \A i \in 1 .. Len(all) : all[i] \in ToSet(all)
    BY <2>1 DEF ToSet
  <2> QED BY <2>1, <2>2 DEF IsSeq
<1>4. PICK f : Kept(all, Len(all), f) /\ ResourceQuery(all) = f[Len(all)]
  BY <1>3, ResourceQueryUnfolds
<1>5. /\ f[0] = <<>>
      /\ \A i \in 1 .. Len(all) :
           f[i] = IF Stripped(all[i]) THEN f[i - 1] ELSE Append(f[i - 1], all[i])
  <2>1. Len(all) \in Nat
    BY <1>1, <1>2
  <2>2. 0 \in 0 .. Len(all) /\ \A i \in 1 .. Len(all) : i \in 0 .. Len(all) /\ i # 0
    BY <2>1
  <2> HIDE DEF all
  <2> QED BY <1>4, <2>2 DEF Kept
<1>6. ASSUME NEW i \in Nat, i >= n PROVE kept(i) = query
  <2>1. CASE i = n
    <3>1. kept(i) = SubSeq(query, 1, n)
      BY <2>1, <1>1
    <3>2. SubSeq(query, 1, n) = query
      BY <1>1
    <3> QED BY <3>1, <3>2
  <2>2. CASE i # n
    <3>1. n \in Nat /\ i \in Nat /\ i >= n
      BY <1>1, <1>6
    <3>2. ~(i <= n)
      <4> HIDE DEF n
      <4> QED BY <2>2, <3>1
    <3> QED BY <3>2
  <2> QED BY <2>1, <2>2
<1>7. \A i \in 0 .. Len(all) : f[i] = kept(i)
  <2> DEFINE wrong == {i \in 0 .. Len(all) : f[i] # kept(i)}
  <2> SUFFICES ASSUME wrong # {} PROVE FALSE
    OBVIOUS
  <2>0. wrong \subseteq Nat
    OBVIOUS
  <2>1. PICK m \in wrong : \A k \in wrong : m <= k
    <3> HIDE DEF wrong
    <3> QED BY <2>0, SmallestOf
  <2>2. m # 0
    <3>1. kept(0) = <<>>
      BY <1>1
    <3> QED BY <1>5, <2>1, <3>1
  <2>3. m \in 1 .. Len(all) /\ m - 1 \in 0 .. Len(all)
    BY <2>1, <2>2
  <2>4. f[m - 1] = kept(m - 1)
    BY <2>1, <2>3
  <2>5. CASE m <= n
    <3>1. all[m] = query[m] /\ ~Stripped(query[m]) /\ m \in 1 .. n
      BY <1>1, <1>2, <2>3, <2>5
    <3>2. f[m] = Append(f[m - 1], query[m])
      <4> HIDE DEF all, kept
      <4> QED BY <1>5, <2>3, <3>1
    <3>3. kept(m - 1) = SubSeq(query, 1, m - 1) /\ kept(m) = SubSeq(query, 1, m)
      BY <2>3, <2>5, <3>1
    <3>4. Append(SubSeq(query, 1, m - 1), query[m]) = SubSeq(query, 1, m)
      BY <1>1, <3>1
    <3> HIDE DEF kept, all
    <3> QED BY <2>1, <2>4, <3>2, <3>3, <3>4
  <2>6. CASE m > n
    <3>1. m \in n + 1 .. Len(all)
      BY <2>3, <2>6, <1>1
    <3>2. Stripped(all[m])
      BY <1>1, <1>2, <3>1
    <3>3. f[m] = f[m - 1]
      <4> HIDE DEF all, kept
      <4> QED BY <1>5, <2>3, <3>2
    <3>4. kept(m - 1) = query /\ kept(m) = query
      <4>1. m \in Nat /\ m - 1 \in Nat /\ m >= n /\ m - 1 >= n
        BY <1>1, <2>3, <2>6
      <4> HIDE DEF kept
      <4> QED BY <1>6, <4>1
    <3> HIDE DEF kept, all
    <3> QED BY <2>1, <2>4, <3>3, <3>4
  <2> QED BY <2>3, <2>5, <2>6, <1>1
<1>8. kept(Len(all)) = query
  <2>1. Len(all) \in Nat /\ Len(all) >= n
    BY <1>1, <1>2
  <2> HIDE DEF kept, all
  <2> QED BY <1>6, <2>1
<1>9. Len(all) \in 0 .. Len(all)
  BY <1>1, <1>2
<1> HIDE DEF kept, all
<1> QED BY <1>4, <1>7, <1>8, <1>9 DEF all

(* Whatever a query is, what is left are its own parameters.               *)
LEMMA ResourceQueryKeepsOwn ==
  ASSUME NEW query, IsSeq(query)
  PROVE  /\ ResourceQuery(query) \in Seq(ToSet(query))
         /\ ToSet(ResourceQuery(query)) = {param \in ToSet(query) : ~Stripped(param)}
<1> DEFINE n == Len(query)
           own(i) == {query[j] : j \in {k \in 1 .. i : ~Stripped(query[k])}}
<1>1. query \in Seq(ToSet(query)) /\ n \in Nat /\ DOMAIN query = 1 .. n
  BY DEF IsSeq
<1>2. PICK f : Kept(query, n, f) /\ ResourceQuery(query) = f[n]
  BY ResourceQueryUnfolds
<1>3. f[0] = <<>> /\ \A i \in 1 .. n : f[i] = IF Stripped(query[i]) THEN f[i - 1] ELSE Append(f[i - 1], query[i])
  <2>1. 0 \in 0 .. n /\ \A i \in 1 .. n : i \in 0 .. n /\ i # 0
    BY <1>1
  <2> HIDE DEF n
  <2> QED BY <1>2, <2>1 DEF Kept
<1> DEFINE Right(i) == f[i] \in Seq(ToSet(query)) /\ ToSet(f[i]) = own(i)
<1>4. \A i \in 0 .. n : Right(i)
  <2> DEFINE wrong == {i \in 0 .. n : ~Right(i)}
  <2> SUFFICES ASSUME wrong # {} PROVE FALSE
    OBVIOUS
  <2>1. wrong \subseteq Nat
    OBVIOUS
  <2>2. PICK m \in wrong : \A k \in wrong : m <= k
    <3> HIDE DEF wrong
    <3> QED BY <2>1, SmallestOf
  <2>3. m # 0
    <3>1. own(0) = {}
      OBVIOUS
    <3>2. <<>> \in Seq(ToSet(query)) /\ ToSet(<<>>) = {}
      BY DEF ToSet
    <3>3. Right(0)
      <4> HIDE DEF own
      <4> QED BY <1>3, <3>1, <3>2
    <3> QED BY <2>2, <3>3
  <2>4. m \in 1 .. n /\ m - 1 \in 0 .. n
    BY <1>1, <2>2, <2>3
  <2>5. Right(m - 1)
    <3> HIDE DEF Right
    <3>1. m \in Nat /\ m - 1 \notin wrong
      <4>1. m \in Nat /\ ~(m <= m - 1)
        BY <2>4
      <4> HIDE DEF wrong
      <4> QED BY <2>2, <4>1
    <3> QED BY <2>4, <3>1
  <2>6. query[m] \in ToSet(query)
    BY <1>1, <2>4 DEF ToSet
  <2>7. own(m) = IF Stripped(query[m]) THEN own(m - 1) ELSE own(m - 1) \cup {query[m]}
    <3>1. \A k : k \in 1 .. m <=> k \in 1 .. (m - 1) \/ k = m
      BY <1>1, <2>4
    <3> QED BY <3>1
  <2>8. Right(m)
    <3>1. CASE Stripped(query[m])
      <4> HIDE DEF own
      <4> QED BY <1>3, <2>4, <2>5, <2>7, <3>1
    <3>2. CASE ~Stripped(query[m])
      <4>1. f[m] = Append(f[m - 1], query[m])
        BY <1>3, <2>4, <3>2
      <4>2. \A l \in Seq(ToSet(query)) : /\ Append(l, query[m]) \in Seq(ToSet(query))
                                        /\ ToSet(Append(l, query[m])) = ToSet(l) \cup {query[m]}
        <5> TAKE l \in Seq(ToSet(query))
        <5>1. Append(l, query[m]) \in Seq(ToSet(query))
          BY <2>6
        <5>2. /\ Len(l) \in Nat /\ Len(Append(l, query[m])) = Len(l) + 1
              /\ \A i \in 1 .. Len(l) : Append(l, query[m])[i] = l[i]
              /\ Append(l, query[m])[Len(l) + 1] = query[m]
          BY <2>6
        <5>3. \A i \in 1 .. Len(l) + 1 : i \in 1 .. Len(l) \/ i = Len(l) + 1
          BY <5>2
        <5>4. DOMAIN l = 1 .. Len(l) /\ DOMAIN Append(l, query[m]) = 1 .. Len(l) + 1
          BY <5>1, <5>2
        <5>5. 1 .. Len(l) \subseteq 1 .. Len(l) + 1 /\ Len(l) + 1 \in 1 .. Len(l) + 1
          BY <5>2
        <5> QED BY <5>1, <5>2, <5>3, <5>4, <5>5 DEF ToSet
      <4> HIDE DEF own
      <4> QED BY <2>5, <2>7, <3>2, <4>1, <4>2
    <3> QED BY <3>1, <3>2
  <2> HIDE DEF Right
  <2> QED BY <2>2, <2>8
<1>5. own(n) = {param \in ToSet(query) : ~Stripped(param)}
  BY <1>1 DEF ToSet
<1>6. Right(n)
  <2> HIDE DEF Right
  <2> QED BY <1>1, <1>4
<1> QED BY <1>2, <1>5, <1>6

-----------------------------------------------------------------------------
(* Credentials.                                                            *)

LEMMA ThreeMore ==
  ASSUME NEW q, IsSeq(q), NEW x, NEW y, NEW z
  PROVE  /\ (q \o <<x>>) \o <<y, z>> = q \o <<x, y, z>>
         /\ IsSeq(q \o <<x, y, z>>)
         /\ Len(q) \in Nat /\ DOMAIN (q \o <<x, y, z>>) = 1 .. Len(q) + 3
         /\ \A i \in 1 .. Len(q) : i \in DOMAIN q /\ (q \o <<x, y, z>>)[i] = q[i]
         /\ (q \o <<x, y, z>>)[Len(q) + 1] = x
         /\ (q \o <<x, y, z>>)[Len(q) + 2] = y
         /\ (q \o <<x, y, z>>)[Len(q) + 3] = z
<1> DEFINE S == ToSet(q) \cup {x, y, z}
           l == (q \o <<x>>) \o <<y, z>>
           r == q \o <<x, y, z>>
           n == Len(q)
<1>1. q \in Seq(S) /\ n \in Nat /\ DOMAIN q = 1 .. n
  BY DEF IsSeq
<1>2. <<x>> \in Seq(S) /\ <<y, z>> \in Seq(S) /\ <<x, y, z>> \in Seq(S)
  OBVIOUS
<1>3. q \o <<x>> \in Seq(S) /\ l \in Seq(S) /\ r \in Seq(S)
  <2> HIDE DEF S
  <2> QED BY <1>1, <1>2
<1>4. Len(l) = n + 3 /\ Len(r) = n + 3
  <2> HIDE DEF S
  <2> QED BY <1>1, <1>2, <1>3
<1>5. /\ \A i \in 1 .. n : l[i] = q[i] /\ r[i] = q[i]
      /\ l[n + 1] = x /\ l[n + 2] = y /\ l[n + 3] = z
      /\ r[n + 1] = x /\ r[n + 2] = y /\ r[n + 3] = z
  <2> HIDE DEF S
  <2>1. \A i \in 1 .. n : l[i] = q[i] /\ r[i] = q[i]
    BY <1>1, <1>2, <1>3
  <2>2. l[n + 1] = x /\ l[n + 2] = y /\ l[n + 3] = z
    BY <1>1, <1>2, <1>3
  <2>3. r[n + 1] = x /\ r[n + 2] = y /\ r[n + 3] = z
    BY <1>1, <1>2, <1>3
  <2> QED BY <2>1, <2>2, <2>3
<1>6. \A i \in 1 .. n + 3 : i \in 1 .. n \/ i = n + 1 \/ i = n + 2 \/ i = n + 3
  BY <1>1
<1>7. \A i \in 1 .. n + 3 : l[i] = r[i]
  <2> HIDE DEF l, r, n
  <2> QED BY <1>5, <1>6
<1>8. l = r
  <2> HIDE DEF l, r, S
  <2> QED BY <1>3, <1>4, <1>7
<1>9. IsSeq(r)
  <2>1. \A i \in 1 .. Len(r) : r[i] \in ToSet(r)
    BY <1>3 DEF ToSet
  <2> HIDE DEF r, S
  <2> QED BY <1>3, <2>1 DEF IsSeq
<1>10. DOMAIN r = 1 .. n + 3
  <2> HIDE DEF r, S
  <2> QED BY <1>3, <1>4
<1> HIDE DEF S, l, r, n
<1>11. l = r /\ IsSeq(r) /\ n \in Nat /\ DOMAIN r = 1 .. n + 3 /\ (\A i \in 1 .. n : i \in DOMAIN q /\ r[i] = q[i])
       /\ r[n + 1] = x /\ r[n + 2] = y /\ r[n + 3] = z
  BY <1>1, <1>5, <1>8, <1>9, <1>10
<1> QED BY <1>11 DEF l, r, n

(* What a link in the query says is read back from it; its URL's own query *)
(* says nothing.                                                           *)
LEMMA QueryIsReadBack ==
  ASSUME NEW link, IsLink(link)
  PROVE  LET sq == SignedQuery(link)
             c == Credentials(link)
         IN /\ Get(sq, "Key-Pair-Id") = c.keyPairID /\ Get(sq, "Signature") = c.signature
            /\ Get(sq, "Policy") = c.policy /\ Get(sq, "Expires") = c.expires
            /\ Blank \notin ToSet(link.url.query) => ResourceQuery(sq) = link.url.query
<1> DEFINE q == link.url.query
           c == Credentials(link)
           first == IF link.kind = "canned" THEN Param("Expires", c.expires) ELSE Param("Policy", c.policy)
           second == Param("Signature", c.signature)
           third == Param("Key-Pair-Id", c.keyPairID)
           n == Len(q)
           sq == q \o <<first, second, third>>
<1>1. IsSeq(q) /\ \A i \in DOMAIN q : q[i].name \notin SigningParams
  BY DEF IsLink
<1>2. SignedQuery(link) = (q \o <<first>>) \o <<second, third>>
  BY DEF SignedQuery
<1>3. first.name = (IF link.kind = "canned" THEN "Expires" ELSE "Policy")
      /\ first.value = (IF link.kind = "canned" THEN c.expires ELSE c.policy)
      /\ second = [name |-> "Signature", value |-> c.signature]
      /\ third = [name |-> "Key-Pair-Id", value |-> c.keyPairID]
  BY DEF Param
<1>4. /\ (link.kind # "canned" => c.expires = None)
      /\ (link.kind = "canned" => link.kind # "custom" /\ c.policy = None)
  BY DEF Credentials
<1> HIDE DEF q, c, first, second, third
<1>5. SignedQuery(link) = sq /\ IsSeq(sq)
  BY <1>1, <1>2, ThreeMore
<1>6. /\ n \in Nat /\ DOMAIN sq = 1 .. n + 3
      /\ \A i \in 1 .. n : i \in DOMAIN q /\ sq[i] = q[i]
      /\ sq[n + 1] = first /\ sq[n + 2] = second /\ sq[n + 3] = third
  BY <1>1, ThreeMore
<1>7. ASSUME Blank \notin ToSet(q) PROVE ResourceQuery(sq) = q
  <2> DEFINE ext == <<first, second, third>>
  <2>1. IsSeq(ext)
    BY DEF IsSeq, ToSet
  <2>2. \A i \in DOMAIN ext : Stripped(ext[i])
    <3>1. DOMAIN ext = 1 .. 3 /\ ext[1] = first /\ ext[2] = second /\ ext[3] = third
      OBVIOUS
    <3>2. Stripped(first) /\ Stripped(second) /\ Stripped(third)
      BY <1>3 DEF SigningParams, Stripped
    <3>3. \A i \in 1 .. 3 : i = 1 \/ i = 2 \/ i = 3
      OBVIOUS
    <3> HIDE DEF ext
    <3> QED BY <3>1, <3>2, <3>3
  <2>3. \A i \in DOMAIN q : ~Stripped(q[i])
    BY <1>1, <1>7 DEF Stripped, ToSet
  <2> HIDE DEF ext
  <2> QED BY <1>1, <2>1, <2>2, <2>3, ResourceQueryRestores DEF ext
<1> HIDE DEF sq
<1>8. \A i \in DOMAIN sq : sq[i].name \in SigningParams => i \in {n + 1, n + 2, n + 3}
  <2>1. \A i \in 1 .. n + 3 : i \in 1 .. n \/ i \in {n + 1, n + 2, n + 3}
    BY <1>6
  <2> QED BY <1>1, <1>6, <2>1
<1>9. n + 1 \in DOMAIN sq /\ n + 2 \in DOMAIN sq /\ n + 3 \in DOMAIN sq
  BY <1>6
<1>10. Get(sq, "Key-Pair-Id") = c.keyPairID
  <2>1. \A j \in DOMAIN sq : sq[j].name = "Key-Pair-Id" => j = n + 3
    BY <1>3, <1>6, <1>8 DEF SigningParams
  <2> QED BY <1>3, <1>5, <1>6, <1>9, <2>1, GetOnly
<1>11. Get(sq, "Signature") = c.signature
  <2>1. \A j \in DOMAIN sq : sq[j].name = "Signature" => j = n + 2
    BY <1>3, <1>6, <1>8 DEF SigningParams
  <2> QED BY <1>3, <1>5, <1>6, <1>9, <2>1, GetOnly
<1>12. Get(sq, "Policy") = c.policy /\ Get(sq, "Expires") = c.expires
  <2>1. \A name \in {"Policy", "Expires"} : \A j \in DOMAIN sq : sq[j].name = name => j = n + 1
    BY <1>3, <1>6, <1>8 DEF SigningParams
  <2>2. Get(sq, first.name) = first.value
    BY <1>3, <1>5, <1>6, <1>9, <2>1, GetOnly
  <2>3. CASE link.kind = "canned"
    <3>1. Get(sq, "Policy") = None
      BY <1>3, <1>6, <2>1, <2>3, GetNone
    <3> QED BY <1>3, <1>4, <2>2, <2>3, <3>1
  <2>4. CASE link.kind # "canned"
    <3>1. Get(sq, "Expires") = None
      BY <1>3, <1>6, <2>1, <2>4, GetNone
    <3>2. link.kind = "custom"
      BY <2>4 DEF IsLink
    <3> QED BY <1>3, <1>4, <2>2, <2>4, <3>1
  <2> QED BY <2>3, <2>4
<1> QED BY <1>5, <1>7, <1>10, <1>11, <1>12 DEF c, q

(* Whichever way a link travels, its credentials are the ones that count,  *)
(* and the application's query is the one that was signed.                 *)
LEMMA CredentialsTravel ==
  ASSUME NEW r, NEW link, IsLink(link), Carries(r, link)
  PROVE  /\ ExtractCredentials(r) = Credentials(link)
         /\ Blank \notin ToSet(link.url.query) => ResourceQuery(r.query) = link.url.query
<1>0. link.keyID # None
  BY DEF IsLink
<1>1. CASE link.via = "query"
  <2>1. r.query = SignedQuery(link)
    BY <1>1 DEF Carries, Follow
  <2> DEFINE c == Credentials(link)
  <2>2. FromQuery(r) = [keyPairID |-> c.keyPairID, signature |-> c.signature, policy |-> c.policy, expires |-> c.expires]
    BY <2>1, QueryIsReadBack DEF FromQuery
  <2>3. FromQuery(r) = c /\ c.keyPairID # None
    BY <1>0, <2>2 DEF Credentials
  <2> QED BY <2>1, <2>3, QueryIsReadBack DEF ExtractCredentials
<1>2. CASE link.via # "query"
  <2>1. r.query = link.url.query /\ r.cookies = Credentials(link)
    BY <1>2 DEF Carries, Follow, IsLink
  <2>2. FromQuery(r).keyPairID = None /\ FromQuery(r).signature = None
    <3>1. Get(r.query, "Key-Pair-Id") = None /\ Get(r.query, "Signature") = None
      BY <2>1, GetNone DEF IsLink, SigningParams
    <3> QED BY <3>1 DEF FromQuery
  <2>3. ASSUME Blank \notin ToSet(r.query) PROVE ResourceQuery(r.query) = r.query
    <3>1. IsSeq(r.query) /\ \A i \in DOMAIN r.query : ~Stripped(r.query[i])
      BY <2>1, <2>3 DEF IsLink, Stripped, ToSet
    <3>2. IsSeq(<<>>) /\ DOMAIN <<>> = {}
      BY DEF IsSeq, ToSet
    <3>3. r.query \o <<>> = r.query
      BY <3>1 DEF IsSeq
    <3>4. ResourceQuery(r.query \o <<>>) = r.query
      BY <3>1, <3>2, ResourceQueryRestores
    <3> QED BY <3>3, <3>4
  <2> QED BY <2>1, <2>2, <2>3 DEF ExtractCredentials
<1> QED BY <1>1, <1>2

-----------------------------------------------------------------------------
(* What a resource covers.                                                 *)

(* The key of a link is found if its behavior trusts it.                   *)
LEMMA KeyIsFound ==
  ASSUME NEW cfg, NEW b, NEW id
  PROVE  FindKey(TrustedKeys(cfg, b), id) =
           IF id \in DOMAIN cfg.pubKeys /\ \E g \in ToSet(b.keyGroups) : id \in ToSet(g)
           THEN cfg.pubKeys[id] ELSE None
<1> DEFINE trusted == TrustedKeys(cfg, b)
<1>1. \A key \in trusted : key.rsa = cfg.pubKeys[key.id] /\ key.id \in DOMAIN cfg.pubKeys
                           /\ \E g \in ToSet(b.keyGroups) : key.id \in ToSet(g)
  BY DEF TrustedKeys
<1>2. ASSUME id \in DOMAIN cfg.pubKeys, NEW g \in ToSet(b.keyGroups), id \in ToSet(g)
      PROVE  \E key \in trusted : key.id = id
  <2>1. [id |-> id, rsa |-> cfg.pubKeys[id]] \in trusted
    BY <1>2 DEF TrustedKeys
  <2> HIDE DEF trusted
  <2> QED BY <2>1
<1> HIDE DEF trusted
<1>3. FindKey(trusted, id) = IF \E key \in trusted : key.id = id THEN (CHOOSE key \in trusted : key.id = id).rsa ELSE None
  BY DEF FindKey
<1>4. CASE \E key \in trusted : key.id = id
  <2>1. PICK key : key = (CHOOSE k \in trusted : k.id = id)
    OBVIOUS
  <2>2. key \in trusted /\ key.id = id
    BY <1>4, <2>1
  <2> QED BY <1>1, <1>3, <1>4, <2>1, <2>2 DEF trusted
<1>5. CASE ~\E key \in trusted : key.id = id
  BY <1>2, <1>3, <1>5 DEF trusted
<1> QED BY <1>4, <1>5

(* '*' covers every text, unless that starts with a '*' of its own.        *)
LEMMA StarMatches ==
  ASSUME NEW text, Len(text) \in Nat, Len(text) # 0, text[1] # Star
  PROVE  MatchGlob(<<Star>>, text)
<1> DEFINE pat == <<Star>>
<1> SUFFICES ASSUME ~MatchGlob(pat, text) PROVE FALSE
  OBVIOUS
<1>0. Len(pat) = 1 /\ pat[1] = Star
  OBVIOUS
<1> HIDE DEF pat
<1>1. PICK run : Unfolds(pat, text, run) /\ ~run[Start]
  BY <1>0, MatchGlobUnfolds
<1> DEFINE T == {a \in Position(pat, text) : a.p = 1 /\ a.star = 0 /\ ~run[a]}
<1>2. StarOpened(Start) \in T
  <2>1. Start \in Position(pat, text)
    BY <1>0, StartIsPosition
  <2>2. ~SameChar(pat, text, Start) /\ AtStar(pat, Start)
    BY <1>0, WildcardAssumption DEF SameChar, AtStar, Start
  <2>3. ~Ends(pat, text, Start)
    BY <2>2 DEF Ends, Start
  <2>4. Moved(pat, text, Start) = StarOpened(Start)
    BY <2>2 DEF Moved
  <2>5. StarOpened(Start) \in Position(pat, text) /\ ~run[StarOpened(Start)]
    BY <1>0, <1>1, <2>1, <2>3, <2>4, IterationAdvances DEF Unfolds
  <2>6. \A a \in Position(pat, text) : StarOpened(a).p = a.p + 1 /\ StarOpened(a).star = a.p
    BY DEF StarOpened, Position
  <2>7. StarOpened(Start).p = 1 /\ StarOpened(Start).star = 0
    BY <2>1, <2>6 DEF Start
  <2> QED BY <2>5, <2>7
<1>3. PICK a \in T : Ends(pat, text, a) \/ Moved(pat, text, a) \notin T
  <2>1. T \subseteq Position(pat, text) /\ T # {} /\ Len(pat) \in Nat
    BY <1>0, <1>2
  <2> HIDE DEF T
  <2> QED BY <2>1, LastPosition
<1>4. ~SameChar(pat, text, a) /\ ~AtStar(pat, a)
  BY <1>0, <1>3 DEF SameChar, AtStar
<1>5. CASE Ends(pat, text, a)
  <2>1. Accepts(pat, text, a)
    BY <1>0, <1>3, <1>5 DEF Ends, Accepts, OnlyStarsLeft
  <2> QED BY <1>1, <1>3, <1>5, <2>1 DEF Unfolds
<1>6. CASE ~Ends(pat, text, a)
  <2>1. Moved(pat, text, a) = Backtracked(a)
    BY <1>4 DEF Moved
  <2>2. Backtracked(a) \in Position(pat, text) /\ ~run[Backtracked(a)]
    BY <1>0, <1>1, <1>3, <1>6, <2>1, IterationAdvances DEF Unfolds
  <2>3. Backtracked(a).p = 1 /\ Backtracked(a).star = 0
    BY <1>3 DEF Backtracked, Position
  <2> QED BY <1>3, <1>6, <2>1, <2>2, <2>3
<1> QED BY <1>5, <1>6

(* A character of a pattern that is no wildcard is one of the text's; the  *)
(* first one is the text's first.                                          *)
LEMMA LiteralAppears ==
  ASSUME NEW pat, NEW text, Len(pat) \in Nat, Len(text) \in Nat, Matches(pat, text),
         NEW i \in 1 .. Len(pat), pat[i] \notin {Star, QMark}
  PROVE  /\ \E j \in 1 .. Len(text) : text[j] = pat[i]
         /\ i = 1 => text[1] = pat[1]
<1>1. PICK cut \in [0 .. Len(pat) -> 0 .. Len(text)] :
        cut[0] = 0 /\ \A k \in 1 .. Len(pat) : Fits(pat, k, text, cut[k - 1], cut[k])
  BY DEF Matches, Covers, Cuts
<1>2. cut[i] = cut[i - 1] + 1 /\ pat[i] = text[cut[i]]
  BY <1>1 DEF Fits
<1>3. i - 1 \in 0 .. Len(pat) /\ i \in 0 .. Len(pat)
  OBVIOUS
<1>4. cut[i] \in 0 .. Len(text) /\ cut[i - 1] \in 0 .. Len(text)
  BY <1>1, <1>3
<1>5. cut[i] \in 1 .. Len(text)
  BY <1>2, <1>4
<1>6. i = 1 => cut[i] = 1
  BY <1>1, <1>2
<1> QED BY <1>2, <1>5, <1>6

(* The part of a resource before its first '?' is a pattern of its own.    *)
LEMMA PatternOfResource ==
  ASSUME NEW resource, IsSeq(resource)
  PROVE  /\ Len(BeforeQuery(resource)) \in Nat
         /\ DOMAIN BeforeQuery(resource) = 1 .. Len(BeforeQuery(resource))
         /\ resource = <<Star>> => BeforeQuery(resource) = <<Star>>
         /\ resource # <<>> /\ Head(resource) = Slash =>
              1 \in 1 .. Len(BeforeQuery(resource)) /\ BeforeQuery(resource)[1] = Slash
<1> DEFINE marks == {i \in DOMAIN resource : resource[i] = QMark}
           m == CHOOSE i \in marks : \A j \in marks : i <= j
<1>1. resource \in Seq(ToSet(resource)) /\ DOMAIN resource = 1 .. Len(resource) /\ Len(resource) \in Nat
  BY DEF IsSeq
<1>2. marks # {} => m \in marks
  <2>1. marks \subseteq Nat
    BY <1>1
  <2> HIDE DEF marks
  <2> QED BY <2>1, SmallestOf
<1>3. BeforeQuery(resource) = IF marks = {} THEN resource ELSE SubSeq(resource, 1, m - 1)
  BY DEF BeforeQuery
<1>4. marks # {} => m \in 1 .. Len(resource) /\ resource[m] = QMark
  BY <1>1, <1>2
<1>5. resource = <<Star>> => marks = {}
  BY WildcardAssumption
<1> HIDE DEF marks, m
<1>6. Len(BeforeQuery(resource)) \in Nat /\ DOMAIN BeforeQuery(resource) = 1 .. Len(BeforeQuery(resource))
  <2>1. marks # {} => m - 1 \in Nat /\ SubSeq(resource, 1, m - 1) \in Seq(ToSet(resource))
    BY <1>1, <1>4
  <2> QED BY <1>1, <1>3, <2>1
<1>7. resource = <<Star>> => BeforeQuery(resource) = <<Star>>
  BY <1>3, <1>5
<1>8. ASSUME resource # <<>>, Head(resource) = Slash
      PROVE  1 \in 1 .. Len(BeforeQuery(resource)) /\ BeforeQuery(resource)[1] = Slash
  <2>1. Len(resource) >= 1 /\ resource[1] = Slash
    BY <1>1, <1>8
  <2>2. CASE marks = {}
    BY <1>1, <1>3, <2>1, <2>2
  <2>3. CASE marks # {}
    <3>1. m \in 1 .. Len(resource) /\ m # 1
      BY <1>4, <2>1, <2>3, TokenAssumption
    <3>2. m - 1 \in 1 .. Len(resource)
      BY <1>1, <3>1
    <3>3. Len(SubSeq(resource, 1, m - 1)) = m - 1 /\ SubSeq(resource, 1, m - 1)[1] = resource[1]
      BY <1>1, <3>2
    <3> QED BY <1>3, <2>1, <2>3, <3>2, <3>3
  <2> QED BY <2>2, <2>3
<1> QED BY <1>6, <1>7, <1>8

(* The path that is served, and the host that is asked for.                *)
LEMMA ServedPathIsPath ==
  ASSUME AdmissionInv, dist # None
  PROVE  /\ ServedPath = ApplyDefaultRootObject(request.path, dist.root)
         /\ IsSeq(ServedPath) /\ Len(ServedPath) \in Nat /\ Len(ServedPath) # 0 /\ ServedPath[1] = Slash
<1>1. snap \in Configs /\ Routed /\ visit \in Visits
  BY DEF AdmissionInv
<1>2. IsDistribution(dist)
  BY <1>1, ConfigAssumption DEF Routed
<1>3. IsSeq(request.path) /\ request.path # <<>> /\ Head(request.path) = Slash
  BY <1>1, RequestAssumption DEF request
<1>4. CASE request.path = <<Slash>> /\ dist.root # None
  <2> DEFINE root == dist.root
             p == <<Slash>> \o root
  <2>1. root \in Seq(ToSet(root))
    BY <1>2, <1>4 DEF IsDistribution, IsSeq
  <2>2. p \in Seq(ToSet(root) \cup {Slash}) /\ Len(p) = Len(root) + 1 /\ p[1] = Slash /\ Len(root) \in Nat
    BY <2>1
  <2>3. IsSeq(p)
    <3>1. \A i \in 1 .. Len(p) : p[i] \in ToSet(p)
      BY <2>2 DEF ToSet
    <3> HIDE DEF p, root
    <3> QED BY <2>2, <3>1 DEF IsSeq
  <2> HIDE DEF root, p
  <2>4. IsSeq(p) /\ Len(p) \in Nat /\ Len(p) # 0 /\ p[1] = Slash
    BY <2>2, <2>3
  <2> QED BY <1>4, <2>4 DEF ServedPath, ApplyDefaultRootObject, p, root
<1>5. CASE ~(request.path = <<Slash>> /\ dist.root # None)
  <2>1. ServedPath = request.path /\ ApplyDefaultRootObject(request.path, dist.root) = request.path
    BY <1>3, <1>5 DEF ServedPath, ApplyDefaultRootObject
  <2>2. request.path \in Seq(ToSet(request.path))
    BY <1>3 DEF IsSeq
  <2>3. Len(request.path) \in Nat /\ Len(request.path) # 0 /\ request.path[1] = Slash
    BY <1>3, <2>2
  <2> QED BY <1>3, <2>1, <2>3
<1> QED BY <1>4, <1>5

LEMMA AuthorityIsHost ==
  ASSUME AdmissionInv
  PROVE  Authority = ResourceHost(request, publicHost) /\ IsSeq(Authority)
BY RequestAssumption, PublicHostAssumption DEF AdmissionInv, Authority, ResourceHost, request

LEMMA BareURL ==
  ASSUME NEW scheme, NEW host, IsSeq(host), NEW path, IsSeq(path)
  PROVE  /\ URL(scheme, host, path, <<>>) = <<scheme, SchemeSep>> \o host \o path
         /\ Len(URL(scheme, host, path, <<>>)) \in Nat
         /\ URL(scheme, host, path, <<>>)[1] = scheme
<1> DEFINE S == ToSet(host) \cup ToSet(path) \cup {scheme, SchemeSep}
           u == <<scheme, SchemeSep>> \o host \o path
<1>1. host \in Seq(S) /\ path \in Seq(S) /\ <<scheme, SchemeSep>> \in Seq(S)
  BY DEF IsSeq
<1>2. <<scheme, SchemeSep>> \o host \in Seq(S) /\ (<<scheme, SchemeSep>> \o host)[1] = scheme /\ Len(<<scheme, SchemeSep>> \o host) >= 2
  <2> HIDE DEF S
  <2> QED BY <1>1
<1>3. u \in Seq(S) /\ u[1] = scheme
  <2> HIDE DEF S
  <2> QED BY <1>1, <1>2
<1>4. u \o <<>> = u /\ Len(u) \in Nat
  <2> HIDE DEF S, u
  <2> QED BY <1>3
<1>5. URL(scheme, host, path, <<>>) = u \o <<>>
  BY DEF URL
<1> QED BY <1>3, <1>4, <1>5

-----------------------------------------------------------------------------
(* Who is let in.                                                          *)

(* The verifier and the document agree on what the resource covers, as far *)
(* as the verifier grants.                                                 *)
LEMMA GrantedIsCovered ==
  ASSUME AdmissionInv, dist # None, NEW link, IsLink(link),
         ResourceMatches(link.doc.resource, Authority, ServedPath)
  PROVE  CoversURL(link.doc)
<1> DEFINE resource == link.doc.resource
           pat == BeforeQuery(resource)
<1>1. IsSeq(resource) /\ resource # <<>>
  BY DEF IsLink
<1>2. IsSeq(ServedPath) /\ Len(ServedPath) \in Nat /\ Len(ServedPath) # 0 /\ ServedPath[1] = Slash
  BY ServedPathIsPath
<1>3. IsSeq(Authority)
  BY AuthorityIsHost
<1>4. CASE resource = <<Star>>
  <2>1. pat = <<Star>>
    BY <1>1, <1>4, PatternOfResource
  <2>2. MatchGlob(<<Star>>, ServedPath)
    BY <1>2, StarMatches, TokenAssumption
  <2>3. MatchGlob(pat, ServedPath)
    BY <2>1, <2>2
  <2> QED BY <2>3 DEF CoversURL
<1>5. CASE SchemeSep \notin ToSet(pat) /\ MatchGlob(pat, ServedPath)
  BY <1>5 DEF CoversURL
<1>6. CASE \E scheme \in {Https, Http} : MatchGlob(pat, <<scheme, SchemeSep>> \o Authority \o ServedPath)
  <2>1. PICK scheme \in {Https, Http} : MatchGlob(pat, <<scheme, SchemeSep>> \o Authority \o ServedPath)
    BY <1>6
  <2>2. URL(scheme, Authority, ServedPath, <<>>) = <<scheme, SchemeSep>> \o Authority \o ServedPath
    BY <1>2, <1>3, BareURL
  <2> QED BY <2>1, <2>2 DEF CoversURL
<1> QED BY <1>1, <1>4, <1>5, <1>6 DEF ResourceMatches

(* A URL ends in its query.                                                *)
LEMMA QueryIsSuffix ==
  ASSUME NEW scheme, NEW host, IsSeq(host), NEW path, IsSeq(path), NEW S, NEW query \in Seq(S)
  PROVE  query \in Suffixes(URL(scheme, host, path, query))
<1> DEFINE T == ToSet(host) \cup ToSet(path) \cup {scheme, SchemeSep} \cup S \cup {QMark}
           front == (<<scheme, SchemeSep>> \o host \o path) \o (IF query = <<>> THEN <<>> ELSE <<QMark>>)
           url == URL(scheme, host, path, query)
<1>1. host \in Seq(T) /\ path \in Seq(T) /\ <<scheme, SchemeSep>> \in Seq(T) /\ query \in Seq(T) /\ <<QMark>> \in Seq(T)
  BY DEF IsSeq
<1>2. <<scheme, SchemeSep>> \o host \o path \in Seq(T)
  <2> HIDE DEF T
  <2> QED BY <1>1
<1>3. front \in Seq(T) /\ url = front \o query
  <2> DEFINE l == <<scheme, SchemeSep>> \o host \o path
  <2>1. CASE query = <<>>
    <3>1. url = l \o <<>>
      BY <2>1 DEF URL
    <3> HIDE DEF l, T, url
    <3>2. l \o <<>> = l /\ front = l /\ l \o query = l
      BY <1>2, <2>1 DEF l
    <3> QED BY <1>2, <3>1, <3>2 DEF l
  <2>2. CASE query # <<>>
    <3>1. url = l \o (<<QMark>> \o query) /\ front = l \o <<QMark>>
      BY <2>2 DEF URL
    <3> HIDE DEF l, T, url, front
    <3>2. l \in Seq(T) /\ l \o (<<QMark>> \o query) = (l \o <<QMark>>) \o query /\ l \o <<QMark>> \in Seq(T)
      BY <1>1, <1>2 DEF l
    <3> QED BY <3>1, <3>2
  <2> QED BY <2>1, <2>2
<1> HIDE DEF front, url, T
<1>4. CASE query = <<>>
  BY <1>4 DEF Suffixes
<1>5. CASE query # <<>>
  <2>1. /\ Len(front) \in Nat /\ Len(query) \in Nat /\ Len(query) > 0 /\ Len(url) = Len(front) + Len(query)
        /\ url \in Seq(T)
    BY <1>1, <1>3, <1>5
  <2> DEFINE k == Len(front) + 1
             end == SubSeq(url, k, Len(url))
  <2>2. k \in 1 .. Len(url)
    BY <2>1
  <2>3. end \in Seq(T) /\ Len(end) = Len(query)
    BY <2>1, <2>2
  <2>4. \A i \in 1 .. Len(query) : end[i] = query[i]
    <3> TAKE i \in 1 .. Len(query)
    <3>1. end[i] = url[k + i - 1]
      BY <2>1, <2>2
    <3>2. url[k + i - 1] = query[i]
      BY <1>1, <1>3, <2>1
    <3> QED BY <3>1, <3>2
  <2>5. end = query
    <3> HIDE DEF end, k
    <3> QED BY <1>1, <2>3, <2>4
  <2> QED BY <2>2, <2>5 DEF Suffixes, url
<1> QED BY <1>4, <1>5

LEMMA VerifiedIsAuthorised ==
  ASSUME AdmissionInv, dist # None, checkedAt # None,
         Verify(request, TrustedKeys(snap, beh), checkedAt, dist.root, publicHost)
  PROVE  \E link \in Links : AuthorisedBy(link)
<1> DEFINE c == ExtractCredentials(request)
           rsa == FindKey(TrustedKeys(snap, beh), c.keyPairID)
           host == ResourceHost(request, publicHost)
           own == ResourceQuery(request.query)
<1>1. /\ c.signature \notin {None, Malformed} /\ rsa # None
      /\ IF c.policy # None THEN VerifyCustom(request, rsa, c, checkedAt, dist.root, host)
         ELSE VerifyCanned(request, rsa, c, checkedAt, dist.root, host)
  BY DEF Verify, CredentialsComplete
<1>2. PICK link \in Links : c.signature = Credentials(link).signature
  BY <1>1, SignatureAssumption DEF AdmissionInv, request
<1>3. IsLink(link) /\ c.signature = [key |-> link.rsa, over |-> link.doc]
  BY <1>2, LinkAssumption DEF Credentials
<1>4. /\ c.keyPairID \in DOMAIN snap.pubKeys /\ rsa = snap.pubKeys[c.keyPairID]
      /\ \E g \in ToSet(beh.keyGroups) : c.keyPairID \in ToSet(g)
  BY <1>1, KeyIsFound
<1>5. ServedPath = ApplyDefaultRootObject(request.path, dist.root) /\ IsSeq(ServedPath) /\ Authority = host /\ IsSeq(Authority)
  BY ServedPathIsPath, AuthorityIsHost
<1>6. IsSeq(request.query)
  BY RequestAssumption DEF AdmissionInv, request
<1>7. own \in Seq(ToSet(request.query)) /\ ToSet(own) = OwnParams
  BY <1>6, ResourceQueryKeepsOwn DEF OwnParams, Stripped
<1> HIDE DEF c, rsa, host, own
<1>8. Trusted(c.keyPairID, link.rsa) /\ InForce(link.doc, checkedAt, request.remote)
      /\ IF c.policy # None THEN CoversURL(link.doc)
         ELSE \E query \in Suffixes(link.doc.resource) : ToSet(query) = OwnParams /\ IsAbout(link.doc, query)
  <2>1. CASE c.policy # None
    <3>1. /\ VerifyRSA(rsa, c.policy, c.signature)
          /\ c.policy.lessThan > 0 => checkedAt < c.policy.lessThan
          /\ c.policy.greaterThan > 0 => checkedAt > c.policy.greaterThan
          /\ c.policy.ip # None => CheckIP(c.policy.ip, request.remote)
          /\ ResourceMatches(c.policy.resource, host, ServedPath)
      BY <1>1, <1>5, <2>1 DEF VerifyCustom
    <3>2. rsa = link.rsa /\ c.policy = link.doc
      BY <1>3, <3>1 DEF VerifyRSA
    <3>3. CoversURL(link.doc)
      BY <1>3, <1>5, <3>1, <3>2, GrantedIsCovered
    <3>4. InForce(link.doc, checkedAt, request.remote)
      <4>1. link.doc.greaterThan > 0 => link.doc.greaterThan < checkedAt
        BY <3>1, <3>2
      <4> QED BY <3>1, <3>2, <4>1 DEF InForce, CheckIP
    <3>5. Trusted(c.keyPairID, link.rsa)
      BY <1>4, <3>2 DEF Trusted
    <3> QED BY <2>1, <3>3, <3>4, <3>5
  <2>2. CASE c.policy = None
    <3>1. PICK scheme \in {Https, Http} :
            VerifyRSA(rsa, CannedPolicy(URL(scheme, Authority, ServedPath, own), c.expires), c.signature)
      BY <1>1, <1>5, <2>2 DEF VerifyCanned, own
    <3>2. rsa = link.rsa /\ link.doc = CannedPolicy(URL(scheme, Authority, ServedPath, own), c.expires)
      BY <1>3, <3>1 DEF VerifyRSA
    <3>3. /\ link.doc.resource = URL(scheme, Authority, ServedPath, own) /\ link.doc.lessThan = c.expires
          /\ link.doc.greaterThan = 0 /\ link.doc.ip = None
      BY <3>2 DEF CannedPolicy
    <3>4. InForce(link.doc, checkedAt, request.remote)
      <4>1. checkedAt < link.doc.lessThan
        BY <1>1, <2>2, <3>3 DEF VerifyCanned
      <4> QED BY <3>3, <4>1 DEF InForce
    <3>5. own \in Suffixes(link.doc.resource) /\ IsAbout(link.doc, own)
      BY <1>5, <1>7, <3>3, QueryIsSuffix DEF IsAbout
    <3>6. Trusted(c.keyPairID, link.rsa)
      BY <1>4, <3>2 DEF Trusted
    <3> QED BY <1>7, <2>2, <3>4, <3>5, <3>6
  <2> QED BY <2>1, <2>2
<1> QED BY <1>2, <1>8 DEF AuthorisedBy, Presented, c

(* Past a restricted behavior comes only a viewer with the signature of a  *)
(* link by a key of that behavior, in the configuration the request        *)
(* started with, for a document that covers what is asked for and is in    *)
(* force when it is checked, whatever else the viewer changed.             *)
THEOREM OnlySignedLinksEnter == Spec => []OnlyAuthorisedEnter
<1>1. AdmissionInv => OnlyAuthorisedEnter
  <2> SUFFICES ASSUME AdmissionInv, stage = "admitted", beh.keyGroups # <<>>
               PROVE  \E link \in Links : AuthorisedBy(link)
    BY DEF OnlyAuthorisedEnter
  <2>1. checkedAt # None /\ Decided /\ snap \in Configs /\ Routed
    BY DEF AdmissionInv
  <2>2. dist # None
    BY <2>1, ConfigAssumption DEF Routed, IsDistribution
  <2>3. Verify(request, TrustedKeys(snap, beh), checkedAt, dist.root, publicHost)
    BY <2>1 DEF Decided
  <2> QED BY <2>1, <2>2, <2>3, VerifiedIsAuthorised
<1> QED BY <1>1, AdmissionInvariant, PTL

LEMMA CoveredIsGranted ==
  ASSUME AdmissionInv, dist # None, NEW link, IsLink(link), WellFormed(link), link.kind # "canned",
         NoSchemeIn(ServedPath), CoversURL(link.doc)
  PROVE  ResourceMatches(link.doc.resource, Authority, ServedPath)
<1> DEFINE resource == link.doc.resource
           pat == BeforeQuery(resource)
           url(scheme) == URL(scheme, Authority, ServedPath, <<>>)
<1>1. IsSeq(resource) /\ resource # <<>> /\ link.kind = "custom"
  BY DEF IsLink
<1>2. IsSeq(ServedPath) /\ Len(ServedPath) \in Nat /\ IsSeq(Authority)
  BY ServedPathIsPath, AuthorityIsHost
<1>3. Len(pat) \in Nat
  BY <1>1, PatternOfResource
<1>4. \A scheme : /\ url(scheme) = <<scheme, SchemeSep>> \o Authority \o ServedPath
                  /\ Len(url(scheme)) \in Nat /\ url(scheme)[1] = scheme
  BY <1>2, BareURL
<1>5. PICK scheme \in {Https, Http} : MatchGlob(pat, url(scheme)) \/ MatchGlob(pat, ServedPath)
  <2>1. MatchGlob(pat, ServedPath) \/ \E scheme \in {Https, Http} : MatchGlob(pat, url(scheme))
    BY DEF CoversURL
  <2> HIDE DEF pat, url
  <2> QED BY <2>1
<1> HIDE DEF pat, url
<1>6. CASE resource = <<Star>>
  BY <1>6 DEF ResourceMatches
<1>7. CASE SchemeSep \in ToSet(pat)
  <2>1. ~MatchGlob(pat, ServedPath)
    <3> SUFFICES ASSUME MatchGlob(pat, ServedPath) PROVE FALSE
      OBVIOUS
    <3>1. Matches(pat, ServedPath)
      BY <1>2, <1>3, MatchGlobIsSound
    <3>2. PICK i \in DOMAIN pat : pat[i] = SchemeSep
      BY <1>7 DEF ToSet
    <3>3. DOMAIN pat = 1 .. Len(pat)
      BY <1>1, PatternOfResource DEF pat
    <3>4. \E j \in 1 .. Len(ServedPath) : ServedPath[j] = SchemeSep
      BY <1>2, <1>3, <3>1, <3>2, <3>3, LiteralAppears, TokenAssumption
    <3>5. DOMAIN ServedPath = 1 .. Len(ServedPath)
      BY <1>2 DEF IsSeq
    <3> QED BY <3>4, <3>5 DEF NoSchemeIn, ToSet
  <2> QED BY <1>4, <1>5, <1>7, <2>1 DEF ResourceMatches, pat
<1>8. CASE Head(resource) = Slash /\ SchemeSep \notin ToSet(pat)
  <2>1. 1 \in 1 .. Len(pat) /\ pat[1] = Slash
    BY <1>1, <1>8, PatternOfResource DEF pat
  <2>2. ~MatchGlob(pat, url(scheme))
    <3> SUFFICES ASSUME MatchGlob(pat, url(scheme)) PROVE FALSE
      OBVIOUS
    <3>1. Matches(pat, url(scheme))
      BY <1>3, <1>4, MatchGlobIsSound
    <3>2. url(scheme)[1] = Slash
      BY <1>3, <1>4, <2>1, <3>1, LiteralAppears, TokenAssumption
    <3> QED BY <1>4, <1>5, <3>2, TokenAssumption
  <2> QED BY <1>5, <1>8, <2>2 DEF ResourceMatches, pat
<1> QED BY <1>1, <1>6, <1>7, <1>8 DEF WellFormed, pat

LEMMA EntitledIsVerified ==
  ASSUME AdmissionInv, dist # None, checkedAt # None, Entitled,
         WellFormed(visit.link), NoSchemeIn(ServedPath),
         visit.link.kind = "canned" => Blank \notin ToSet(visit.link.url.query)
  PROVE  Verify(request, TrustedKeys(snap, beh), checkedAt, dist.root, publicHost)
<1> DEFINE link == visit.link
           c == ExtractCredentials(request)
           rsa == FindKey(TrustedKeys(snap, beh), c.keyPairID)
           host == ResourceHost(request, publicHost)
<1>1. /\ link # None /\ Trusted(link.keyID, link.rsa) /\ InForce(link.doc, checkedAt, request.remote)
      /\ IF link.kind = "custom" THEN CoversURL(link.doc) ELSE IsAbout(link.doc, link.url.query)
  BY DEF Entitled
<1>2. IsLink(link) /\ Carries(request, link)
  BY <1>1, LinkAssumption, FollowAssumption DEF AdmissionInv, request
<1>3. c = Credentials(link) /\ (link.kind = "canned" => ResourceQuery(request.query) = link.url.query)
  BY <1>2, CredentialsTravel
<1>4. /\ c.keyPairID = link.keyID /\ c.signature = [key |-> link.rsa, over |-> link.doc]
      /\ c.policy = (IF link.kind = "custom" THEN link.doc ELSE None)
      /\ c.expires = (IF link.kind = "canned" THEN link.doc.lessThan ELSE None)
  BY <1>3 DEF Credentials
<1>5. /\ link.keyID \notin {None, Malformed} /\ link.rsa \notin {None, Malformed} /\ link.doc \notin {None, Malformed}
      /\ c.signature \notin {None, Malformed}
  BY <1>2, <1>3 DEF IsLink
<1>6. rsa = link.rsa
  BY <1>1, <1>4, KeyIsFound DEF Trusted
<1>7. ServedPath = ApplyDefaultRootObject(request.path, dist.root) /\ Authority = host
  BY ServedPathIsPath, AuthorityIsHost
<1>8. WellFormed(link)
  OBVIOUS
<1> HIDE DEF link, c, rsa, host
<1>9. CASE link.kind = "custom"
  <2>1. c.policy = link.doc /\ c.policy \notin {None, Malformed}
    BY <1>4, <1>5, <1>9
  <2>2. ResourceMatches(link.doc.resource, host, ServedPath)
    BY <1>1, <1>2, <1>7, <1>8, <1>9, CoveredIsGranted
  <2>3. VerifyRSA(rsa, link.doc, c.signature)
    BY <1>4, <1>6 DEF VerifyRSA
  <2>4. link.doc.ip # None => CheckIP(link.doc.ip, request.remote)
    BY <1>1, <1>8, <1>9 DEF InForce, WellFormed, CheckIP
  <2>5. /\ link.doc.lessThan > 0 => checkedAt < link.doc.lessThan
        /\ link.doc.greaterThan > 0 => checkedAt > link.doc.greaterThan
    BY <1>1 DEF InForce
  <2>6. VerifyCustom(request, rsa, c, checkedAt, dist.root, host)
    BY <1>7, <2>1, <2>2, <2>3, <2>4, <2>5 DEF VerifyCustom
  <2>7. CredentialsComplete(c)
    BY <1>4, <1>5, <2>1 DEF CredentialsComplete
  <2> QED BY <1>5, <1>6, <2>1, <2>6, <2>7 DEF Verify, c, rsa, host
<1>10. CASE link.kind # "custom"
  <2>1. /\ link.kind = "canned" /\ c.policy = None /\ c.expires = link.doc.lessThan
        /\ link.doc = CannedPolicy(link.doc.resource, link.doc.lessThan)
        /\ link.doc.lessThan \in Nat \ {0}
    BY <1>2, <1>4, <1>10 DEF IsLink
  <2>2. PICK scheme \in {Https, Http} : link.doc.resource = URL(scheme, Authority, ServedPath, link.url.query)
    BY <1>1, <2>1 DEF IsAbout
  <2>3. VerifyRSA(rsa, CannedPolicy(URL(scheme, Authority, ServedPath, link.url.query), c.expires), c.signature)
    BY <1>4, <1>6, <2>1, <2>2 DEF VerifyRSA
  <2>4. checkedAt < c.expires /\ c.expires \notin {None, Malformed}
    BY <1>1, <2>1, NoneAssumption DEF InForce
  <2>5. VerifyCanned(request, rsa, c, checkedAt, dist.root, host)
    BY <1>3, <1>7, <2>1, <2>3, <2>4 DEF VerifyCanned
  <2>6. CredentialsComplete(c)
    BY <1>4, <1>5, <2>4 DEF CredentialsComplete
  <2> QED BY <1>5, <1>6, <2>1, <2>5, <2>6 DEF Verify, c, rsa, host
<1> QED BY <1>9, <1>10

(* A link the SDK signed is good for what it was signed for: whoever       *)
(* follows it in time is not turned away, in whatever way it travels and   *)
(* whatever query string the URL has of its own, if a canned policy's has  *)
(* no empty parameter.  Neither a path nor a root object has a scheme of   *)
(* its own.                                                                *)
THEOREM LinksAreHonoured ==
  ASSUME \A v \in Visits : v.link # None => WellFormed(v.link), PlainPaths
  PROVE  Spec => []IssuedLinksWork
<1>1. AdmissionInv => IssuedLinksWork
  <2> SUFFICES ASSUME AdmissionInv, stage = "refused", checkedAt # None, Entitled,
                      visit.link.kind = "canned" => Blank \notin ToSet(visit.link.url.query)
               PROVE  FALSE
    BY DEF IssuedLinksWork
  <2>1. Decided /\ snap \in Configs /\ Routed /\ visit \in Visits
    BY DEF AdmissionInv
  <2>2. PICK d \in DOMAIN snap.dists : dist = snap.dists[d]
    BY <2>1 DEF Routed
  <2>3. dist # None
    BY <2>1, <2>2, ConfigAssumption DEF IsDistribution
  <2>4. WellFormed(visit.link)
    BY <2>1 DEF Entitled
  <2>5. NoSchemeIn(ServedPath)
    BY <2>1, <2>2 DEF PlainPaths, ServedPath, request
  <2>6. Verify(request, TrustedKeys(snap, beh), checkedAt, dist.root, publicHost)
    BY <2>3, <2>4, <2>5, EntitledIsVerified
  <2> QED BY <2>1, <2>6 DEF Decided
<1> QED BY <1>1, AdmissionInvariant, PTL
=============================================================================
