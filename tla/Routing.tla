------------------------------- MODULE Routing -------------------------------
(***************************************************************************)
(* Which distribution and which of its behaviors serve a request: the      *)
(* route table of internal/dataplane and Select of internal/behavior.      *)
(*                                                                         *)
(* A host is the sequence of its lower-case labels, the port cut off.  A   *)
(* path is a sequence of characters that starts with a Slash.              *)
(***************************************************************************)
EXTENDS Wildcards, FiniteSets, FiniteSetsExt

(* The distributions of a configuration are numbered in template order.    *)
Enabled(cfg) == {d \in DOMAIN cfg.dists : cfg.dists[d].enabled}

(* An alias without a leading '*' names one host, as the domain name does. *)
Names(dist, host) ==
  \/ host = dist.domain
  \/ \E i \in DOMAIN dist.aliases : dist.aliases[i] = [wild |-> FALSE, labels |-> host]

(* A wildcard stands for exactly one label more.                           *)
WildcardCovers(alias, host) ==
  /\ alias.wild
  /\ Len(host) = Len(alias.labels) + 1
  /\ Tail(host) = alias.labels

(* The map of exact names keeps the last distribution stored under a name. *)
ExactMatch(cfg, host) == {d \in Enabled(cfg) : Names(cfg.dists[d], host)}

WildcardMatch(cfg, host) ==
  {d \in Enabled(cfg) : \E i \in DOMAIN cfg.dists[d].aliases : WildcardCovers(cfg.dists[d].aliases[i], host)}

Match_WildcardFirst(cfg, host) ==
  IF WildcardMatch(cfg, host) # {} THEN Min(WildcardMatch(cfg, host))
  ELSE IF ExactMatch(cfg, host) # {} THEN Max(ExactMatch(cfg, host))
  ELSE None

Match(cfg, host) ==
  IF ExactMatch(cfg, host) # {} THEN Max(ExactMatch(cfg, host))
  ELSE IF WildcardMatch(cfg, host) # {} THEN Min(WildcardMatch(cfg, host))
  ELSE None

TrimSlash(text) == IF text # <<>> /\ Head(text) = Slash THEN Tail(text) ELSE text

MatchPath(pattern, path) == MatchGlob(TrimSlash(pattern), TrimSlash(path))

Select_LastMatch(dist, path) ==
  LET hits == {i \in DOMAIN dist.behaviors : MatchPath(dist.behaviors[i].pattern, path)}
  IN IF hits = {} THEN dist.default ELSE dist.behaviors[Max(hits)]

(* The first behavior in listing order whose pattern matches, else the     *)
(* default behavior.                                                       *)
Select(dist, path) ==
  LET hits == {i \in DOMAIN dist.behaviors : MatchPath(dist.behaviors[i].pattern, path)}
  IN IF hits = {} THEN dist.default ELSE dist.behaviors[Min(hits)]

AllowsMethod(beh, method) == method \in beh.methods
=============================================================================
