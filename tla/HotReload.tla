------------------------------- MODULE HotReload -------------------------------
(***************************************************************************)
(* What hot reload promises to requests, without saying how: there is      *)
(* always one generation of compiled functions to serve from, serving only *)
(* moves to newer generations, and a superseded generation is closed once, *)
(* after its grace period or when yet another reload has superseded it too.*)
(* The promise is taken from cmd/localfront/reload.go and refined by the   *)
(* module Reload, which models the reloader's fields, timers and steps.    *)
(***************************************************************************)
EXTENDS Naturals

CONSTANT MaxGen   \* generations are numbered 0 .. MaxGen

Gens == 0 .. MaxGen

VARIABLES
  serving,    \* the generation new requests get
  life,       \* life[g]: "unborn", "ready" or "closed"
  graceOver,  \* superseded generations whose grace period has elapsed
  stopped     \* the server no longer accepts requests

vars == <<serving, life, graceOver, stopped>>

Init ==
  /\ serving = 0
  /\ life = [g \in Gens |-> IF g = 0 THEN "ready" ELSE "unborn"]
  /\ graceOver = {}
  /\ stopped = FALSE

(* A reload compiled a new generation, or had to discard it again.         *)
Build(g) ==
  /\ life[g] = "unborn"
  /\ \E outcome \in {"ready", "closed"} : life' = [life EXCEPT ![g] = outcome]
  /\ UNCHANGED <<serving, graceOver, stopped>>

Switch(g) ==
  /\ life[g] = "ready"
  /\ g > serving
  /\ serving' = g
  /\ UNCHANGED <<life, graceOver, stopped>>

GraceElapses(g) ==
  /\ g \notin graceOver
  /\ graceOver' = graceOver \cup {g}
  /\ UNCHANGED <<serving, life, stopped>>

(* The documented exception to the grace period: a later generation has    *)
(* been superseded as well and its own grace period replaces this one.     *)
Collapsed(g) == \E h \in Gens : g < h /\ h < serving /\ life[h] = "ready"

Retire(g) ==
  /\ life[g] = "ready"
  /\ g < serving
  /\ g \in graceOver \/ Collapsed(g)
  /\ life' = [life EXCEPT ![g] = "closed"]
  /\ UNCHANGED <<serving, graceOver, stopped>>

Stop ==
  /\ stopped' = TRUE
  /\ UNCHANGED <<serving, life, graceOver>>

(* After the server stopped, ready generations are closed in any order,    *)
(* several at once, and a reload in progress may still switch.             *)
Release ==
  /\ stopped
  /\ \E S \in SUBSET {g \in Gens : life[g] = "ready"} :
       life' = [g \in Gens |-> IF g \in S THEN "closed" ELSE life[g]]
  /\ UNCHANGED <<serving, graceOver, stopped>>

Next ==
  \/ \E g \in Gens : Build(g) \/ Switch(g) \/ GraceElapses(g) \/ Retire(g)
  \/ Stop
  \/ Release

Spec == Init /\ [][Next]_vars
=============================================================================
