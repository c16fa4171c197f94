------------------------------ MODULE MCFuncPool ------------------------------
(* An instance of FuncPool: three callers, two closers, three runtimes.    *)
EXTENDS FuncPool

CONSTANTS c1, c2, c3, k1, k2, r1, r2, r3

MCCallers == {c1, c2, c3}
MCClosers == {k1, k2}
MCRuntimes == {r1, r2, r3}
=============================================================================
