------------------------------ MODULE MCPipeline ------------------------------
(* Instances of Pipeline: configurations that differ in the functions, the *)
(* error responses and compression; a function's status may be one that    *)
(* net/http refuses (42) or sends as an interim response (103).            *)
EXTENDS Pipeline, TLC

CONSTANTS r1, r2

MCRequests == {r1, r2}

Errors == {[code |-> 404, response |-> 200, page |-> TRUE],
           [code |-> 502, response |-> 503, page |-> FALSE]}

Plain == [signed |-> FALSE, functions |-> {}, compress |-> FALSE, errors |-> {}]
Rich == [signed |-> TRUE, functions |-> Functions, compress |-> TRUE, errors |-> Errors]

MCConfigs == {Plain, Rich}
MCStatuses == {200, 404, 502}
MCFnStatuses == {0, 42, 103, 302, 404}

Symmetry == Permutations({r1, r2})
=============================================================================
