------------------------------- MODULE MCWatch -------------------------------
(* Instances of Watch: one template and one seed file.                     *)
EXTENDS Watch

CONSTANTS template, seed, here, there

MCTemplates == {template}
MCSeeds == {seed}
MCDirs == {here, there}
MCDirOf == [f \in {template, seed} |-> IF f = template THEN here ELSE there]
=============================================================================
