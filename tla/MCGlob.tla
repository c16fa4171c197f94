-------------------------------- MODULE MCGlob --------------------------------
(* Every short pattern, and a few longer ones with two stars, against      *)
(* every short text; only some texts have a '*' of their own.              *)
EXTENDS Glob, SequencesExt

CONSTANTS a, b

MCChars == {a, b, Star, QMark}

MCPatterns ==
  BoundedSeq(MCChars, 3)
    \cup {<<Star, a, Star, b>>, <<a, Star, b, a>>, <<Star, a, b, Star>>, <<Star, QMark, a, b>>}

MCTexts == BoundedSeq({a, b}, 4) \cup {<<Star>>, <<Star, a>>, <<a, Star, b>>}
=============================================================================
