------------------------------ MODULE Wildcards ------------------------------
(***************************************************************************)
(* The wildcard matcher matchGlob, of which internal/behavior and          *)
(* internal/sign have a copy each: an iterative loop that remembers the    *)
(* last '*' and, when the text stops fitting, lets that '*' swallow one    *)
(* more character.  It decides which behavior serves a path and which      *)
(* requests a signed policy covers.                                        *)
(*                                                                         *)
(* The local variables p, str, star and starMatchEnd are the fields of a   *)
(* position; as in the code they count from 0, so that pat[a.p + 1] here   *)
(* is pattern[p] there.  Glob runs the loop step by step.                  *)
(***************************************************************************)
EXTENDS Integers, Sequences

CONSTANTS
  Star,   \* the character '*'
  QMark,  \* the character '?'
  Slash,  \* the character '/'
  None    \* an absent value

ASSUME WildcardAssumption == Star # QMark

-----------------------------------------------------------------------------
(* The loop.                                                               *)

Start == [p |-> 0, str |-> 0, star |-> -1, end |-> 0]

(* The first case of the switch: the pattern's character is '?' or equal   *)
(* to the text's.                                                          *)
SameChar(pat, text, a) == a.p < Len(pat) /\ pat[a.p + 1] \in {QMark, text[a.str + 1]}

AtStar(pat, a) == a.p < Len(pat) /\ pat[a.p + 1] = Star

Consumed(a) == [a EXCEPT !.p = @ + 1, !.str = @ + 1]

StarOpened(a) == [a EXCEPT !.star = a.p, !.end = a.str, !.p = @ + 1]

Backtracked_SameEnd(a) == [a EXCEPT !.p = a.star + 1, !.str = a.end]

Backtracked_Skips(a) == [a EXCEPT !.p = a.star + 1, !.end = @ + 2, !.str = a.end + 2]

Backtracked(a) == [a EXCEPT !.p = a.star + 1, !.end = @ + 1, !.str = a.end + 1]

OnlyStarsLeft_NotAsked(pat, a) == TRUE

OnlyStarsLeft_NoSkip(pat, a) == a.p = Len(pat)

(* The text is used up: the rest of the pattern may only be stars.         *)
OnlyStarsLeft(pat, a) == \A i \in (a.p + 1) .. Len(pat) : pat[i] = Star

(* The positions the loop can be at: the last '*' swallows no character    *)
(* beyond the one that is looked at.                                       *)
Position(pat, text) ==
  {a \in [p : 0 .. Len(pat), str : 0 .. Len(text), star : -1 .. Len(pat) - 1, end : 0 .. Len(text)] :
     a.end <= a.str}

(* The whole loop as a function of its arguments, for the modules that     *)
(* call the matcher.                                                       *)
MatchGlob(pat, text) ==
  LET run[a \in Position(pat, text)] ==
        IF a.str = Len(text) THEN OnlyStarsLeft(pat, a)
        ELSE IF SameChar(pat, text, a) THEN run[Consumed(a)]
        ELSE IF AtStar(pat, a) THEN run[StarOpened(a)]
        ELSE a.star # -1 /\ run[Backtracked(a)]
  IN run[Start]

-----------------------------------------------------------------------------
(* What a pattern means: its first n characters cover the first k of the   *)
(* text when the text can be cut into one piece per character, any piece   *)
(* for a '*', any single character for a '?', the character itself         *)
(* otherwise.                                                              *)

NonDecreasing(cut, n) == \A i, j \in 0 .. n : i <= j => cut[i] <= cut[j]

Fits(pat, i, text, from, to) ==
  \/ pat[i] = Star
  \/ pat[i] # Star /\ to = from + 1 /\ pat[i] \in {QMark, text[to]}

Cuts(pat, n, text, k) ==
  {cut \in [0 .. n -> 0 .. k] :
     /\ cut[0] = 0 /\ cut[n] = k
     /\ NonDecreasing(cut, n)
     /\ \A i \in 1 .. n : Fits(pat, i, text, cut[i - 1], cut[i])}

Covers(pat, n, text, k) == Cuts(pat, n, text, k) # {}

Matches(pat, text) == Covers(pat, Len(pat), text, Len(text))

(* A text without a '*' of its own.                                        *)
NoStarIn(text) == \A i \in 1 .. Len(text) : text[i] # Star
=============================================================================
