--------------------------------- MODULE Glob ---------------------------------
(***************************************************************************)
(* One call of matchGlob.  An iteration of its loop is an action; what the *)
(* call should decide is Matches, which does not mention the loop.         *)
(***************************************************************************)
EXTENDS Wildcards

CONSTANTS
  Chars,     \* all characters, the wildcards among them
  Patterns,  \* the patterns matchGlob may be called with
  Texts      \* the texts it may be called with

ASSUME ArgumentAssumption == Patterns \subseteq Seq(Chars) /\ Texts \subseteq Seq(Chars)

VARIABLES
  pattern,   \* the arguments of the call
  s,
  at,        \* [p, str, star, end]: p, str, star, starMatchEnd
  matched    \* the result, or "unknown"

callVars == <<pattern, s, at, matched>>

-----------------------------------------------------------------------------
CallInit == pattern \in Patterns /\ s \in Texts /\ at = Start /\ matched = "unknown"

More == matched = "unknown" /\ at.str < Len(s)

Consume ==
  /\ More
  /\ SameChar(pattern, s, at)
  /\ at' = Consumed(at)
  /\ UNCHANGED <<pattern, s, matched>>

OpenStar ==
  /\ More
  /\ ~SameChar(pattern, s, at)
  /\ AtStar(pattern, at)
  /\ at' = StarOpened(at)
  /\ UNCHANGED <<pattern, s, matched>>

Backtrack ==
  /\ More
  /\ ~SameChar(pattern, s, at) /\ ~AtStar(pattern, at)
  /\ at.star # -1
  /\ at' = Backtracked(at)
  /\ UNCHANGED <<pattern, s, matched>>

Reject ==
  /\ More
  /\ ~SameChar(pattern, s, at) /\ ~AtStar(pattern, at)
  /\ at.star = -1
  /\ matched' = "no"
  /\ UNCHANGED <<pattern, s, at>>

Finish ==
  /\ matched = "unknown" /\ at.str = Len(s)
  /\ matched' = IF OnlyStarsLeft(pattern, at) THEN "yes" ELSE "no"
  /\ UNCHANGED <<pattern, s, at>>

CallNext == Consume \/ OpenStar \/ Backtrack \/ Reject \/ Finish

Call == CallInit /\ [][CallNext]_callVars

(* A sequential call runs on until it returns.                             *)
FairCall == Call /\ WF_callVars(CallNext)

-----------------------------------------------------------------------------
(* Types, and that the loop's indexes stay inside pattern and text.        *)
CallTypeOK ==
  /\ pattern \in Patterns /\ s \in Texts
  /\ at \in Position(pattern, s)
  /\ matched \in {"unknown", "yes", "no"}

(* A text that matchGlob accepts is one the pattern covers: a behavior     *)
(* never serves, and a policy never opens, a path outside its pattern.     *)
MatchIsSound == matched = "yes" => Matches(pattern, s)

(* Remembering only the last '*' is enough: when matchGlob rejects a text, *)
(* no way of cutting the text fits.  For texts without a '*' of their own. *)
MatchIsComplete == matched = "no" /\ NoStarIn(s) => ~Matches(pattern, s)

(* "'*' (zero or more characters)" (behavior.go:32): any characters, a     *)
(* literal '*' of the path included.                                       *)
EveryMatchIsFound == matched = "no" => ~Matches(pattern, s)

(* Backtracking makes progress: every call returns.                        *)
Returns == <>(matched # "unknown")
=============================================================================
