---------------------------- MODULE WildcardProofs ----------------------------
(***************************************************************************)
(* matchGlob decides exactly what a pattern covers, for every pattern and  *)
(* every text without a '*' of its own; what it accepts is covered for     *)
(* every text.                                                             *)
(*                                                                         *)
(* What was matched so far is kept by either half.  Soundness: the part of *)
(* the pattern before p covers the part of the text before str, and the    *)
(* part up to the last '*' covers every longer part as well.               *)
(* Completeness: no way of cutting the text lets that '*' swallow less     *)
(* than it does now.  That the loop comes to an end takes the result from  *)
(* its last position back to its first.                                    *)
(*                                                                         *)
(* At the end, the same of the loop that Glob runs step by step, and that  *)
(* it stays inside its arguments.                                          *)
(***************************************************************************)
EXTENDS Glob, WellFoundedInduction, TLAPS

-----------------------------------------------------------------------------
(* Smallest and largest numbers.                                           *)

Below == {ab \in Nat \X Nat : ab[1] < ab[2]}

LEMMA BelowIsWellFounded == IsWellFoundedOn(Below, Nat)
BY NatLessThanWellFounded DEF OpToRel, Below

LEMMA SmallestOf ==
  ASSUME NEW S, S \subseteq Nat, S # {}
  PROVE  \E m \in S : \A n \in S : m <= n
<1>1. PICK m \in S : \A n \in S : ~(<<n, m>> \in Below)
  BY BelowIsWellFounded, WFMin
<1>2. ASSUME NEW n \in S PROVE m <= n
  <2>1. n \in Nat /\ m \in Nat
    OBVIOUS
  <2>2. n < m => <<n, m>> \in Below
    BY <2>1 DEF Below
  <2> QED BY <1>1, <2>1, <2>2
<1> QED BY <1>2

LEMMA LargestOf ==
  ASSUME NEW bound \in Nat, NEW S, S \subseteq 0 .. bound, S # {}
  PROVE  \E m \in S : \A n \in S : n <= m
<1> DEFINE T == {n \in Nat : \E m \in S : n + m = bound}
<1>1. T # {}
  <2>1. PICK m \in S : TRUE
    OBVIOUS
  <2>2. m \in Nat /\ bound - m \in Nat /\ (bound - m) + m = bound
    BY <2>1
  <2> QED BY <2>1, <2>2
<1>2. PICK k \in T : \A n \in T : k <= n
  BY <1>1, SmallestOf
<1>3. PICK m \in S : k + m = bound
  BY <1>2
<1>4. ASSUME NEW n \in S PROVE n <= m
  <2>1. n \in Nat /\ bound - n \in Nat /\ (bound - n) + n = bound /\ m \in Nat /\ k \in Nat
    BY <1>2
  <2>2. k <= bound - n
    BY <1>2, <2>1
  <2> QED BY <1>3, <2>1, <2>2
<1> QED BY <1>4
-----------------------------------------------------------------------------
(* The loop, one iteration at a time.                                      *)

Moved(pat, text, a) ==
  IF SameChar(pat, text, a) THEN Consumed(a)
  ELSE IF AtStar(pat, a) THEN StarOpened(a)
  ELSE Backtracked(a)

Ends(pat, text, a) ==
  a.str = Len(text) \/ (~SameChar(pat, text, a) /\ ~AtStar(pat, a) /\ a.star = -1)

Accepts(pat, text, a) == a.str = Len(text) /\ OnlyStarsLeft(pat, a)

Farther(a, b) == a.end < b.end \/ (a.end = b.end /\ a.p + a.str < b.p + b.str)

(* An iteration stays in bounds, and goes on: the last '*' swallows more,  *)
(* or more of the pattern and the text is used up.                         *)
LEMMA IterationAdvances ==
  ASSUME NEW pat, NEW text, Len(pat) \in Nat, Len(text) \in Nat,
         NEW a \in Position(pat, text), ~Ends(pat, text, a)
  PROVE  Moved(pat, text, a) \in Position(pat, text) /\ Farther(a, Moved(pat, text, a))
<1>1. /\ a.p \in 0 .. Len(pat) /\ a.str \in 0 .. Len(text) /\ a.star \in -1 .. Len(pat) - 1
      /\ a.end \in 0 .. Len(text) /\ a.end <= a.str /\ a.str < Len(text)
      /\ a = [p |-> a.p, str |-> a.str, star |-> a.star, end |-> a.end]
  BY DEF Position, Ends
<1>2. CASE SameChar(pat, text, a)
  <2>1. Moved(pat, text, a) = [p |-> a.p + 1, str |-> a.str + 1, star |-> a.star, end |-> a.end] /\ a.p < Len(pat)
    BY <1>1, <1>2 DEF Moved, Consumed, SameChar
  <2> QED BY <1>1, <2>1 DEF Position, Farther
<1>3. CASE ~SameChar(pat, text, a) /\ AtStar(pat, a)
  <2>1. Moved(pat, text, a) = [p |-> a.p + 1, str |-> a.str, star |-> a.p, end |-> a.str] /\ a.p < Len(pat)
    BY <1>1, <1>3 DEF Moved, StarOpened, AtStar
  <2> QED BY <1>1, <2>1 DEF Position, Farther
<1>4. CASE ~SameChar(pat, text, a) /\ ~AtStar(pat, a)
  <2>1. Moved(pat, text, a) = [p |-> a.star + 1, str |-> a.end + 1, star |-> a.star, end |-> a.end + 1] /\ a.star # -1
    BY <1>1, <1>4 DEF Moved, Backtracked, Ends
  <2> QED BY <1>1, <2>1 DEF Position, Farther
<1> QED BY <1>2, <1>3, <1>4

(* So the loop ends: of any positions there is one that no iteration leads *)
(* from to another of them.                                                *)
LEMMA LastPosition ==
  ASSUME NEW pat, NEW text, Len(pat) \in Nat, Len(text) \in Nat,
         NEW T, T \subseteq Position(pat, text), T # {}
  PROVE  \E a \in T : Ends(pat, text, a) \/ Moved(pat, text, a) \notin T
<1> DEFINE ends == {a.end : a \in T}
<1>0. \A a \in T : /\ a.end \in 0 .. Len(text) /\ a.p \in Nat /\ a.str \in Nat
                   /\ a.p + a.str \in 0 .. Len(pat) + Len(text)
  BY DEF Position
<1>1. PICK e \in ends : \A f \in ends : f <= e
  <2>1. ends \subseteq 0 .. Len(text) /\ ends # {}
    BY <1>0
  <2> HIDE DEF ends
  <2> QED BY <2>1, LargestOf
<1> DEFINE sums == {a.p + a.str : a \in {b \in T : b.end = e}}
<1>2. PICK k \in sums : \A l \in sums : l <= k
  <2>1. sums \subseteq 0 .. Len(pat) + Len(text)
    BY <1>0
  <2>2. sums # {}
    BY <1>1
  <2>3. Len(pat) + Len(text) \in Nat
    OBVIOUS
  <2> HIDE DEF sums
  <2> QED BY <2>1, <2>2, <2>3, LargestOf
<1>3. PICK a \in T : a.end = e /\ a.p + a.str = k
  BY <1>2
<1>4. ASSUME ~Ends(pat, text, a), Moved(pat, text, a) \in T PROVE FALSE
  <2> DEFINE b == Moved(pat, text, a)
  <2>1. b \in T /\ Farther(a, b)
    BY <1>4, IterationAdvances
  <2>2. b.end <= e
    BY <1>1, <2>1
  <2>3. b.end = e => b.p + b.str <= k
    BY <1>2, <2>1
  <2>4. b.end \in Nat /\ a.end \in Nat /\ b.p + b.str \in Nat /\ a.p + a.str \in Nat
    <3>1. \A x \in T : x.end \in Nat /\ x.p + x.str \in Nat
      BY <1>0
    <3> HIDE DEF b
    <3> QED BY <2>1, <3>1
  <2>5. a.end = e /\ a.p + a.str = k
    BY <1>3
  <2> HIDE DEF b, ends, sums
  <2> QED BY <2>1, <2>2, <2>3, <2>4, <2>5 DEF Farther
<1> QED BY <1>3, <1>4

(* MatchGlob is a recursive function; a walk through the loop that ends    *)
(* well shows that there is one.                                           *)
Loop(pat, text, run) ==
  [a \in Position(pat, text) |->
     IF a.str = Len(text) THEN OnlyStarsLeft(pat, a)
     ELSE IF SameChar(pat, text, a) THEN run[Consumed(a)]
     ELSE IF AtStar(pat, a) THEN run[StarOpened(a)]
     ELSE a.star # -1 /\ run[Backtracked(a)]]

IsWalk(pat, text, n, t) ==
  /\ \A i \in 0 .. n - 1 : ~Ends(pat, text, t[i]) /\ t[i + 1] = Moved(pat, text, t[i])
  /\ Accepts(pat, text, t[n])

Walkable(pat, text, a) ==
  \E n \in Nat : \E t \in [0 .. n -> Position(pat, text)] : t[0] = a /\ IsWalk(pat, text, n, t)

LEMMA WalkAtEnd ==
  ASSUME NEW pat, NEW text, NEW a \in Position(pat, text), Ends(pat, text, a)
  PROVE  Walkable(pat, text, a) <=> Accepts(pat, text, a)
<1>1. ASSUME Walkable(pat, text, a) PROVE Accepts(pat, text, a)
  <2>1. PICK n \in Nat : \E t \in [0 .. n -> Position(pat, text)] : t[0] = a /\ IsWalk(pat, text, n, t)
    BY <1>1 DEF Walkable
  <2>2. PICK t \in [0 .. n -> Position(pat, text)] : t[0] = a /\ IsWalk(pat, text, n, t)
    BY <2>1
  <2>3. n = 0
    <3>1. ASSUME n # 0 PROVE FALSE
      <4>1. 0 \in 0 .. n - 1
        BY <3>1
      <4> QED BY <2>2, <4>1 DEF IsWalk
    <3> QED BY <3>1
  <2> QED BY <2>2, <2>3 DEF IsWalk
<1>2. ASSUME Accepts(pat, text, a) PROVE Walkable(pat, text, a)
  <2> DEFINE t == [i \in 0 .. 0 |-> a]
  <2>1. t \in [0 .. 0 -> Position(pat, text)] /\ t[0] = a
    OBVIOUS
  <2>2. IsWalk(pat, text, 0, t)
    BY <1>2, <2>1 DEF IsWalk
  <2> QED BY <2>1, <2>2 DEF Walkable
<1> QED BY <1>1, <1>2

LEMMA WalkGoesOn ==
  ASSUME NEW pat, NEW text, NEW a \in Position(pat, text), ~Ends(pat, text, a)
  PROVE  Walkable(pat, text, a) <=> Walkable(pat, text, Moved(pat, text, a))
<1> DEFINE b == Moved(pat, text, a)
<1>1. ASSUME Walkable(pat, text, a) PROVE Walkable(pat, text, b)
  <2>1. PICK n \in Nat : \E t \in [0 .. n -> Position(pat, text)] : t[0] = a /\ IsWalk(pat, text, n, t)
    BY <1>1 DEF Walkable
  <2>2. PICK t \in [0 .. n -> Position(pat, text)] : t[0] = a /\ IsWalk(pat, text, n, t)
    BY <2>1
  <2>3. n # 0
    BY <2>2 DEF IsWalk, Accepts, Ends
  <2> DEFINE u == [i \in 0 .. n - 1 |-> t[i + 1]]
  <2>4. n - 1 \in Nat /\ u \in [0 .. n - 1 -> Position(pat, text)] /\ 0 \in 0 .. n - 1 /\ n - 1 \in 0 .. n - 1
    BY <2>3
  <2>5. u[0] = b
    BY <2>2, <2>4 DEF IsWalk
  <2>6. IsWalk(pat, text, n - 1, u)
    <3>1. u[n - 1] = t[n]
      BY <2>4
    <3>2. ASSUME NEW i \in 0 .. (n - 1) - 1
          PROVE  ~Ends(pat, text, u[i]) /\ u[i + 1] = Moved(pat, text, u[i])
      <4>1. i + 1 \in 0 .. n - 1 /\ i \in 0 .. n - 1 /\ u[i] = t[i + 1] /\ u[i + 1] = t[(i + 1) + 1]
        BY <2>4
      <4> HIDE DEF u
      <4> QED BY <2>2, <4>1 DEF IsWalk
    <3> HIDE DEF u
    <3> QED BY <2>2, <3>1, <3>2 DEF IsWalk
  <2> HIDE DEF u, b
  <2> QED BY <2>4, <2>5, <2>6 DEF Walkable
<1>2. ASSUME Walkable(pat, text, b) PROVE Walkable(pat, text, a)
  <2>1. PICK n \in Nat : \E t \in [0 .. n -> Position(pat, text)] : t[0] = b /\ IsWalk(pat, text, n, t)
    BY <1>2 DEF Walkable
  <2>2. PICK t \in [0 .. n -> Position(pat, text)] : t[0] = b /\ IsWalk(pat, text, n, t)
    BY <2>1
  <2> DEFINE u == [i \in 0 .. n + 1 |-> IF i = 0 THEN a ELSE t[i - 1]]
  <2>3. n + 1 \in Nat /\ u \in [0 .. n + 1 -> Position(pat, text)] /\ u[0] = a
    OBVIOUS
  <2>4. IsWalk(pat, text, n + 1, u)
    <3>1. u[n + 1] = t[n]
      OBVIOUS
    <3>2. ASSUME NEW i \in 0 .. (n + 1) - 1
          PROVE  ~Ends(pat, text, u[i]) /\ u[i + 1] = Moved(pat, text, u[i])
      <4>1. CASE i = 0
        <5>1. u[i] = a /\ u[i + 1] = b
          BY <2>2, <4>1
        <5> QED BY <5>1
      <4>2. CASE i # 0
        <5>1. i - 1 \in 0 .. n - 1 /\ u[i] = t[i - 1] /\ u[i + 1] = t[(i - 1) + 1]
          BY <4>2
        <5> HIDE DEF u
        <5> QED BY <2>2, <5>1 DEF IsWalk
      <4> QED BY <4>1, <4>2
    <3> HIDE DEF u
    <3> QED BY <2>2, <3>1, <3>2 DEF IsWalk
  <2> HIDE DEF u, b
  <2> QED BY <2>3, <2>4 DEF Walkable
<1> HIDE DEF b
<1> QED BY <1>1, <1>2 DEF b

(* MatchGlob, unfolded once: what it says at a position, it says at the    *)
(* next one.                                                               *)
Unfolds(pat, text, run) ==
  \A a \in Position(pat, text) :
    /\ Ends(pat, text, a) => (run[a] <=> Accepts(pat, text, a))
    /\ ~Ends(pat, text, a) => (run[a] <=> run[Moved(pat, text, a)])

LEMMA MatchGlobUnfolds ==
  ASSUME NEW pat, NEW text, Len(pat) \in Nat, Len(text) \in Nat
  PROVE  \E run : Unfolds(pat, text, run) /\ (MatchGlob(pat, text) <=> run[Start])
<1> DEFINE walk == [a \in Position(pat, text) |-> Walkable(pat, text, a)]
<1>1. walk = Loop(pat, text, walk)
  <2>1. ASSUME NEW a \in Position(pat, text) PROVE walk[a] = Loop(pat, text, walk)[a]
    <3>1. walk[a] \in BOOLEAN
      BY DEF Walkable
    <3>2. CASE Ends(pat, text, a)
      <4>1. walk[a] <=> Accepts(pat, text, a)
        BY <3>2, WalkAtEnd
      <4> HIDE DEF walk
      <4> QED BY <3>1, <3>2, <4>1 DEF Loop, Ends, Accepts, OnlyStarsLeft
    <3>3. CASE ~Ends(pat, text, a)
      <4>1. Moved(pat, text, a) \in Position(pat, text)
        BY <3>3, IterationAdvances
      <4>2. walk[a] <=> walk[Moved(pat, text, a)]
        BY <3>3, <4>1, WalkGoesOn
      <4>3. walk[Moved(pat, text, a)] \in BOOLEAN
        BY <4>1 DEF Walkable
      <4> HIDE DEF walk
      <4>4. Loop(pat, text, walk)[a] = walk[Moved(pat, text, a)]
        BY <3>3, <4>3 DEF Loop, Ends, Moved
      <4> QED BY <3>1, <4>2, <4>3, <4>4
    <3> QED BY <3>2, <3>3
  <2> QED BY <2>1 DEF Loop
<1> DEFINE run == CHOOSE f : f = Loop(pat, text, f)
<1>2. run = Loop(pat, text, run)
  <2> HIDE DEF walk
  <2> QED BY <1>1
<1>3. MatchGlob(pat, text) = run[Start]
  BY DEF MatchGlob, Loop
<1>4. Unfolds(pat, text, run)
  <2> HIDE DEF run
  <2> SUFFICES ASSUME NEW a \in Position(pat, text)
               PROVE  /\ Ends(pat, text, a) => (run[a] <=> Accepts(pat, text, a))
                      /\ ~Ends(pat, text, a) => (run[a] <=> run[Moved(pat, text, a)])
    BY DEF Unfolds
  <2>1. run[a] = IF a.str = Len(text) THEN OnlyStarsLeft(pat, a)
                 ELSE IF SameChar(pat, text, a) THEN run[Consumed(a)]
                 ELSE IF AtStar(pat, a) THEN run[StarOpened(a)]
                 ELSE a.star # -1 /\ run[Backtracked(a)]
    BY <1>2 DEF Loop
  <2> QED BY <2>1 DEF Ends, Accepts, Moved
<1> HIDE DEF run
<1> QED BY <1>3, <1>4

-----------------------------------------------------------------------------
(* Coverings.                                                              *)

(* What a cut of a longer prefix is: one of the shorter prefix with one    *)
(* more piece.                                                             *)
LEMMA Extend ==
  ASSUME NEW pat, NEW text, NEW n \in Nat, NEW k \in Nat, NEW m \in Nat,
         Covers(pat, n, text, k), k <= m,
         Fits(pat, n + 1, text, k, m)
  PROVE  Covers(pat, n + 1, text, m)
<1>1. PICK cut \in [0 .. n -> 0 .. k] :
        /\ cut[0] = 0 /\ cut[n] = k
        /\ NonDecreasing(cut, n)
        /\ \A i \in 1 .. n : Fits(pat, i, text, cut[i - 1], cut[i])
  BY DEF Covers, Cuts
<1> DEFINE new == [i \in 0 .. n + 1 |-> IF i = n + 1 THEN m ELSE cut[i]]
<1>2. new \in [0 .. n + 1 -> 0 .. m]
  BY <1>1
<1>3. new[0] = 0 /\ new[n + 1] = m
  BY <1>1
<1>4. NonDecreasing(new, n + 1)
  BY <1>1 DEF NonDecreasing
<1>5. \A i \in 1 .. n + 1 : Fits(pat, i, text, new[i - 1], new[i])
  <2> TAKE i \in 1 .. n + 1
  <2>1. CASE i = n + 1
    <3>1. new[i - 1] = k /\ new[i] = m
      BY <1>1, <2>1
    <3> QED BY <2>1, <3>1
  <2>2. CASE i # n + 1
    <3>1. i \in 1 .. n /\ new[i - 1] = cut[i - 1] /\ new[i] = cut[i]
      BY <2>2
    <3> QED BY <1>1, <3>1
  <2> QED BY <2>1, <2>2
<1>6. new \in Cuts(pat, n + 1, text, m)
  BY <1>2, <1>3, <1>4, <1>5 DEF Cuts
<1> QED BY <1>6 DEF Covers

(* Trailing stars cover nothing.                                           *)
LEMMA TrailingStars ==
  ASSUME NEW pat, NEW text, NEW n \in Nat, NEW k \in Nat, NEW len \in Nat,
         n <= len, Covers(pat, n, text, k),
         \A i \in (n + 1) .. len : pat[i] = Star
  PROVE  Covers(pat, len, text, k)
<1>1. PICK cut \in [0 .. n -> 0 .. k] :
        /\ cut[0] = 0 /\ cut[n] = k
        /\ NonDecreasing(cut, n)
        /\ \A i \in 1 .. n : Fits(pat, i, text, cut[i - 1], cut[i])
  BY DEF Covers, Cuts
<1> DEFINE new == [i \in 0 .. len |-> IF i > n THEN k ELSE cut[i]]
<1>2. new \in [0 .. len -> 0 .. k]
  BY <1>1
<1>3. new[0] = 0 /\ new[len] = k
  BY <1>1
<1>4. NonDecreasing(new, len)
  BY <1>1 DEF NonDecreasing
<1>5. \A i \in 1 .. len : Fits(pat, i, text, new[i - 1], new[i])
  <2> TAKE i \in 1 .. len
  <2>1. CASE i > n
    BY <2>1 DEF Fits
  <2>2. CASE ~(i > n)
    <3>1. i \in 1 .. n /\ new[i - 1] = cut[i - 1] /\ new[i] = cut[i]
      BY <2>2
    <3> QED BY <1>1, <3>1
  <2> QED BY <2>1, <2>2
<1>6. new \in Cuts(pat, len, text, k)
  BY <1>2, <1>3, <1>4, <1>5 DEF Cuts
<1> QED BY <1>6 DEF Covers

-----------------------------------------------------------------------------
(* Soundness.                                                              *)

SoundAt(pat, text, a) ==
  /\ Covers(pat, a.p, text, a.str)
  /\ a.star # -1 => \A k \in a.end .. Len(text) : Covers(pat, a.star + 1, text, k)

LEMMA SoundStart ==
  ASSUME NEW pat, NEW text PROVE SoundAt(pat, text, Start)
<1> DEFINE cut == [i \in 0 .. 0 |-> 0]
<1>1. cut \in Cuts(pat, 0, text, 0)
  BY DEF Cuts, NonDecreasing
<1> HIDE DEF cut
<1> QED BY <1>1 DEF Covers, SoundAt, Start

LEMMA SoundIteration ==
  ASSUME NEW pat, NEW text, Len(pat) \in Nat, Len(text) \in Nat,
         NEW a \in Position(pat, text), ~Ends(pat, text, a), SoundAt(pat, text, a)
  PROVE  SoundAt(pat, text, Moved(pat, text, a))
<1>1. /\ a.p \in Nat /\ a.str \in Nat /\ a.star \in -1 .. Len(pat) - 1
      /\ a.end \in 0 .. Len(text) /\ a.end <= a.str /\ a.str < Len(text)
      /\ a = [p |-> a.p, str |-> a.str, star |-> a.star, end |-> a.end]
  BY DEF Position, Ends
<1>2. CASE SameChar(pat, text, a)
  <2>1. Moved(pat, text, a) = [p |-> a.p + 1, str |-> a.str + 1, star |-> a.star, end |-> a.end]
    BY <1>1, <1>2 DEF Moved, Consumed
  <2>2. Covers(pat, a.p + 1, text, a.str + 1)
    <3>1. Fits(pat, a.p + 1, text, a.str, a.str + 1)
      BY <1>1, <1>2 DEF SameChar, Fits
    <3>2. a.str + 1 \in Nat /\ a.str <= a.str + 1
      BY <1>1
    <3> QED BY <1>1, <3>1, <3>2, Extend DEF SoundAt
  <2> QED BY <2>1, <2>2 DEF SoundAt
<1>3. CASE ~SameChar(pat, text, a) /\ AtStar(pat, a)
  <2>1. Moved(pat, text, a) = [p |-> a.p + 1, str |-> a.str, star |-> a.p, end |-> a.str]
    BY <1>1, <1>3 DEF Moved, StarOpened
  <2>2. \A k \in a.str .. Len(text) : Covers(pat, a.p + 1, text, k)
    <3> TAKE k \in a.str .. Len(text)
    <3>1. Fits(pat, a.p + 1, text, a.str, k)
      BY <1>3 DEF AtStar, Fits
    <3>2. k \in Nat /\ a.str <= k
      BY <1>1
    <3> QED BY <1>1, <3>1, <3>2, Extend DEF SoundAt
  <2>3. a.str \in a.str .. Len(text)
    BY <1>1
  <2> QED BY <2>1, <2>2, <2>3 DEF SoundAt
<1>4. CASE ~SameChar(pat, text, a) /\ ~AtStar(pat, a)
  <2>1. Moved(pat, text, a) = [p |-> a.star + 1, str |-> a.end + 1, star |-> a.star, end |-> a.end + 1] /\ a.star # -1
    BY <1>1, <1>4 DEF Moved, Backtracked, Ends
  <2>2. a.end + 1 \in a.end .. Len(text) /\ \A k \in a.end + 1 .. Len(text) : k \in a.end .. Len(text)
    BY <1>1
  <2> QED BY <2>1, <2>2 DEF SoundAt
<1> QED BY <1>2, <1>3, <1>4

LEMMA SoundEnd ==
  ASSUME NEW pat, NEW text, Len(pat) \in Nat, Len(text) \in Nat,
         NEW a \in Position(pat, text), Accepts(pat, text, a), SoundAt(pat, text, a)
  PROVE  Matches(pat, text)
<1>1. a.str = Len(text) /\ a.p \in Nat /\ a.p <= Len(pat)
  BY DEF Accepts, Position
<1> QED BY <1>1, TrailingStars DEF Accepts, OnlyStarsLeft, SoundAt, Matches

LEMMA StartIsPosition ==
  ASSUME NEW pat, NEW text, Len(pat) \in Nat, Len(text) \in Nat
  PROVE  Start \in Position(pat, text)
BY DEF Start, Position

(* matchGlob accepts only what the pattern covers, whatever the pattern    *)
(* and the text.                                                           *)
THEOREM MatchGlobIsSound ==
  ASSUME NEW pat, NEW text, Len(pat) \in Nat, Len(text) \in Nat, MatchGlob(pat, text)
  PROVE  Matches(pat, text)
<1>1. PICK run : Unfolds(pat, text, run) /\ run[Start]
  BY MatchGlobUnfolds
<1> DEFINE T == {a \in Position(pat, text) : run[a] /\ SoundAt(pat, text, a)}
<1>2. Start \in T
  BY <1>1, SoundStart, StartIsPosition
<1>3. PICK a \in T : Ends(pat, text, a) \/ Moved(pat, text, a) \notin T
  BY <1>2, LastPosition
<1>4. CASE Ends(pat, text, a)
  <2>1. Accepts(pat, text, a)
    BY <1>1, <1>3, <1>4 DEF Unfolds
  <2> QED BY <1>3, <2>1, SoundEnd
<1>5. CASE ~Ends(pat, text, a)
  <2>1. run[Moved(pat, text, a)]
    BY <1>1, <1>3, <1>5 DEF Unfolds
  <2>2. Moved(pat, text, a) \in Position(pat, text) /\ SoundAt(pat, text, Moved(pat, text, a))
    BY <1>3, <1>5, IterationAdvances, SoundIteration
  <2> QED BY <1>3, <1>5, <2>1, <2>2
<1> QED BY <1>4, <1>5

-----------------------------------------------------------------------------
(* Completeness.                                                           *)

Respects(a, cut) ==
  /\ a.star = -1 => cut[a.p] = a.str
  /\ a.star # -1 =>
       /\ cut[a.star + 1] >= a.end
       /\ cut[a.p] >= a.str
       /\ cut[a.star + 1] = a.end => cut[a.p] = a.str

CompleteAt(pat, text, a) == \A cut \in Cuts(pat, Len(pat), text, Len(text)) : Respects(a, cut)

LEMMA CompleteStart ==
  ASSUME NEW pat, NEW text PROVE CompleteAt(pat, text, Start)
BY DEF CompleteAt, Cuts, Respects, Start

(* A cut gives the character the loop compares a piece of its own.         *)
LEMMA NextPiece ==
  ASSUME NEW pat, NEW text, Len(pat) \in Nat, Len(text) \in Nat,
         NEW a \in Position(pat, text), a.p < Len(pat),
         NEW cut \in Cuts(pat, Len(pat), text, Len(text))
  PROVE  /\ a.p + 1 \in 1 .. Len(pat)
         /\ cut[a.p] \in Nat /\ cut[a.p + 1] \in 0 .. Len(text)
         /\ cut[a.p] <= cut[a.p + 1]
         /\ Fits(pat, a.p + 1, text, cut[a.p], cut[a.p + 1])
<1>1. a.p \in 0 .. Len(pat) /\ a.p + 1 \in 1 .. Len(pat) /\ a.p + 1 \in 0 .. Len(pat) /\ (a.p + 1) - 1 = a.p
  BY DEF Position
<1>2. cut \in [0 .. Len(pat) -> 0 .. Len(text)]
  BY DEF Cuts
<1>3. cut[a.p] <= cut[a.p + 1]
  BY <1>1 DEF Cuts, NonDecreasing
<1>4. Fits(pat, a.p + 1, text, cut[(a.p + 1) - 1], cut[a.p + 1])
  BY <1>1 DEF Cuts
<1> QED BY <1>1, <1>2, <1>3, <1>4

(* The comparison that fails, and the end of the pattern, rule out that    *)
(* the last '*' stops where it stops now.                                  *)
LEMMA Mismatch ==
  ASSUME NEW pat, NEW text, Len(pat) \in Nat, Len(text) \in Nat,
         NEW a \in Position(pat, text), a.str # Len(text),
         ~SameChar(pat, text, a), ~AtStar(pat, a),
         NEW cut \in Cuts(pat, Len(pat), text, Len(text))
  PROVE  cut[a.p] # a.str
<1>1. a.p \in 0 .. Len(pat) /\ a.str \in Nat
  BY DEF Position
<1>2. CASE a.p = Len(pat)
  BY <1>1, <1>2 DEF Cuts
<1>3. CASE a.p < Len(pat)
  <2>1. Fits(pat, a.p + 1, text, cut[a.p], cut[a.p + 1])
    BY <1>3, NextPiece
  <2>2. pat[a.p + 1] # Star /\ pat[a.p + 1] \notin {QMark, text[a.str + 1]}
    BY <1>1, <1>3 DEF SameChar, AtStar
  <2> QED BY <2>1, <2>2 DEF Fits
<1> QED BY <1>1, <1>2, <1>3

LEMMA CompleteIteration ==
  ASSUME NEW pat, NEW text, Len(pat) \in Nat, Len(text) \in Nat, NoStarIn(text),
         NEW a \in Position(pat, text), ~Ends(pat, text, a), CompleteAt(pat, text, a)
  PROVE  CompleteAt(pat, text, Moved(pat, text, a))
<1> SUFFICES ASSUME NEW cut \in Cuts(pat, Len(pat), text, Len(text))
             PROVE  Respects(Moved(pat, text, a), cut)
  BY DEF CompleteAt
<1>0. Respects(a, cut)
  BY DEF CompleteAt
<1>1. /\ a.p \in 0 .. Len(pat) /\ a.str \in Nat /\ a.star \in -1 .. Len(pat) - 1
      /\ a.end \in 0 .. Len(text) /\ a.end <= a.str /\ a.str < Len(text)
      /\ a = [p |-> a.p, str |-> a.str, star |-> a.star, end |-> a.end]
  BY DEF Position, Ends
<1>2. cut \in [0 .. Len(pat) -> 0 .. Len(text)]
  BY DEF Cuts
<1>3. CASE SameChar(pat, text, a)
  <2>1. Moved(pat, text, a) = [p |-> a.p + 1, str |-> a.str + 1, star |-> a.star, end |-> a.end] /\ a.p < Len(pat)
    BY <1>1, <1>3 DEF Moved, Consumed, SameChar
  <2>2. pat[a.p + 1] # Star
    <3>1. a.str + 1 \in 1 .. Len(text)
      BY <1>1
    <3> QED BY <1>3, <3>1, WildcardAssumption DEF NoStarIn, SameChar
  <2>3. cut[a.p] \in Nat /\ cut[a.p + 1] = cut[a.p] + 1
    BY <2>1, <2>2, NextPiece DEF Fits
  <2> QED BY <1>0, <1>1, <1>2, <2>1, <2>3 DEF Respects
<1>4. CASE ~SameChar(pat, text, a) /\ AtStar(pat, a)
  <2>1. Moved(pat, text, a) = [p |-> a.p + 1, str |-> a.str, star |-> a.p, end |-> a.str] /\ a.p < Len(pat)
    BY <1>1, <1>4 DEF Moved, StarOpened, AtStar
  <2>2. cut[a.p] \in Nat /\ cut[a.p + 1] \in Nat /\ cut[a.p] <= cut[a.p + 1]
    BY <2>1, NextPiece
  <2>3. cut[a.p] >= a.str
    BY <1>0, <1>1, <2>2 DEF Respects
  <2> QED BY <1>1, <2>1, <2>2, <2>3 DEF Respects
<1>5. CASE ~SameChar(pat, text, a) /\ ~AtStar(pat, a)
  <2>1. Moved(pat, text, a) = [p |-> a.star + 1, str |-> a.end + 1, star |-> a.star, end |-> a.end + 1] /\ a.star # -1
    BY <1>1, <1>5 DEF Moved, Backtracked, Ends
  <2>2. cut[a.p] # a.str
    BY <1>1, <1>5, Mismatch
  <2>3. cut[a.star + 1] \in Nat
    BY <1>1, <1>2, <2>1
  <2> QED BY <1>0, <1>1, <2>1, <2>2, <2>3 DEF Respects
<1> QED BY <1>3, <1>4, <1>5

LEMMA CompleteEnd ==
  ASSUME NEW pat, NEW text, Len(pat) \in Nat, Len(text) \in Nat,
         NEW a \in Position(pat, text), Ends(pat, text, a), ~Accepts(pat, text, a), CompleteAt(pat, text, a)
  PROVE  ~Matches(pat, text)
<1> SUFFICES ASSUME NEW cut \in Cuts(pat, Len(pat), text, Len(text)) PROVE FALSE
  BY DEF Matches, Covers
<1>0. Respects(a, cut)
  BY DEF CompleteAt
<1>1. a.p \in 0 .. Len(pat) /\ a.str \in Nat /\ a.star \in -1 .. Len(pat) - 1
  BY DEF Position
<1>2. cut \in [0 .. Len(pat) -> 0 .. Len(text)]
  BY DEF Cuts
<1>3. CASE a.str = Len(text)
  <2>1. PICK i \in (a.p + 1) .. Len(pat) : pat[i] # Star
    BY <1>3 DEF Accepts, OnlyStarsLeft
  <2>2. i \in 1 .. Len(pat) /\ i \in 0 .. Len(pat) /\ i - 1 \in 0 .. Len(pat) /\ a.p <= i - 1
    BY <1>1, <2>1
  <2>3. cut[a.p] >= Len(text)
    BY <1>0, <1>1, <1>2, <1>3 DEF Respects
  <2>4. cut[a.p] <= cut[i - 1]
    BY <1>1, <2>2 DEF Cuts, NonDecreasing
  <2>5. cut[i] = cut[i - 1] + 1
    <3>1. Fits(pat, i, text, cut[i - 1], cut[i])
      BY <2>2 DEF Cuts
    <3> QED BY <2>1, <3>1 DEF Fits
  <2>6. cut[i] \in 0 .. Len(text) /\ cut[i - 1] \in 0 .. Len(text) /\ cut[a.p] \in 0 .. Len(text)
    BY <1>1, <1>2, <2>2
  <2> QED BY <2>3, <2>4, <2>5, <2>6
<1>4. CASE a.str # Len(text)
  <2>1. ~SameChar(pat, text, a) /\ ~AtStar(pat, a) /\ a.star = -1
    BY <1>4 DEF Ends
  <2> QED BY <1>0, <1>4, <2>1, Mismatch DEF Respects
<1> QED BY <1>3, <1>4

(* matchGlob accepts everything the pattern covers in a text without '*',  *)
(* whatever the pattern: remembering only the last '*' is enough.          *)
THEOREM MatchGlobIsComplete ==
  ASSUME NEW pat, NEW text, Len(pat) \in Nat, Len(text) \in Nat,
         NoStarIn(text), Matches(pat, text)
  PROVE  MatchGlob(pat, text)
<1> SUFFICES ASSUME ~MatchGlob(pat, text) PROVE FALSE
  OBVIOUS
<1>1. PICK run : Unfolds(pat, text, run) /\ ~run[Start]
  BY MatchGlobUnfolds
<1> DEFINE T == {a \in Position(pat, text) : ~run[a] /\ CompleteAt(pat, text, a)}
<1>2. Start \in T
  BY <1>1, CompleteStart, StartIsPosition
<1>3. PICK a \in T : Ends(pat, text, a) \/ Moved(pat, text, a) \notin T
  BY <1>2, LastPosition
<1>4. CASE Ends(pat, text, a)
  <2>1. ~Accepts(pat, text, a)
    BY <1>1, <1>3, <1>4 DEF Unfolds
  <2> QED BY <1>3, <1>4, <2>1, CompleteEnd
<1>5. CASE ~Ends(pat, text, a)
  <2>1. ~run[Moved(pat, text, a)]
    BY <1>1, <1>3, <1>5 DEF Unfolds
  <2>2. Moved(pat, text, a) \in Position(pat, text) /\ CompleteAt(pat, text, Moved(pat, text, a))
    BY <1>3, <1>5, IterationAdvances, CompleteIteration
  <2> QED BY <1>3, <1>5, <2>1, <2>2
<1> QED BY <1>4, <1>5
-----------------------------------------------------------------------------
(* The loop as steps: a call stays in bounds, and decides MatchGlob.       *)

(* The recursive form says at the loop's position what it says of the      *)
(* whole call, and the call has returned that.                             *)
Agrees ==
  \E run :
    /\ Unfolds(pattern, s, run)
    /\ MatchGlob(pattern, s) <=> run[Start]
    /\ matched = "unknown" => (run[at] <=> run[Start])
    /\ matched # "unknown" => ((matched = "yes") <=> run[Start])

GlobInv == CallTypeOK /\ Agrees

(* Lengths of the arguments are natural numbers.                           *)
LEMMA Lengths == ASSUME CallTypeOK PROVE Len(pattern) \in Nat /\ Len(s) \in Nat
BY ArgumentAssumption DEF CallTypeOK

(* The three steps that go on are one iteration, the other two return.     *)
LEMMA Iteration ==
  ASSUME CallTypeOK, Consume \/ OpenStar \/ Backtrack
  PROVE  /\ ~Ends(pattern, s, at) /\ at' = Moved(pattern, s, at)
         /\ UNCHANGED <<pattern, s, matched>> /\ matched = "unknown"
<1>1. at.str # Len(s)
  BY Lengths DEF Consume, OpenStar, Backtrack, More
<1> QED BY <1>1 DEF Consume, OpenStar, Backtrack, More, Ends, Moved

LEMMA Return ==
  ASSUME CallTypeOK, Reject \/ Finish
  PROVE  /\ Ends(pattern, s, at)
         /\ matched' = IF Accepts(pattern, s, at) THEN "yes" ELSE "no"
         /\ UNCHANGED <<pattern, s, at>> /\ matched = "unknown"
<1>1. CASE Reject
  <2>1. at.str # Len(s)
    BY <1>1, Lengths DEF Reject, More
  <2> QED BY <1>1, <2>1 DEF Reject, More, Ends, Accepts
<1>2. CASE Finish
  BY <1>2 DEF Finish, Ends, Accepts
<1> QED BY <1>1, <1>2

LEMMA StepOfLoop ==
  ASSUME [CallNext]_callVars
  PROVE  (Consume \/ OpenStar \/ Backtrack) \/ (Reject \/ Finish) \/ UNCHANGED callVars
BY DEF CallNext

LEMMA GlobInit == CallInit => GlobInv
<1> SUFFICES ASSUME CallInit PROVE GlobInv
  OBVIOUS
<1>1. Len(pattern) \in Nat /\ Len(s) \in Nat
  BY ArgumentAssumption DEF CallInit
<1>2. CallTypeOK
  BY <1>1, StartIsPosition DEF CallInit, CallTypeOK
<1>3. PICK run : Unfolds(pattern, s, run) /\ (MatchGlob(pattern, s) <=> run[Start])
  BY <1>1, MatchGlobUnfolds
<1>4. matched = "unknown" /\ at = Start
  BY DEF CallInit
<1> QED BY <1>2, <1>3, <1>4 DEF GlobInv, Agrees

LEMMA GlobStep == GlobInv /\ [CallNext]_callVars => GlobInv'
<1> SUFFICES ASSUME GlobInv, [CallNext]_callVars PROVE GlobInv'
  OBVIOUS
<1>1. CallTypeOK /\ Len(pattern) \in Nat /\ Len(s) \in Nat
  BY Lengths DEF GlobInv
<1>2. at \in Position(pattern, s)
  BY <1>1 DEF CallTypeOK
<1>3. PICK run : /\ Unfolds(pattern, s, run)
                 /\ MatchGlob(pattern, s) <=> run[Start]
                 /\ matched = "unknown" => (run[at] <=> run[Start])
                 /\ matched # "unknown" => ((matched = "yes") <=> run[Start])
  BY DEF GlobInv, Agrees
<1>4. CASE Consume \/ OpenStar \/ Backtrack
  <2>1. /\ ~Ends(pattern, s, at) /\ at' = Moved(pattern, s, at)
        /\ pattern' = pattern /\ s' = s /\ matched' = matched /\ matched = "unknown"
    BY <1>1, <1>4, Iteration
  <2>2. CallTypeOK'
    BY <1>1, <1>2, <2>1, IterationAdvances DEF CallTypeOK
  <2>3. run[at'] <=> run[Start]
    BY <1>2, <1>3, <2>1 DEF Unfolds
  <2> QED BY <1>3, <2>1, <2>2, <2>3 DEF GlobInv, Agrees
<1>5. CASE Reject \/ Finish
  <2>1. /\ Ends(pattern, s, at)
        /\ matched' = IF Accepts(pattern, s, at) THEN "yes" ELSE "no"
        /\ pattern' = pattern /\ s' = s /\ at' = at /\ matched = "unknown"
    BY <1>1, <1>5, Return
  <2>2. CallTypeOK'
    BY <1>1, <2>1 DEF CallTypeOK
  <2>3. Accepts(pattern, s, at) <=> run[Start]
    BY <1>2, <1>3, <2>1 DEF Unfolds
  <2> QED BY <1>3, <2>1, <2>2, <2>3 DEF GlobInv, Agrees
<1>6. CASE UNCHANGED callVars
  BY <1>6, <1>1, <1>3 DEF callVars, GlobInv, Agrees, CallTypeOK
<1> QED BY <1>4, <1>5, <1>6, StepOfLoop

LEMMA GlobInvariant == Call => []GlobInv
BY GlobInit, GlobStep, PTL DEF Call

(* The loop never reads outside its arguments: no call of matchGlob        *)
(* panics with an index out of range.                                      *)
THEOREM IndexesAreSafe == Call => []CallTypeOK
<1>1. GlobInv => CallTypeOK
  BY DEF GlobInv
<1> QED BY <1>1, GlobInvariant, PTL

(* The recursive function that routing and signing call is the loop: what  *)
(* is proved of it holds of the steps.                                     *)
LEMMA LoopDecidesMatchGlob ==
  Call => [](matched # "unknown" => ((matched = "yes") <=> MatchGlob(pattern, s)))
<1>1. GlobInv => (matched # "unknown" => ((matched = "yes") <=> MatchGlob(pattern, s)))
  BY DEF GlobInv, Agrees
<1> QED BY <1>1, GlobInvariant, PTL

(* matchGlob accepts only what the pattern covers, whatever the pattern    *)
(* and the text.                                                           *)
THEOREM Sound == Call => []MatchIsSound
<1>1. GlobInv => MatchIsSound
  <2> SUFFICES ASSUME GlobInv, matched = "yes" PROVE Matches(pattern, s)
    BY DEF MatchIsSound
  <2>1. MatchGlob(pattern, s)
    BY DEF GlobInv, Agrees
  <2> QED BY <2>1, Lengths, MatchGlobIsSound DEF GlobInv
<1> QED BY <1>1, GlobInvariant, PTL

(* matchGlob accepts everything the pattern covers in a text without '*',  *)
(* whatever the pattern.                                                   *)
THEOREM Complete == Call => []MatchIsComplete
<1>1. GlobInv => MatchIsComplete
  <2> SUFFICES ASSUME GlobInv, matched = "no", NoStarIn(s), Matches(pattern, s) PROVE FALSE
    BY DEF MatchIsComplete
  <2>1. ~MatchGlob(pattern, s)
    BY DEF GlobInv, Agrees
  <2> QED BY <2>1, Lengths, MatchGlobIsComplete DEF GlobInv
<1> QED BY <1>1, GlobInvariant, PTL
=============================================================================
