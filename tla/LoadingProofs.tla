----------------------------- MODULE LoadingProofs -----------------------------
(***************************************************************************)
(* Proofs about what is made of the templates, for any shapes of           *)
(* properties, templates, seeds and saves, and for any resolver of values  *)
(* but in the last part, about references, which takes                     *)
(* ResolverAssumption and WrittenOutAssumption.                            *)
(***************************************************************************)
EXTENDS Loading, WellFoundedInduction, TLAPS

-----------------------------------------------------------------------------
(* Induction over an initial part of the numbers, and what is defined by   *)
(* going through a list.                                                   *)
Below == {ab \in Nat \X Nat : ab[1] < ab[2]}

LEMMA UpTo ==
  ASSUME NEW n \in Nat, NEW T, 0 \in T, \A i \in 1 .. n : i - 1 \in T => i \in T
  PROVE  \A i \in 0 .. n : i \in T
<1> DEFINE S == {i \in 0 .. n : i \notin T}
<1> SUFFICES ASSUME S # {} PROVE FALSE
  OBVIOUS
<1>1. S \subseteq Nat /\ IsWellFoundedOn(Below, Nat)
  BY NatLessThanWellFounded DEF OpToRel, Below
<1>2. PICK m \in S : \A k \in S : ~(<<k, m>> \in Below)
  <2> HIDE DEF S
  <2> QED BY <1>1, WFMin
<1>3. m \in 1 .. n
  <2>1. m \in Nat /\ m # 0 /\ m <= n
    BY <1>2
  <2> QED BY <2>1
<1>4. m - 1 \in Nat /\ <<m - 1, m>> \in Below /\ m - 1 \in 0 .. n
  BY <1>3 DEF Below
<1>5. m - 1 \notin S
  BY <1>2, <1>4
<1> QED BY <1>2, <1>3, <1>4, <1>5

(* One more value of such a definition.                                    *)
Grown(f, m, v) == [i \in 0 .. m |-> IF i < m THEN f[i] ELSE v]

LEMMA GrownHas ==
  ASSUME NEW m \in Nat, NEW f, NEW v
  PROVE  Grown(f, m, v)[m] = v /\ \A i \in 0 .. m - 1 : Grown(f, m, v)[i] = f[i]
<1>1. m \in 0 .. m /\ \A i \in 0 .. m - 1 : i \in 0 .. m /\ i < m
  OBVIOUS
<1> QED BY <1>1 DEF Grown

(* The files, parsed one after the other.                                  *)
ParsedNext(p, file) == IF p.ok THEN ParseOne(p, file) ELSE p

LEMMA ParseUnfolds ==
  ASSUME NEW fs, Len(fs) \in Nat
  PROVE  \E f : /\ f[0] = NothingParsed /\ f[Len(fs)] = Parse(fs)
                /\ \A n \in 1 .. Len(fs) : f[n] = ParsedNext(f[n - 1], fs[n])
<1> DEFINE N == Len(fs)
           Runs(k, f) == f[0] = NothingParsed /\ \A n \in 1 .. k : f[n] = ParsedNext(f[n - 1], fs[n])
           T == {k \in 0 .. N : \E f : Runs(k, f)}
           Eqn(f) == f = [n \in 0 .. N |-> IF n = 0 THEN NothingParsed ELSE ParsedNext(f[n - 1], fs[n])]
<1>0. N \in Nat
  OBVIOUS
<1> DEFINE g == CHOOSE f : Eqn(f)
<1>1. Parse(fs) = g[N]
  BY DEF Parse, ParsedNext
<1> HIDE DEF N, g
<1>2. 0 \in T
  <2> DEFINE f == [n \in {0} |-> NothingParsed]
  <2>1. f[0] = NothingParsed /\ 1 .. 0 = {} /\ 0 \in 0 .. N
    BY <1>0
  <2> HIDE DEF f
  <2> QED BY <2>1
<1>3. ASSUME NEW m \in 1 .. N, m - 1 \in T PROVE m \in T
  <2>1. PICK f : Runs(m - 1, f)
    BY <1>3
  <2>2. m \in Nat /\ m - 1 \in Nat /\ 0 \in 0 .. m - 1 /\ m - 1 \in 0 .. m - 1 /\ m \in 0 .. N
    BY <1>0
  <2> DEFINE h == Grown(f, m, ParsedNext(f[m - 1], fs[m]))
  <2>3. h[m] = ParsedNext(f[m - 1], fs[m]) /\ \A i \in 0 .. m - 1 : h[i] = f[i]
    BY <2>2, GrownHas
  <2> HIDE DEF h
  <2>4. ASSUME NEW i \in 1 .. m PROVE h[i] = ParsedNext(h[i - 1], fs[i])
    <3>1. i - 1 \in 0 .. m - 1 /\ (i = m \/ i \in 1 .. m - 1)
      BY <2>2
    <3>2. i \in 1 .. m - 1 => i \in 0 .. m - 1
      BY <2>2
    <3> QED BY <2>1, <2>3, <3>1, <3>2
  <2> QED BY <2>1, <2>2, <2>3, <2>4
<1>4. N \in T
  <2> HIDE DEF T
  <2>1. N \in 0 .. N
    BY <1>0
  <2> QED BY <1>0, <1>2, <1>3, <2>1, UpTo
<1>5. PICK f : Runs(N, f)
  BY <1>4
<1>6. \E e : Eqn(e)
  <2> DEFINE e == [n \in 0 .. N |-> f[n]]
  <2>1. \A n \in 0 .. N : n = 0 \/ (n # 0 /\ n \in 1 .. N /\ n - 1 \in 0 .. N)
    BY <1>0
  <2>2. \A n \in 0 .. N : f[n] = IF n = 0 THEN NothingParsed ELSE ParsedNext(e[n - 1], fs[n])
    BY <1>5, <2>1
  <2>3. e = [n \in 0 .. N |-> IF n = 0 THEN NothingParsed ELSE ParsedNext(e[n - 1], fs[n])]
    BY <2>2
  <2> HIDE DEF e
  <2> QED BY <2>3
<1>7. Eqn(g)
  BY <1>6 DEF g
<1>8. g[0] = NothingParsed /\ \A n \in 1 .. N : g[n] = ParsedNext(g[n - 1], fs[n])
  <2>1. 0 \in 0 .. N /\ \A n \in 1 .. N : n \in 0 .. N /\ n # 0
    BY <1>0
  <2>2. \A n \in 0 .. N : g[n] = IF n = 0 THEN NothingParsed ELSE ParsedNext(g[n - 1], fs[n])
    BY <1>7
  <2> QED BY <2>1, <2>2
<1> QED BY <1>1, <1>8 DEF N

(* A pass, one resource after the other, and the passes.                   *)
PassNext(b, r, types) == IF b.ok /\ r.type \in types THEN BuildOne(b, r) ELSE b

PassRun(f, start, rs, types) ==
  /\ f[0] = start /\ f[Len(rs)] = Pass(start, rs, types)
  /\ \A n \in 1 .. Len(rs) : f[n] = PassNext(f[n - 1], rs[n], types)

LEMMA PassUnfolds ==
  ASSUME NEW start, NEW rs, NEW types, Len(rs) \in Nat
  PROVE  \E f : PassRun(f, start, rs, types)
<1> DEFINE N == Len(rs)
           Runs(k, f) == f[0] = start /\ \A n \in 1 .. k : f[n] = PassNext(f[n - 1], rs[n], types)
           T == {k \in 0 .. N : \E f : Runs(k, f)}
           Eqn(f) == f = [n \in 0 .. N |-> IF n = 0 THEN start ELSE PassNext(f[n - 1], rs[n], types)]
<1>0. N \in Nat
  OBVIOUS
<1> DEFINE g == CHOOSE f : Eqn(f)
<1>1. Pass(start, rs, types) = g[N]
  BY DEF Pass, PassNext
<1> HIDE DEF N, g
<1>2. 0 \in T
  <2> DEFINE f == [n \in {0} |-> start]
  <2>1. f[0] = start /\ 1 .. 0 = {} /\ 0 \in 0 .. N
    BY <1>0
  <2> HIDE DEF f
  <2> QED BY <2>1
<1>3. ASSUME NEW m \in 1 .. N, m - 1 \in T PROVE m \in T
  <2>1. PICK f : Runs(m - 1, f)
    BY <1>3
  <2>2. m \in Nat /\ m - 1 \in Nat /\ 0 \in 0 .. m - 1 /\ m - 1 \in 0 .. m - 1 /\ m \in 0 .. N
    BY <1>0
  <2> DEFINE h == Grown(f, m, PassNext(f[m - 1], rs[m], types))
  <2>3. h[m] = PassNext(f[m - 1], rs[m], types) /\ \A i \in 0 .. m - 1 : h[i] = f[i]
    BY <2>2, GrownHas
  <2> HIDE DEF h
  <2>4. ASSUME NEW i \in 1 .. m PROVE h[i] = PassNext(h[i - 1], rs[i], types)
    <3>1. i - 1 \in 0 .. m - 1 /\ (i = m \/ i \in 1 .. m - 1)
      BY <2>2
    <3>2. i \in 1 .. m - 1 => i \in 0 .. m - 1
      BY <2>2
    <3> QED BY <2>1, <2>3, <3>1, <3>2
  <2> QED BY <2>1, <2>2, <2>3, <2>4
<1>4. N \in T
  <2> HIDE DEF T
  <2>1. N \in 0 .. N
    BY <1>0
  <2> QED BY <1>0, <1>2, <1>3, <2>1, UpTo
<1>5. PICK f : Runs(N, f)
  BY <1>4
<1>6. \E e : Eqn(e)
  <2> DEFINE e == [n \in 0 .. N |-> f[n]]
  <2>1. \A n \in 0 .. N : n = 0 \/ (n # 0 /\ n \in 1 .. N /\ n - 1 \in 0 .. N)
    BY <1>0
  <2>2. \A n \in 0 .. N : f[n] = IF n = 0 THEN start ELSE PassNext(e[n - 1], rs[n], types)
    BY <1>5, <2>1
  <2>3. e = [n \in 0 .. N |-> IF n = 0 THEN start ELSE PassNext(e[n - 1], rs[n], types)]
    BY <2>2
  <2> HIDE DEF e
  <2> QED BY <2>3
<1>7. Eqn(g)
  BY <1>6 DEF g
<1>8. g[0] = start /\ \A n \in 1 .. N : g[n] = PassNext(g[n - 1], rs[n], types)
  <2>1. 0 \in 0 .. N /\ \A n \in 1 .. N : n \in 0 .. N /\ n # 0
    BY <1>0
  <2>2. \A n \in 0 .. N : g[n] = IF n = 0 THEN start ELSE PassNext(g[n - 1], rs[n], types)
    BY <1>7
  <2> QED BY <2>1, <2>2
<1> QED BY <1>1, <1>8 DEF N, PassRun

AllRun(f, start, rs) ==
  /\ f[0] = start /\ f[7] = AllPasses(start, rs)
  /\ \A n \in 1 .. 7 : f[n] = Pass(f[n - 1], rs, Passes[n])

LEMMA AllPassesUnfold ==
  ASSUME NEW start, NEW rs
  PROVE  \E f : AllRun(f, start, rs)
<1> DEFINE N == Len(Passes)
           Runs(k, f) == f[0] = start /\ \A n \in 1 .. k : f[n] = Pass(f[n - 1], rs, Passes[n])
           T == {k \in 0 .. N : \E f : Runs(k, f)}
           Eqn(f) == f = [n \in 0 .. N |-> IF n = 0 THEN start ELSE Pass(f[n - 1], rs, Passes[n])]
<1>0. N = 7
  BY DEF Passes
<1> DEFINE g == CHOOSE f : Eqn(f)
<1>1. AllPasses(start, rs) = g[N]
  BY DEF AllPasses
<1> HIDE DEF N, g
<1>2. 0 \in T
  <2> DEFINE f == [n \in {0} |-> start]
  <2>1. f[0] = start /\ 1 .. 0 = {} /\ 0 \in 0 .. N
    BY <1>0
  <2> HIDE DEF f
  <2> QED BY <2>1
<1>3. ASSUME NEW m \in 1 .. N, m - 1 \in T PROVE m \in T
  <2>1. PICK f : Runs(m - 1, f)
    BY <1>3
  <2>2. m \in Nat /\ m - 1 \in Nat /\ 0 \in 0 .. m - 1 /\ m - 1 \in 0 .. m - 1 /\ m \in 0 .. N
    BY <1>0
  <2> DEFINE h == Grown(f, m, Pass(f[m - 1], rs, Passes[m]))
  <2>3. h[m] = Pass(f[m - 1], rs, Passes[m]) /\ \A i \in 0 .. m - 1 : h[i] = f[i]
    BY <2>2, GrownHas
  <2> HIDE DEF h
  <2>4. ASSUME NEW i \in 1 .. m PROVE h[i] = Pass(h[i - 1], rs, Passes[i])
    <3>1. i - 1 \in 0 .. m - 1 /\ (i = m \/ i \in 1 .. m - 1)
      BY <2>2
    <3>2. i \in 1 .. m - 1 => i \in 0 .. m - 1
      BY <2>2
    <3> QED BY <2>1, <2>3, <3>1, <3>2
  <2> QED BY <2>1, <2>2, <2>3, <2>4
<1>4. N \in T
  <2> HIDE DEF T
  <2>1. N \in 0 .. N
    BY <1>0
  <2> QED BY <1>0, <1>2, <1>3, <2>1, UpTo
<1>5. PICK f : Runs(N, f)
  BY <1>4
<1>6. \E e : Eqn(e)
  <2> DEFINE e == [n \in 0 .. N |-> f[n]]
  <2>1. \A n \in 0 .. N : n = 0 \/ (n # 0 /\ n \in 1 .. N /\ n - 1 \in 0 .. N)
    BY <1>0
  <2>2. \A n \in 0 .. N : f[n] = IF n = 0 THEN start ELSE Pass(e[n - 1], rs, Passes[n])
    BY <1>5, <2>1
  <2>3. e = [n \in 0 .. N |-> IF n = 0 THEN start ELSE Pass(e[n - 1], rs, Passes[n])]
    BY <2>2
  <2> HIDE DEF e
  <2> QED BY <2>3
<1>7. Eqn(g)
  BY <1>6 DEF g
<1>8. g[0] = start /\ \A n \in 1 .. N : g[n] = Pass(g[n - 1], rs, Passes[n])
  <2>1. 0 \in 0 .. N /\ \A n \in 1 .. N : n \in 0 .. N /\ n # 0
    BY <1>0
  <2>2. \A n \in 0 .. N : g[n] = IF n = 0 THEN start ELSE Pass(g[n - 1], rs, Passes[n])
    BY <1>7
  <2> QED BY <2>1, <2>2
<1> QED BY <1>0, <1>1, <1>8 DEF AllRun

-----------------------------------------------------------------------------
(* Sequences.                                                              *)
LEMMA ElementsOf ==
  ASSUME NEW s, IsSeq(s)
  PROVE  /\ Len(s) \in Nat /\ DOMAIN s = 1 .. Len(s)
         /\ ToSet(s) = {s[i] : i \in 1 .. Len(s)}
<1>1. s \in Seq(ToSet(s))
  BY DEF IsSeq
<1> QED BY <1>1 DEF ToSet

LEMMA SeqOfSome ==
  ASSUME NEW X, NEW s \in Seq(X)
  PROVE  IsSeq(s)
<1>1. \A i \in 1 .. Len(s) : s[i] \in ToSet(s)
  BY DEF ToSet
<1> QED BY <1>1 DEF IsSeq

LEMMA EmptyIsSeq == IsSeq(<<>>) /\ ToSet(<<>>) = {}
BY DEF IsSeq, ToSet

LEMMA Concatenated ==
  ASSUME NEW s, IsSeq(s), NEW t, IsSeq(t)
  PROVE  /\ IsSeq(s \o t)
         /\ ToSet(s \o t) = ToSet(s) \cup ToSet(t)
         /\ Len(s \o t) = Len(s) + Len(t)
         /\ \A i \in 1 .. Len(s) : (s \o t)[i] = s[i]
         /\ \A i \in 1 .. Len(t) : (s \o t)[Len(s) + i] = t[i]
<1> DEFINE X == ToSet(s) \cup ToSet(t)
<1>1. s \in Seq(ToSet(s)) /\ t \in Seq(ToSet(t))
  BY DEF IsSeq
<1>2. s \in Seq(X) /\ t \in Seq(X)
  <2> DEFINE S == ToSet(s)
             U == ToSet(t)
  <2>1. s \in Seq(S) /\ t \in Seq(U)
    BY <1>1
  <2> HIDE DEF S, U
  <2>2. s \in Seq(S \cup U) /\ t \in Seq(S \cup U)
    BY <2>1
  <2> QED BY <2>2 DEF S, U
<1> HIDE DEF X
<1>3. /\ s \o t \in Seq(X) /\ Len(s \o t) = Len(s) + Len(t) /\ Len(s) \in Nat /\ Len(t) \in Nat
      /\ \A i \in 1 .. Len(s) : (s \o t)[i] = s[i]
      /\ \A i \in 1 .. Len(t) : (s \o t)[Len(s) + i] = t[i]
  BY <1>2
<1>4. IsSeq(s \o t)
  BY <1>3, SeqOfSome
<1>5. ToSet(s \o t) = ToSet(s) \cup ToSet(t)
  <2>1. /\ ToSet(s) = {s[i] : i \in 1 .. Len(s)} /\ ToSet(t) = {t[i] : i \in 1 .. Len(t)}
        /\ ToSet(s \o t) = {(s \o t)[i] : i \in 1 .. Len(s \o t)}
    BY <1>4, ElementsOf
  <2>2. \A i \in 1 .. Len(s \o t) : i \in 1 .. Len(s) \/ (i - Len(s) \in 1 .. Len(t) /\ i = Len(s) + (i - Len(s)))
    BY <1>3
  <2>3. \A i \in 1 .. Len(s) : i \in 1 .. Len(s \o t)
    BY <1>3
  <2>4. \A i \in 1 .. Len(t) : Len(s) + i \in 1 .. Len(s \o t)
    BY <1>3
  <2>5. ASSUME NEW x \in ToSet(s \o t) PROVE x \in ToSet(s) \cup ToSet(t)
    <3>1. PICK i \in 1 .. Len(s \o t) : x = (s \o t)[i]
      BY <2>1
    <3> QED BY <1>3, <2>1, <2>2, <3>1
  <2>6. ASSUME NEW x \in ToSet(s) PROVE x \in ToSet(s \o t)
    <3>1. PICK i \in 1 .. Len(s) : x = s[i]
      BY <2>1
    <3> QED BY <1>3, <2>1, <2>3, <3>1
  <2>7. ASSUME NEW x \in ToSet(t) PROVE x \in ToSet(s \o t)
    <3>1. PICK i \in 1 .. Len(t) : x = t[i]
      BY <2>1
    <3> QED BY <1>3, <2>1, <2>4, <3>1
  <2> QED BY <2>5, <2>6, <2>7
<1> QED BY <1>3, <1>4, <1>5

LEMMA Appended ==
  ASSUME NEW s, IsSeq(s), NEW x
  PROVE  IsSeq(Append(s, x)) /\ ToSet(Append(s, x)) = ToSet(s) \cup {x}
<1>1. IsSeq(<<x>>) /\ ToSet(<<x>>) = {x}
  <2>1. <<x>> \in Seq({x}) /\ DOMAIN <<x>> = {1} /\ <<x>>[1] = x
    OBVIOUS
  <2> QED BY <2>1, SeqOfSome DEF ToSet
<1>2. s \in Seq(ToSet(s))
  BY DEF IsSeq
<1>3. Append(s, x) = s \o <<x>>
  <2> DEFINE S == ToSet(s) \cup {x}
  <2>1. s \in Seq(S)
    <3> DEFINE U == ToSet(s)
    <3>1. s \in Seq(U)
      BY <1>2
    <3> HIDE DEF U
    <3>2. s \in Seq(U \cup {x})
      BY <3>1
    <3> QED BY <3>2 DEF U
  <2> HIDE DEF S
  <2> QED BY <2>1
<1> QED BY <1>1, <1>3, Concatenated

-----------------------------------------------------------------------------
(* What was parsed: no two resources have the same logical ID.             *)
DistinctIds(rs) == \A i, j \in DOMAIN rs : rs[i].id = rs[j].id => i = j

ParsedIsProper(p) ==
  /\ p = [ok |-> p.ok, parameters |-> p.parameters, mappings |-> p.mappings, resources |-> p.resources]
  /\ IsSeq(p.resources) /\ DistinctIds(p.resources)

LEMMA DistinctTogether ==
  ASSUME NEW s, IsSeq(s), DistinctIds(s), NEW t, IsSeq(t), DistinctIds(t), Ids(ToSet(t)) \cap Ids(ToSet(s)) = {}
  PROVE  IsSeq(s \o t) /\ DistinctIds(s \o t)
<1>1. /\ IsSeq(s \o t) /\ Len(s \o t) = Len(s) + Len(t)
      /\ \A i \in 1 .. Len(s) : (s \o t)[i] = s[i]
      /\ \A i \in 1 .. Len(t) : (s \o t)[Len(s) + i] = t[i]
  BY Concatenated
<1>2. /\ Len(s) \in Nat /\ Len(t) \in Nat /\ DOMAIN s = 1 .. Len(s) /\ DOMAIN t = 1 .. Len(t)
      /\ DOMAIN (s \o t) = 1 .. Len(s) + Len(t)
      /\ ToSet(s) = {s[i] : i \in 1 .. Len(s)} /\ ToSet(t) = {t[i] : i \in 1 .. Len(t)}
  BY <1>1, ElementsOf
<1>3. \A i \in 1 .. Len(s), j \in 1 .. Len(t) : s[i].id # t[j].id
  BY <1>2 DEF Ids
<1>4. ASSUME NEW i \in DOMAIN (s \o t), NEW j \in DOMAIN (s \o t), (s \o t)[i].id = (s \o t)[j].id
      PROVE  i = j
  <2>1. /\ i \in 1 .. Len(s) \/ (i - Len(s) \in 1 .. Len(t) /\ i = Len(s) + (i - Len(s)))
        /\ j \in 1 .. Len(s) \/ (j - Len(s) \in 1 .. Len(t) /\ j = Len(s) + (j - Len(s)))
    BY <1>2
  <2>2. CASE i \in 1 .. Len(s) /\ j \in 1 .. Len(s)
    BY <1>1, <1>2, <1>4, <2>2 DEF DistinctIds
  <2>3. CASE i \in 1 .. Len(s) /\ j \notin 1 .. Len(s)
    <3>1. (s \o t)[i] = s[i] /\ (s \o t)[j] = t[j - Len(s)] /\ j - Len(s) \in 1 .. Len(t)
      BY <1>1, <2>1, <2>3
    <3> QED BY <1>3, <1>4, <2>3, <3>1
  <2>4. CASE i \notin 1 .. Len(s) /\ j \in 1 .. Len(s)
    <3>1. (s \o t)[j] = s[j] /\ (s \o t)[i] = t[i - Len(s)] /\ i - Len(s) \in 1 .. Len(t)
      BY <1>1, <2>1, <2>4
    <3> QED BY <1>3, <1>4, <2>4, <3>1
  <2>5. CASE i \notin 1 .. Len(s) /\ j \notin 1 .. Len(s)
    <3>1. /\ (s \o t)[i] = t[i - Len(s)] /\ i - Len(s) \in 1 .. Len(t)
          /\ (s \o t)[j] = t[j - Len(s)] /\ j - Len(s) \in 1 .. Len(t)
      BY <1>1, <2>1, <2>5
    <3>2. i - Len(s) = j - Len(s)
      BY <1>2, <1>4, <3>1 DEF DistinctIds
    <3> QED BY <1>2, <3>2
  <2> QED BY <2>2, <2>3, <2>4, <2>5
<1> QED BY <1>1, <1>4 DEF DistinctIds

LEMMA ParsedOneIsProper ==
  ASSUME NEW p, ParsedIsProper(p), NEW file, IsSeq(file.resources), DistinctIds(file.resources)
  PROVE  ParsedIsProper(ParsedNext(p, file))
<1> DEFINE q == ParsedNext(p, file)
<1>1. q.resources = p.resources
        \/ (q.resources = p.resources \o file.resources /\ Ids(ToSet(file.resources)) \cap Ids(ToSet(p.resources)) = {})
  BY DEF ParsedNext, ParseOne, ParsedIsProper
<1>2. q = [ok |-> q.ok, parameters |-> q.parameters, mappings |-> q.mappings, resources |-> q.resources]
  BY DEF ParsedNext, ParseOne, ParsedIsProper
<1> HIDE DEF q
<1>3. IsSeq(q.resources) /\ DistinctIds(q.resources)
  BY <1>1, DistinctTogether DEF ParsedIsProper
<1> QED BY <1>2, <1>3 DEF ParsedIsProper, q

FilesAreProper(fs) ==
  /\ Len(fs) \in Nat /\ DOMAIN fs = 1 .. Len(fs)
  /\ \A n \in 1 .. Len(fs) : /\ IsSeq(fs[n].resources) /\ DistinctIds(fs[n].resources)
                             /\ \A r \in ToSet(fs[n].resources) : IsSeq(RawName(r, "Name", Word(r.id)))

LEMMA TemplatesAreProper ==
  ASSUME NEW fs \in Templates
  PROVE  FilesAreProper(fs)
BY TemplatesAssumption, ElementsOf DEF FilesAreProper, DistinctIds

LEMMA ParseIsProper ==
  ASSUME NEW fs, FilesAreProper(fs)
  PROVE  ParsedIsProper(Parse(fs))
<1>1. /\ Len(fs) \in Nat /\ DOMAIN fs = 1 .. Len(fs)
      /\ \A n \in 1 .. Len(fs) : IsSeq(fs[n].resources) /\ DistinctIds(fs[n].resources)
  BY DEF FilesAreProper
<1>2. PICK f : /\ f[0] = NothingParsed /\ f[Len(fs)] = Parse(fs)
               /\ \A n \in 1 .. Len(fs) : f[n] = ParsedNext(f[n - 1], fs[n])
  BY <1>1, ParseUnfolds
<1> DEFINE T == {n \in 0 .. Len(fs) : ParsedIsProper(f[n])}
<1>3. 0 \in T
  BY <1>1, <1>2, EmptyIsSeq DEF ParsedIsProper, NothingParsed, DistinctIds
<1>4. ASSUME NEW n \in 1 .. Len(fs), n - 1 \in T PROVE n \in T
  <2>1. n \in 0 .. Len(fs)
    BY <1>1
  <2> QED BY <1>1, <1>2, <1>4, <2>1, ParsedOneIsProper
<1> HIDE DEF T
<1>5. Len(fs) \in T
  <2>1. Len(fs) \in 0 .. Len(fs)
    BY <1>1
  <2> QED BY <1>1, <1>3, <1>4, <2>1, UpTo
<1> QED BY <1>2, <1>5 DEF T

-----------------------------------------------------------------------------
(* The builder.  What is found in a table was put there, and what refers   *)
(* to a table is built when the table is complete.                         *)
Entries(table) == {table[k] : k \in DOMAIN table}

AliasesOwned(b) ==
  \A d \in ToSet(b.distributions) : \A a \in d.aliases :
    Lower(a) = a /\ a \in DOMAIN b.aliasOwner /\ b.aliasOwner[a] = d.id

Sound(b) ==
  /\ DOMAIN b = DOMAIN Builder(<<>>)
  /\ \A f \in b.functions : ToSet(f.stores) \subseteq Entries(b.stores)
  /\ Entries(b.functionsByARN) \subseteq b.functions
  /\ IsSeq(b.distributions)
  /\ \A d \in ToSet(b.distributions) : \A i \in DOMAIN d.behaviors : ToSet(d.behaviors[i].functions) \subseteq b.functions
  /\ \A d, e \in ToSet(b.distributions) : d.id = e.id => d = e
  /\ AliasesOwned(b)

(* The k-th pass is under way: functions are built in the sixth.           *)
During(b, k) ==
  /\ k < 6 => b.functions = {}
  /\ k < 7 => ToSet(b.distributions) = {}

(* Of what a step of the builder may be, all that matters here.            *)
SameButOk(b, c) ==
  /\ DOMAIN c = DOMAIN b
  /\ c.stores = b.stores /\ c.functions = b.functions /\ c.functionsByARN = b.functionsByARN
  /\ c.aliasOwner = b.aliasOwner /\ c.distributions = b.distributions

LEMMA BuilderFields ==
  ASSUME NEW b, DOMAIN b = DOMAIN Builder(<<>>)
  PROVE  DOMAIN b = {"ok", "raw", "policies", "keys", "keyGroups", "stores", "functions", "functionsByARN", "aliasOwner", "distributions"}
BY DEF Builder

LEMMA SameIsSound ==
  ASSUME NEW b, Sound(b), NEW k, During(b, k), NEW c, SameButOk(b, c)
  PROVE  Sound(c) /\ During(c, k)
BY DEF Sound, During, SameButOk, AliasesOwned

LEMMA FailedIsSame ==
  ASSUME NEW b, Sound(b)
  PROVE  SameButOk(b, Fail(b))
<1>1. DOMAIN b = {"ok", "raw", "policies", "keys", "keyGroups", "stores", "functions", "functionsByARN", "aliasOwner", "distributions"}
  BY BuilderFields DEF Sound
<1> QED BY <1>1 DEF SameButOk, Fail

LEMMA EntryAdded ==
  ASSUME NEW table, NEW key, NEW value
  PROVE  /\ value \in Entries(WithEntry(table, key, value))
         /\ Entries(WithEntry(table, key, value)) \subseteq Entries(table) \cup {value}
BY DEF Entries, WithEntry, With

LEMMA FoundIsEntry ==
  ASSUME NEW texts, NEW table, Known(texts, table)
  PROVE  ToSet(Found(texts, table)) \subseteq Entries(table)
<1>1. DOMAIN Found(texts, table) = DOMAIN texts /\ \A i \in DOMAIN texts : Found(texts, table)[i] \in Entries(table)
  BY DEF Found, Known, Entries
<1> QED BY <1>1 DEF ToSet

LEMMA LowerTwice ==
  ASSUME NEW t
  PROVE  Lower(Lower(t)) = Lower(t)
<1>1. /\ DOMAIN Lower(t) = DOMAIN t /\ Lower(t) = [i \in DOMAIN t |-> Lower(t)[i]]
      /\ \A i \in DOMAIN t : Lower(t)[i] \notin DOMAIN ToLower
  BY LowerAssumption DEF Lower
<1>2. Lower(Lower(t)) = [i \in DOMAIN t |-> Lower(t)[i]]
  BY <1>1 DEF Lower
<1> QED BY <1>1, <1>2

LEMMA StoreKeeps ==
  ASSUME NEW b, Sound(b), During(b, 2), NEW r
  PROVE  Sound(KeyValueStore(b, r)) /\ During(KeyValueStore(b, r), 2)
<1> DEFINE c == KeyValueStore(b, r)
<1>1. DOMAIN b = {"ok", "raw", "policies", "keys", "keyGroups", "stores", "functions", "functionsByARN", "aliasOwner", "distributions"}
  BY BuilderFields DEF Sound
<1>2. /\ DOMAIN c = DOMAIN b
      /\ c.functions = b.functions /\ c.functionsByARN = b.functionsByARN
      /\ c.aliasOwner = b.aliasOwner /\ c.distributions = b.distributions
  BY <1>1 DEF KeyValueStore, Fail
<1> HIDE DEF c
<1>3. c.functions = {}
  BY <1>2 DEF During
<1>4. Sound(c) /\ During(c, 2)
  BY <1>2, <1>3 DEF Sound, During, AliasesOwned
<1> QED BY <1>4 DEF c

LEMMA FunctionKeeps ==
  ASSUME NEW b, Sound(b), During(b, 6), NEW r
  PROVE  Sound(Function(b, r)) /\ During(Function(b, r), 6)
<1>1. DOMAIN b = {"ok", "raw", "policies", "keys", "keyGroups", "stores", "functions", "functionsByARN", "aliasOwner", "distributions"}
  BY BuilderFields DEF Sound
<1> DEFINE arns == StoreARNs(r)
           fn == FunctionOf(b, r)
           arn == FunctionARN(Resource(ToSet(b.raw), r.id))
           c == Function(b, r)
<1>2. CASE c = Fail(b)
  BY <1>2, FailedIsSame, SameIsSound
<1>3. CASE c # Fail(b)
  <2>1. /\ Known(arns, b.stores)
        /\ c = [b EXCEPT !.functions = @ \cup {fn}, !.functionsByARN = WithEntry(@, arn, fn)]
    BY <1>3 DEF Function, FunctionIsValid
  <2>2. ToSet(fn.stores) \subseteq Entries(b.stores)
    <3>1. fn.stores = Found(arns, b.stores)
      BY DEF FunctionOf
    <3> HIDE DEF arns, fn
    <3> QED BY <2>1, <3>1, FoundIsEntry
  <2> HIDE DEF fn, arn, c
  <2>3. /\ DOMAIN c = DOMAIN b /\ c.stores = b.stores /\ c.functions = b.functions \cup {fn}
        /\ c.functionsByARN = WithEntry(b.functionsByARN, arn, fn)
        /\ c.aliasOwner = b.aliasOwner /\ c.distributions = b.distributions
    BY <1>1, <2>1
  <2>4. Entries(c.functionsByARN) \subseteq Entries(b.functionsByARN) \cup {fn}
    BY <2>3, EntryAdded
  <2>5. Sound(c)
    BY <2>2, <2>3, <2>4 DEF Sound, AliasesOwned
  <2>6. During(c, 6)
    BY <2>3 DEF During
  <2> QED BY <2>5, <2>6 DEF c
<1> QED BY <1>2, <1>3

(* The distributions of the last pass come from different resources.       *)
OthersThan(b, id) == \A d \in ToSet(b.distributions) : d.id # id

LEMMA DistributionKeeps ==
  ASSUME NEW b, Sound(b), NEW r, OthersThan(b, r.id)
  PROVE  /\ Sound(Distribution(b, r))
         /\ \A d \in ToSet(Distribution(b, r).distributions) : d \in ToSet(b.distributions) \/ d.id = r.id
<1>1. DOMAIN b = {"ok", "raw", "policies", "keys", "keyGroups", "stores", "functions", "functionsByARN", "aliasOwner", "distributions"}
  BY BuilderFields DEF Sound
<1> DEFINE settings == Field(r.props, "DistributionConfig")
           behaviors == BehaviorsOf(settings)
           d == DistributionOf(b, r)
           c == Distribution(b, r)
<1>2. CASE c = Fail(b)
  <2>1. SameButOk(b, c) /\ During(b, 7)
    BY <1>2, FailedIsSame DEF During
  <2> HIDE DEF c
  <2>2. Sound(c) /\ c.distributions = b.distributions
    BY <2>1, SameIsSound DEF SameButOk
  <2> QED BY <2>2 DEF c
<1>3. CASE c # Fail(b)
  <2>1. /\ DistributionIsValid(b, r, settings)
        /\ c = [b EXCEPT !.distributions = Append(@, d), !.aliasOwner = With(@, [a \in d.aliases |-> r.id])]
    BY <1>3 DEF Distribution
  <2>2. /\ d.id = r.id /\ d.aliases = ToSet(Aliases(settings))
        /\ d.behaviors = [i \in DOMAIN behaviors |-> BehaviorOf(b, behaviors[i])]
    BY DEF DistributionOf
  <2> HIDE DEF d
  <2>3. ASSUME NEW i \in DOMAIN d.behaviors PROVE ToSet(d.behaviors[i].functions) \subseteq b.functions
    <3>1. i \in DOMAIN behaviors /\ d.behaviors[i] = BehaviorOf(b, behaviors[i])
      BY <2>2
    <3>2. BehaviorIsValid(b, behaviors[i], Maps(settings, "Origins"), i = 1)
      BY <2>1, <3>1 DEF DistributionIsValid
    <3> DEFINE arns == ARNs(Maps(behaviors[i], "FunctionAssociations"))
    <3>3. Known(arns, b.functionsByARN) /\ d.behaviors[i].functions = Found(arns, b.functionsByARN)
      BY <3>1, <3>2 DEF BehaviorIsValid, BehaviorOf, AssociationsAreValid
    <3> HIDE DEF arns
    <3>4. ToSet(d.behaviors[i].functions) \subseteq Entries(b.functionsByARN)
      BY <3>3, FoundIsEntry
    <3> QED BY <3>4 DEF Sound
  <2>4. ASSUME NEW a \in d.aliases
        PROVE  Lower(a) = a /\ (a \in DOMAIN b.aliasOwner => b.aliasOwner[a] = r.id)
    <3>1. PICK i \in DOMAIN Aliases(settings) : a = Aliases(settings)[i]
      BY <2>2 DEF ToSet
    <3>2. a \in DOMAIN b.aliasOwner => b.aliasOwner[a] = r.id
      BY <2>1, <3>1 DEF DistributionIsValid
    <3>3. \E t : a = Lower(t)
      BY <3>1 DEF Aliases
    <3>4. Lower(a) = a
      BY <3>3, LowerTwice
    <3> QED BY <3>2, <3>4
  <2> DEFINE new == [a \in d.aliases |-> r.id]
  <2>5. /\ DOMAIN c = DOMAIN b /\ c.stores = b.stores /\ c.functions = b.functions /\ c.functionsByARN = b.functionsByARN
        /\ c.distributions = Append(b.distributions, d) /\ c.aliasOwner = With(b.aliasOwner, new)
    <3> HIDE DEF c, new
    <3>1. c = [b EXCEPT !.distributions = Append(@, d), !.aliasOwner = With(@, new)]
      BY <2>1 DEF new
    <3> QED BY <1>1, <3>1
  <2>6. /\ DOMAIN c.aliasOwner = DOMAIN b.aliasOwner \cup d.aliases
        /\ \A a \in DOMAIN c.aliasOwner : c.aliasOwner[a] = IF a \in d.aliases THEN r.id ELSE b.aliasOwner[a]
    <3> HIDE DEF c
    <3> QED BY <2>5 DEF With
  <2> HIDE DEF c, settings
  <2>7. IsSeq(c.distributions) /\ ToSet(c.distributions) = ToSet(b.distributions) \cup {d}
    BY <2>5, Appended DEF Sound
  <2>8. AliasesOwned(c)
    <3> SUFFICES ASSUME NEW e \in ToSet(c.distributions), NEW a \in e.aliases
                 PROVE  Lower(a) = a /\ a \in DOMAIN c.aliasOwner /\ c.aliasOwner[a] = e.id
      BY DEF AliasesOwned
    <3>1. CASE e = d
      BY <2>2, <2>4, <2>6, <3>1
    <3>2. CASE e \in ToSet(b.distributions)
      <4>1. Lower(a) = a /\ a \in DOMAIN b.aliasOwner /\ b.aliasOwner[a] = e.id /\ e.id # r.id
        BY <3>2 DEF Sound, AliasesOwned, OthersThan
      <4> QED BY <2>4, <2>6, <4>1
    <3> QED BY <2>7, <3>1, <3>2
  <2>9. \A e, g \in ToSet(c.distributions) : e.id = g.id => e = g
    BY <2>2, <2>7 DEF Sound, OthersThan
  <2>10. \A e \in ToSet(c.distributions) : \A i \in DOMAIN e.behaviors : ToSet(e.behaviors[i].functions) \subseteq c.functions
    BY <2>3, <2>5, <2>7 DEF Sound
  <2>11. Sound(c)
    BY <2>5, <2>7, <2>8, <2>9, <2>10 DEF Sound
  <2> QED BY <2>2, <2>7, <2>11 DEF c
<1> QED BY <1>2, <1>3 DEF c

LEMMA OthersAreSame ==
  ASSUME NEW b, Sound(b), NEW r
  PROVE  /\ SameButOk(b, PublicKey(b, r)) /\ SameButOk(b, KeyGroup(b, r)) /\ SameButOk(b, Policy(b, r)) /\ SameButOk(b, b)
<1>1. DOMAIN b = {"ok", "raw", "policies", "keys", "keyGroups", "stores", "functions", "functionsByARN", "aliasOwner", "distributions"}
  BY BuilderFields DEF Sound
<1>2. SameButOk(b, PublicKey(b, r))
  BY <1>1 DEF SameButOk, PublicKey, Fail
<1>3. SameButOk(b, KeyGroup(b, r))
  BY <1>1 DEF SameButOk, KeyGroup, Fail
<1>4. SameButOk(b, Policy(b, r))
  BY <1>1 DEF SameButOk, Policy, Fail
<1> QED BY <1>2, <1>3, <1>4 DEF SameButOk

LEMMA PassesAre ==
  /\ Len(Passes) = 7
  /\ \A k \in 1 .. 7 : /\ "KeyValueStore" \in Passes[k] <=> k = 2
                       /\ "Function" \in Passes[k] <=> k = 6
                       /\ "Distribution" \in Passes[k] <=> k = 7
<1>1. /\ Len(Passes) = 7
      /\ Passes[1] = {"OriginAccessControl"} /\ Passes[2] = {"KeyValueStore"} /\ Passes[3] = {"PublicKey"} /\ Passes[4] = {"KeyGroup"}
      /\ Passes[5] = PolicyTypes /\ Passes[6] = {"Function"} /\ Passes[7] = {"Distribution"}
  BY DEF Passes
<1>2. "KeyValueStore" \notin PolicyTypes /\ "Function" \notin PolicyTypes /\ "Distribution" \notin PolicyTypes
  BY DEF PolicyTypes
<1>3. \A k \in 1 .. 7 : k = 1 \/ k = 2 \/ k = 3 \/ k = 4 \/ k = 5 \/ k = 6 \/ k = 7
  OBVIOUS
<1> QED BY <1>1, <1>2, <1>3

(* One resource of the k-th pass.                                          *)
LEMMA BuiltKeeps ==
  ASSUME NEW b, Sound(b), NEW k \in 1 .. 7, During(b, k), NEW r, r.type \in Passes[k], OthersThan(b, r.id)
  PROVE  /\ Sound(BuildOne(b, r)) /\ During(BuildOne(b, r), k)
         /\ \A d \in ToSet(BuildOne(b, r).distributions) : d \in ToSet(b.distributions) \/ d.id = r.id
<1>1. CASE r.type = "Distribution" /\ HasShape(r.props)
  <2>1. k = 7
    BY <1>1, PassesAre
  <2>2. r.type # "KeyValueStore" /\ r.type # "PublicKey" /\ r.type # "KeyGroup" /\ r.type \notin PolicyTypes /\ r.type # "Function"
    BY <1>1 DEF PolicyTypes
  <2>3. BuildOne(b, r) = Distribution(b, r)
    BY <1>1, <2>2 DEF BuildOne
  <2> QED BY <2>1, <2>3, DistributionKeeps DEF During
<1>2. CASE r.type = "Function" /\ HasShape(r.props)
  <2>1. k = 6
    BY <1>2, PassesAre
  <2>2. r.type # "KeyValueStore" /\ r.type # "PublicKey" /\ r.type # "KeyGroup" /\ r.type \notin PolicyTypes
    BY <1>2 DEF PolicyTypes
  <2>3. BuildOne(b, r) = Function(b, r)
    BY <1>2, <2>2 DEF BuildOne
  <2>4. Sound(BuildOne(b, r)) /\ During(BuildOne(b, r), 6)
    BY <2>1, <2>3, FunctionKeeps
  <2> QED BY <2>1, <2>4 DEF During
<1>3. CASE r.type = "KeyValueStore" /\ HasShape(r.props)
  <2>1. k = 2
    BY <1>3, PassesAre
  <2>2. BuildOne(b, r) = KeyValueStore(b, r)
    BY <1>3 DEF BuildOne, PolicyTypes
  <2>3. Sound(BuildOne(b, r)) /\ During(BuildOne(b, r), 2)
    BY <2>1, <2>2, StoreKeeps
  <2> QED BY <2>1, <2>3 DEF During
<1>4. CASE ~HasShape(r.props) \/ r.type \notin {"Distribution", "Function", "KeyValueStore"}
  <2>1. BuildOne(b, r) \in {Fail(b), PublicKey(b, r), KeyGroup(b, r), Policy(b, r), b}
    BY <1>4 DEF BuildOne
  <2>2. SameButOk(b, BuildOne(b, r))
    BY <2>1, FailedIsSame, OthersAreSame
  <2> QED BY <2>2, SameIsSound DEF SameButOk
<1> QED BY <1>1, <1>2, <1>3, <1>4

(* A pass over the resources, and all of them.                             *)
LEMMA PassKeeps ==
  ASSUME NEW start, Sound(start), NEW k \in 1 .. 7, During(start, k - 1), NEW rs, Len(rs) \in Nat, DOMAIN rs = 1 .. Len(rs), DistinctIds(rs)
  PROVE  Sound(Pass(start, rs, Passes[k])) /\ During(Pass(start, rs, Passes[k]), k)
<1> DEFINE types == Passes[k]
           N == Len(rs)
<1>0. PICK f : PassRun(f, start, rs, types)
  BY PassUnfolds
<1>1. f[0] = start /\ f[N] = Pass(start, rs, types) /\ \A n \in 1 .. N : f[n] = PassNext(f[n - 1], rs[n], types)
  BY <1>0 DEF PassRun
<1> DEFINE Good(n) == /\ Sound(f[n]) /\ During(f[n], k)
                      /\ \A d \in ToSet(f[n].distributions) : \E i \in 1 .. n : d.id = rs[i].id
           T == {n \in 0 .. N : Good(n)}
<1> HIDE DEF types
<1>2. 0 \in T
  <2>1. k - 1 < 7 /\ (k < 6 => k - 1 < 6)
    OBVIOUS
  <2>2. During(start, k) /\ ToSet(start.distributions) = {}
    BY <2>1 DEF During
  <2>3. 0 \in 0 .. N
    OBVIOUS
  <2> QED BY <1>1, <2>2, <2>3
<1>3. ASSUME NEW n \in 1 .. N, n - 1 \in T PROVE n \in T
  <2>1. n \in 0 .. N /\ n \in DOMAIN rs /\ n \in 1 .. n /\ n \notin 1 .. n - 1 /\ \A i \in 1 .. n - 1 : i \in 1 .. n /\ i \in DOMAIN rs
    OBVIOUS
  <2>2. Good(n - 1) /\ f[n] = PassNext(f[n - 1], rs[n], types)
    BY <1>1, <1>3
  <2> DEFINE b == f[n - 1]
             r == rs[n]
  <2>3. OthersThan(b, r.id)
    BY <2>1, <2>2 DEF OthersThan, DistinctIds
  <2>4. CASE b.ok /\ r.type \in types
    <3>1. f[n] = BuildOne(b, r)
      BY <2>2, <2>4 DEF PassNext
    <3>2. Sound(b) /\ During(b, k)
      BY <2>2
    <3> HIDE DEF b, r
    <3>3. /\ Sound(BuildOne(b, r)) /\ During(BuildOne(b, r), k)
          /\ \A d \in ToSet(BuildOne(b, r).distributions) : d \in ToSet(b.distributions) \/ d.id = r.id
      BY <2>3, <2>4, <3>2, BuiltKeeps DEF types
    <3>4. \A d \in ToSet(f[n].distributions) : \E i \in 1 .. n : d.id = rs[i].id
      BY <2>1, <2>2, <3>1, <3>3 DEF b, r
    <3> QED BY <2>1, <3>1, <3>3, <3>4
  <2>5. CASE ~(b.ok /\ r.type \in types)
    <3>1. f[n] = b
      BY <2>2, <2>5 DEF PassNext
    <3> QED BY <2>1, <2>2, <3>1
  <2> QED BY <2>4, <2>5
<1>4. N \in T
  <2> HIDE DEF T
  <2>1. N \in 0 .. N
    OBVIOUS
  <2> QED BY <1>2, <1>3, <2>1, UpTo
<1> QED BY <1>1, <1>4 DEF types

LEMMA AllPassesKeep ==
  ASSUME NEW start, Sound(start), During(start, 0), NEW rs, Len(rs) \in Nat, DOMAIN rs = 1 .. Len(rs), DistinctIds(rs)
  PROVE  Sound(AllPasses(start, rs))
<1>0. PICK f : AllRun(f, start, rs)
  BY AllPassesUnfold
<1>1. f[0] = start /\ f[7] = AllPasses(start, rs) /\ \A n \in 1 .. 7 : f[n] = Pass(f[n - 1], rs, Passes[n])
  BY <1>0 DEF AllRun
<1> DEFINE T == {n \in 0 .. 7 : Sound(f[n]) /\ During(f[n], n)}
<1>2. 0 \in T
  BY <1>1
<1>3. ASSUME NEW n \in 1 .. 7, n - 1 \in T PROVE n \in T
  <2>1. n \in 0 .. 7 /\ Sound(f[n - 1]) /\ During(f[n - 1], n - 1)
    BY <1>3
  <2> QED BY <1>1, <2>1, PassKeeps
<1> HIDE DEF T
<1>4. 7 \in T
  <2>1. 7 \in Nat /\ 7 \in 0 .. 7
    OBVIOUS
  <2> QED BY <1>2, <1>3, <2>1, UpTo
<1> QED BY <1>1, <1>4 DEF T

LEMMA NewIsSound ==
  ASSUME NEW raw
  PROVE  Sound(Builder(raw)) /\ During(Builder(raw), 0) /\ Sound(Fail(Builder(raw)))
<1>1. Sound(Builder(raw)) /\ During(Builder(raw), 0)
  BY EmptyIsSeq DEF Sound, During, Builder, AliasesOwned, Entries
<1> QED BY <1>1, FailedIsSame, SameIsSound

LEMMA LoadIsSound ==
  ASSUME NEW fs \in Templates, NEW ps
  PROVE  Sound(Load(fs, ps))
<1> DEFINE parsed == Parse(fs)
           resolved == Resolved(parsed, ps)
<1>1. ParsedIsProper(parsed)
  BY TemplatesAreProper, ParseIsProper
<1>2. CASE resolved.ok
  <2>1. /\ Load(fs, ps) = AllPasses(Builder(parsed.resources), resolved.resources)
        /\ resolved.resources = [i \in DOMAIN parsed.resources |-> ResolvedOne(Environment(parsed, ps), parsed.resources[i])]
    BY <1>2 DEF Load, Resolved
  <2>2. Len(parsed.resources) \in Nat /\ DOMAIN parsed.resources = 1 .. Len(parsed.resources) /\ DistinctIds(parsed.resources)
    BY <1>1, ElementsOf DEF ParsedIsProper
  <2> HIDE DEF parsed, resolved
  <2> DEFINE rs == resolved.resources
  <2>3. DOMAIN rs = 1 .. Len(parsed.resources) /\ \A i \in DOMAIN rs : rs[i].id = parsed.resources[i].id
    BY <2>1, <2>2 DEF ResolvedOne
  <2>4. DistinctIds(rs)
    <3> HIDE DEF rs
    <3> QED BY <2>2, <2>3 DEF DistinctIds
  <2>5. Len(rs) = Len(parsed.resources)
    BY <2>1, <2>2
  <2> HIDE DEF rs
  <2>6. Sound(AllPasses(Builder(parsed.resources), rs))
    BY <2>2, <2>3, <2>4, <2>5, NewIsSound, AllPassesKeep
  <2> QED BY <2>1, <2>6 DEF rs
<1>3. CASE ~resolved.ok
  BY <1>3, NewIsSound DEF Load
<1> QED BY <1>2, <1>3

-----------------------------------------------------------------------------
(* What holds in every state: the configurations are sound, and the check  *)
(* at startup leaves no unmet need to the stores.                          *)
NeedsStore == ConfigUsesS3(config) \/ ConfigUsesKVSImportSource(config)

LoadingInv ==
  /\ templates \in Templates
  /\ Sound(config) /\ Sound(live.config)
  /\ stage = "stores" /\ ~booted => hasStore \/ ~NeedsStore
  /\ StartupCheckForesees

(* A reachable store is one that the configuration has.                    *)
LEMMA ReachedStores ==
  ASSUME NEW c, Sound(c)
  PROVE  \A s \in ReachableStores(c) :
           \E f \in c.functions : /\ \E d \in Enabled(c) : \E i \in DOMAIN d.behaviors : f \in ToSet(d.behaviors[i].functions)
                                  /\ s \in ToSet(f.stores) /\ s \in {c.stores[a] : a \in DOMAIN c.stores}
<1> SUFFICES ASSUME NEW s \in ReachableStores(c)
             PROVE \E f \in c.functions : /\ \E d \in Enabled(c) : \E i \in DOMAIN d.behaviors : f \in ToSet(d.behaviors[i].functions)
                                          /\ s \in ToSet(f.stores) /\ s \in {c.stores[a] : a \in DOMAIN c.stores}
  OBVIOUS
<1>1. PICK f \in ReachableFunctions(c) : s \in ToSet(f.stores)
  BY DEF ReachableStores
<1>2. PICK d \in Enabled(c) : \E m \in ToSet(d.behaviors) : f \in ToSet(m.functions)
  BY <1>1 DEF ReachableFunctions
<1>3. PICK i \in DOMAIN d.behaviors : f \in ToSet(d.behaviors[i].functions)
  BY <1>2 DEF ToSet
<1>4. d \in ToSet(c.distributions) /\ f \in c.functions
  BY <1>2, <1>3 DEF Enabled, Sound
<1>5. s \in Entries(c.stores)
  BY <1>1, <1>4 DEF Sound
<1> QED BY <1>1, <1>2, <1>3, <1>4, <1>5 DEF Entries

(* What StartupCheckForesees calls imported.                               *)
Imported ==
  LET functions == {f \in config.functions : \E d \in Enabled(config) : \E i \in DOMAIN d.behaviors : f \in ToSet(d.behaviors[i].functions)}
      used == {s \in {config.stores[a] : a \in DOMAIN config.stores} : \E f \in functions : s \in ToSet(f.stores)}
  IN  {s \in used : s.source # <<>> /\ {s.name, Word(s.id)} \cap DOMAIN seeds = {}}

Foresees ==
  /\ error = "noStore" => booted
  /\ error = "needsStore" => Imported # {} \/ ConfigUsesS3(config)
  /\ fetched \subseteq Imported

LEMMA ForeseesIs == StartupCheckForesees <=> Foresees
BY DEF StartupCheckForesees, Foresees, Imported

LEMMA WouldImport ==
  ASSUME Sound(config), NEW s \in ReachableStores(config), s.source # <<>>, LookupSeed(s) = {}
  PROVE  s \in Imported
BY ReachedStores DEF Imported, LookupSeed

LEMMA LoadingInit == Init => LoadingInv
<1> SUFFICES ASSUME Init PROVE LoadingInv
  OBVIOUS
<1>1. Sound(config) /\ Sound(live.config)
  BY NewIsSound DEF Init, Nobody
<1>2. Foresees
  BY DEF Init, Foresees
<1> QED BY <1>1, <1>2, ForeseesIs DEF Init, LoadingInv

LEMMA LoadingStep == LoadingInv /\ [Next]_vars => LoadingInv'
<1> SUFFICES ASSUME LoadingInv, [Next]_vars PROVE LoadingInv'
  OBVIOUS
<1>0. Foresees
  BY ForeseesIs DEF LoadingInv
<1>p. Foresees' => StartupCheckForesees'
  BY DEF StartupCheckForesees, Foresees, Imported
<1> SUFFICES /\ templates' \in Templates /\ Sound(config') /\ Sound(live.config)'
             /\ stage' = "stores" /\ ~booted' => hasStore' \/ ~NeedsStore'
             /\ Foresees'
  BY <1>p DEF LoadingInv
<1>s. ASSUME UNCHANGED <<config, seeds>>
      PROVE  Imported' = Imported /\ NeedsStore' = NeedsStore /\ ConfigUsesS3(config)' = ConfigUsesS3(config)
  BY <1>s DEF Imported, NeedsStore, ConfigUsesS3, ConfigUsesKVSImportSource, LookupSeed
<1> USE DEF LoadingInv, files, options
<1>1. CASE LoadConfig
  <2>1. Sound(config')
    BY <1>1, LoadIsSound DEF LoadConfig
  <2>2. error' \in {"", "templates"} /\ fetched' = {} /\ (stage' # "stores" \/ booted')
    BY <1>1 DEF LoadConfig, Fails
  <2>3. UNCHANGED <<templates, live>>
    BY <1>1 DEF LoadConfig
  <2> QED BY <2>1, <2>2, <2>3 DEF Foresees
<1>2. CASE Check
  <2>1. UNCHANGED <<config, seeds, templates, live, hasStore, booted, fetched>>
    BY <1>2 DEF Check
  <2>2. Imported' = Imported /\ NeedsStore' = NeedsStore /\ ConfigUsesS3(config)' = ConfigUsesS3(config)
    BY <1>s, <2>1
  <2>3. CASE NeedsStore /\ ~hasStore
    <3>1. error' = "needsStore" /\ stage' # "stores"
      BY <1>2, <2>3 DEF Check, Fails, NeedsStore
    <3>2. Imported # {} \/ ConfigUsesS3(config)
      BY <2>3, WouldImport DEF NeedsStore, ConfigUsesKVSImportSource
    <3> QED BY <1>0, <2>1, <2>2, <3>1, <3>2 DEF Foresees
  <2>4. CASE ~(NeedsStore /\ ~hasStore)
    <3>1. error' = error /\ stage' = "stores"
      BY <1>2, <2>4 DEF Check, NeedsStore
    <3> QED BY <1>0, <2>1, <2>2, <2>4, <3>1 DEF Foresees
  <2> QED BY <2>3, <2>4
<1>3. CASE BuildKVSStore
  <2>1. UNCHANGED <<config, seeds, templates, live, hasStore, booted>> /\ stage = "stores"
    BY <1>3 DEF BuildKVSStore
  <2>2. Imported' = Imported /\ NeedsStore' = NeedsStore
    BY <1>s, <2>1
  <2> DEFINE s == StoresInOrder[Cardinality(DOMAIN stores) + 1]
             import == ~Seeded(s) /\ s.source # <<>> /\ s \in ReachableStores(config)
  <2>3. /\ fetched' = fetched \/ (import /\ fetched' = fetched \cup {s})
        /\ error' = error \/ error' \in {"seed", "import"} \/ (error' = "noStore" /\ import /\ ~hasStore)
    BY <1>3 DEF BuildKVSStore, Seed, Filled, Fails
  <2>4. import => s \in Imported /\ NeedsStore
    BY WouldImport DEF Seeded, NeedsStore, ConfigUsesKVSImportSource
  <2> HIDE DEF s, import
  <2>5. Foresees'
    BY <1>0, <2>1, <2>2, <2>3, <2>4 DEF Foresees
  <2> QED BY <2>1, <2>2, <2>5
<1>4. CASE StoresBuilt
  <2>1. UNCHANGED <<config, seeds, templates, live, hasStore, booted, error, fetched>> /\ stage' = "functions"
    BY <1>4 DEF StoresBuilt
  <2> QED BY <1>0, <1>s, <2>1 DEF Foresees
<1>5. CASE Compile
  <2>1. UNCHANGED <<config, seeds, templates, live, hasStore, booted, fetched>> /\ stage' # "stores" /\ error' \in {error, "compile"}
    BY <1>5 DEF Compile, Fails
  <2> QED BY <1>0, <1>s, <2>1 DEF Foresees
<1>6. CASE Serve
  <2>1. UNCHANGED <<config, seeds, templates, hasStore, error, fetched>> /\ stage' # "stores" /\ booted' /\ live'.config = config
    BY <1>6 DEF Serve
  <2> QED BY <1>0, <1>s, <2>1 DEF Foresees
<1>7. CASE Save
  <2>1. UNCHANGED <<config, seeds, live, hasStore, booted, error, fetched, stage>> /\ templates' \in Templates
    BY <1>7 DEF Save
  <2> QED BY <1>0, <1>s, <2>1 DEF Foresees
<1>8. CASE Reload
  <2>1. UNCHANGED <<config, seeds, templates, live, hasStore, booted, error, fetched>> /\ stage' # "stores"
    BY <1>8 DEF Reload
  <2> QED BY <1>0, <1>s, <2>1 DEF Foresees
<1>9. CASE UNCHANGED vars
  <2>1. UNCHANGED <<config, seeds, templates, live, hasStore, booted, error, fetched, stage>>
    BY <1>9 DEF vars
  <2> QED BY <1>0, <1>s, <2>1 DEF Foresees
<1> QED BY <1>1, <1>2, <1>3, <1>4, <1>5, <1>6, <1>7, <1>8, <1>9 DEF Next

THEOREM LoadingInvHolds == Spec => []LoadingInv
BY LoadingInit, LoadingStep, PTL DEF Spec

(* The check at startup foresees whether seeding needs the object store.   *)
THEOREM StartupCheckHolds == Spec => []StartupCheckForesees
<1>1. LoadingInv => StartupCheckForesees
  BY DEF LoadingInv
<1> QED BY <1>1, LoadingInvHolds, PTL

(* An alias, in any capitalisation, belongs to one distribution served.    *)
THEOREM AliasesHold == Spec => []AliasesHaveOneOwner
<1>1. LoadingInv => AliasesHaveOneOwner
  <2> SUFFICES ASSUME LoadingInv, NEW d \in ToSet(live.config.distributions), NEW e \in ToSet(live.config.distributions),
                      {Lower(a) : a \in d.aliases} \cap {Lower(a) : a \in e.aliases} # {}
               PROVE  d = e
    BY DEF AliasesHaveOneOwner
  <2> DEFINE c == live.config
  <2>1. Sound(c)
    BY DEF LoadingInv
  <2>2. PICK a \in d.aliases : \E a2 \in e.aliases : Lower(a) = Lower(a2)
    OBVIOUS
  <2>3. PICK a2 \in e.aliases : Lower(a) = Lower(a2)
    BY <2>2
  <2> HIDE DEF c
  <2>4. Lower(a) = a /\ Lower(a2) = a2 /\ c.aliasOwner[a] = d.id /\ c.aliasOwner[a2] = e.id
    BY <2>1 DEF Sound, AliasesOwned, c
  <2>5. d.id = e.id
    BY <2>3, <2>4
  <2> QED BY <2>1, <2>5 DEF Sound, c
<1> QED BY <1>1, LoadingInvHolds, PTL

-----------------------------------------------------------------------------
(* The order of the files.  What a pass makes of the resources is written  *)
(* as a function of their set.                                             *)

(* A table with more entries, a set of keys with their values.             *)
Entered(table, E) ==
  IF E = {} THEN table
  ELSE [k \in DOMAIN table \cup {e[1] : e \in E} |->
          IF \E e \in E : e[1] = k THEN (CHOOSE e \in E : e[1] = k)[2] ELSE table[k]]
Keyed(E) == \A e, g \in E : e[1] = g[1] => e = g

LEMMA EntryFills ==
  ASSUME NEW table, NEW E, NEW k, NEW v, Keyed(E \cup {<<k, v>>})
  PROVE  WithEntry(Entered(table, E), k, v) = Entered(table, E \cup {<<k, v>>})
<1> DEFINE G == E \cup {<<k, v>>}
           t == Entered(table, E)
           u == Entered(table, G)
<1>1. u = [x \in DOMAIN table \cup {e[1] : e \in G} |-> IF \E e \in G : e[1] = x THEN (CHOOSE e \in G : e[1] = x)[2] ELSE table[x]]
  <2>1. G # {}
    OBVIOUS
  <2> HIDE DEF G
  <2> QED BY <2>1 DEF Entered
<1>2. DOMAIN t = DOMAIN table \cup {e[1] : e \in E}
  BY DEF Entered
<1>3. \A x \in DOMAIN t : t[x] = IF \E e \in E : e[1] = x THEN (CHOOSE e \in E : e[1] = x)[2] ELSE table[x]
  BY DEF Entered
<1>4. WithEntry(t, k, v) = [x \in DOMAIN t \cup {k} |-> IF x = k THEN v ELSE t[x]]
  BY DEF WithEntry, With
<1>5. \A e \in G : (CHOOSE e2 \in G : e2[1] = e[1]) = e
  <2> SUFFICES ASSUME NEW e \in G PROVE (CHOOSE e2 \in G : e2[1] = e[1]) = e
    OBVIOUS
  <2> QED BY DEF Keyed
<1>6. \A e \in E : (CHOOSE e2 \in E : e2[1] = e[1]) = e
  <2> SUFFICES ASSUME NEW e \in E PROVE (CHOOSE e2 \in E : e2[1] = e[1]) = e
    OBVIOUS
  <2> QED BY DEF Keyed
<1>7. <<k, v>> \in G /\ <<k, v>>[1] = k /\ <<k, v>>[2] = v /\ \A e \in G : e \in E \/ e = <<k, v>>
  OBVIOUS
<1>8. {e[1] : e \in G} = {e[1] : e \in E} \cup {k}
  BY <1>7
<1> HIDE DEF t, u
<1>9. ASSUME NEW x \in DOMAIN t \cup {k}
      PROVE  (IF x = k THEN v ELSE t[x]) = IF \E e \in G : e[1] = x THEN (CHOOSE e \in G : e[1] = x)[2] ELSE table[x]
  <2>1. CASE x = k
    <3>1. (CHOOSE e \in G : e[1] = k) = <<k, v>>
      BY <1>5, <1>7
    <3> HIDE DEF G
    <3> QED BY <1>7, <2>1, <3>1
  <2>2. CASE x # k /\ \E e \in E : e[1] = x
    <3>1. PICK e \in E : e[1] = x
      BY <2>2
    <3>2. e \in G /\ (CHOOSE e2 \in E : e2[1] = x) = e /\ (CHOOSE e2 \in G : e2[1] = x) = e
      BY <1>5, <1>6, <3>1
    <3>3. x \in DOMAIN t
      BY <2>2
    <3>4. t[x] = e[2]
      BY <1>3, <3>1, <3>2, <3>3
    <3> QED BY <2>2, <3>1, <3>2, <3>4
  <2>3. CASE x # k /\ ~(\E e \in E : e[1] = x)
    <3>1. ~(\E e \in G : e[1] = x)
      BY <1>7, <2>3
    <3>2. x \in DOMAIN t
      BY <2>3
    <3>3. t[x] = table[x]
      BY <1>3, <2>3, <3>2
    <3> QED BY <2>3, <3>1, <3>3
  <2> QED BY <2>1, <2>2, <2>3
<1> HIDE DEF G
<1>10. DOMAIN t \cup {k} = DOMAIN table \cup {e[1] : e \in G}
  BY <1>2, <1>8
<1>11. [x \in DOMAIN t \cup {k} |-> IF x = k THEN v ELSE t[x]]
       = [x \in DOMAIN table \cup {e[1] : e \in G} |-> IF \E e \in G : e[1] = x THEN (CHOOSE e \in G : e[1] = x)[2] ELSE table[x]]
  BY <1>9, <1>10
<1> QED BY <1>1, <1>4, <1>11 DEF t, u, G

(* The owners of the aliases of some resources.                            *)
AliasesOf(r) == ToSet(Aliases(Field(r.props, "DistributionConfig")))
Owners(R) == [a \in UNION {AliasesOf(r) : r \in R} |-> (CHOOSE r \in R : a \in AliasesOf(r)).id]
Apart(R) == \A q, r \in R : q # r => AliasesOf(q) \cap AliasesOf(r) = {}

LEMMA OwnersOfMore ==
  ASSUME NEW R, NEW r, r \notin R, Apart(R \cup {r})
  PROVE  With(Owners(R), [a \in AliasesOf(r) |-> r.id]) = Owners(R \cup {r})
<1> DEFINE Q == R \cup {r}
<1>1. UNION {AliasesOf(q) : q \in Q} = (UNION {AliasesOf(q) : q \in R}) \cup AliasesOf(r)
  <2>1. \A a : a \in UNION {AliasesOf(q) : q \in Q} <=> \E q \in Q : a \in AliasesOf(q)
    OBVIOUS
  <2>2. \A a : a \in UNION {AliasesOf(q) : q \in R} <=> \E q \in R : a \in AliasesOf(q)
    OBVIOUS
  <2> DEFINE A == UNION {AliasesOf(q) : q \in Q}
             B == UNION {AliasesOf(q) : q \in R}
  <2>3. \A a : a \in A <=> a \in B \cup AliasesOf(r)
    <3> SUFFICES ASSUME NEW a PROVE a \in A <=> a \in B \/ a \in AliasesOf(r)
      OBVIOUS
    <3>1. (\E q \in Q : a \in AliasesOf(q)) <=> (\E q \in R : a \in AliasesOf(q)) \/ a \in AliasesOf(r)
      OBVIOUS
    <3> QED BY <2>1, <2>2, <3>1
  <2> HIDE DEF A, B
  <2>4. A = B \cup AliasesOf(r)
    BY <2>3
  <2> QED BY <2>4 DEF A, B
<1>2. ASSUME NEW a, NEW q \in Q, a \in AliasesOf(q)
      PROVE  (CHOOSE p \in Q : a \in AliasesOf(p)) = q
  BY <1>2 DEF Apart
<1>3. ASSUME NEW a, NEW q \in R, a \in AliasesOf(q)
      PROVE  (CHOOSE p \in R : a \in AliasesOf(p)) = q /\ a \notin AliasesOf(r)
  BY <1>3 DEF Apart
<1>4. ASSUME NEW a \in UNION {AliasesOf(q) : q \in Q}
      PROVE  (IF a \in AliasesOf(r) THEN r.id ELSE Owners(R)[a]) = (CHOOSE p \in Q : a \in AliasesOf(p)).id
  <2>1. CASE a \in AliasesOf(r)
    BY <1>2, <2>1
  <2>2. CASE a \notin AliasesOf(r)
    <3>1. PICK q \in R : a \in AliasesOf(q)
      BY <1>1, <2>2
    <3>2. (CHOOSE p \in Q : a \in AliasesOf(p)) = q /\ (CHOOSE p \in R : a \in AliasesOf(p)) = q
      BY <1>2, <1>3, <3>1
    <3>3. Owners(R)[a] = q.id
      BY <3>1, <3>2 DEF Owners
    <3> QED BY <2>2, <3>2, <3>3
  <2> QED BY <2>1, <2>2
<1>5. DOMAIN Owners(R) = UNION {AliasesOf(q) : q \in R}
  BY DEF Owners
<1>6. With(Owners(R), [a \in AliasesOf(r) |-> r.id])
      = [a \in UNION {AliasesOf(q) : q \in Q} |-> IF a \in AliasesOf(r) THEN r.id ELSE Owners(R)[a]]
  BY <1>1, <1>5 DEF With
<1>7. Owners(Q) = [a \in UNION {AliasesOf(q) : q \in Q} |-> (CHOOSE p \in Q : a \in AliasesOf(p)).id]
  BY DEF Owners
<1> HIDE DEF Q
<1>8. With(Owners(R), [a \in AliasesOf(r) |-> r.id]) = Owners(Q)
  BY <1>4, <1>6, <1>7
<1> QED BY <1>8 DEF Q

LEMMA OwnersOfNone == Owners({}) = <<>>
<1>1. Owners({}) = [a \in {} |-> (CHOOSE r \in {} : a \in AliasesOf(r)).id]
  BY DEF Owners
<1> QED BY <1>1

(* What a builder holds, its lists as sets.                                *)
SaidOf(b) ==
  [ok |-> b.ok, raw |-> ToSet(b.raw), policies |-> b.policies, keys |-> b.keys, keyGroups |-> b.keyGroups, stores |-> b.stores,
   functions |-> b.functions, functionsByARN |-> b.functionsByARN, aliasOwner |-> b.aliasOwner, distributions |-> ToSet(b.distributions)]

WithFunctions(s, functions, functionsByARN) ==
  [ok |-> s.ok, raw |-> s.raw, policies |-> s.policies, keys |-> s.keys, keyGroups |-> s.keyGroups, stores |-> s.stores,
   functions |-> functions, functionsByARN |-> functionsByARN, aliasOwner |-> s.aliasOwner, distributions |-> s.distributions]

WithDistributions(s, distributions, aliasOwner) ==
  [ok |-> s.ok, raw |-> s.raw, policies |-> s.policies, keys |-> s.keys, keyGroups |-> s.keyGroups, stores |-> s.stores,
   functions |-> s.functions, functionsByARN |-> s.functionsByARN, aliasOwner |-> aliasOwner, distributions |-> distributions]

Shaped(b) == DOMAIN b = DOMAIN Builder(<<>>) /\ b.ok \in BOOLEAN /\ IsSeq(b.distributions)

(* When a pass over a set of resources succeeds, and what it leaves then.  *)
Valid(s, r) ==
  /\ HasShape(r.props)
  /\ r.type = "KeyValueStore" => StoreIsValid(r)
  /\ r.type = "PublicKey" => KeyOf(r).code # <<>>
  /\ r.type = "KeyGroup" => Has(r.props, "KeyGroupConfig") /\ Known(KeyItems(r), s.keys)
  /\ r.type \in PolicyTypes => Has(r.props, PolicyField(r))
  /\ r.type = "Function" => FunctionIsValid(s, r)
  /\ r.type = "Distribution" => /\ Has(r.props, "DistributionConfig")
                                /\ DistributionIsValid(s, r, Field(r.props, "DistributionConfig"))

Passable(k, s, R) == (\A r \in R : Valid(s, r)) /\ (k = 7 => Apart(R))

PolicyEntry(r) == <<ID(r.type, r.id), PolicyOf(r, r.props.fields[PolicyField(r)])>>
FunctionEntry(s, r) == <<FunctionARN(Resource(s.raw, r.id)), FunctionOf(s, r)>>

After(k, s, R) ==
  CASE k = 2 -> [s EXCEPT !.stores = Entered(@, {<<StoreARN(r), StoreOf(r)>> : r \in R})]
    [] k = 3 -> [s EXCEPT !.keys = Entered(@, {<<ID(r.type, r.id), KeyOf(r)>> : r \in R})]
    [] k = 4 -> [s EXCEPT !.keyGroups = Entered(@, {<<ID(r.type, r.id), KeyGroupOf(s, r)>> : r \in R})]
    [] k = 5 /\ R # {} -> [s EXCEPT !.policies = [t \in DOMAIN @ |-> Entered(@[t], {PolicyEntry(r) : r \in {q \in R : q.type = t}})]]
    [] k = 6 -> WithFunctions(s, s.functions \cup {FunctionOf(s, r) : r \in R},
                              Entered(s.functionsByARN, {FunctionEntry(s, r) : r \in R}))
    [] k = 7 -> WithDistributions(s, s.distributions \cup {DistributionOf(s, r) : r \in R}, Owners(R))
    [] OTHER -> s

Passed(k, b0, b, R) ==
  /\ Shaped(b) /\ b.raw = b0.raw
  /\ b.ok <=> Passable(k, SaidOf(b0), R)
  /\ b.ok => SaidOf(b) = After(k, SaidOf(b0), R)

LEMMA ShapedFields ==
  ASSUME NEW b, Shaped(b)
  PROVE  DOMAIN b = {"ok", "raw", "policies", "keys", "keyGroups", "stores", "functions", "functionsByARN", "aliasOwner", "distributions"}
BY BuilderFields DEF Shaped

LEMMA IDsDiffer ==
  ASSUME NEW q, NEW r, q.id # r.id
  PROVE  ID(q.type, q.id) # ID(r.type, r.id) /\ StoreARN(q) # StoreARN(r)
<1>1. ID(q.type, q.id) # ID(r.type, r.id)
  <2>1. <<"id", q.type, q.id>> # <<"id", r.type, r.id>>
    OBVIOUS
  <2>2. ID(q.type, q.id)[1] = <<"id", q.type, q.id>> /\ ID(r.type, r.id)[1] = <<"id", r.type, r.id>>
    BY DEF ID
  <2> QED BY <2>1, <2>2
<1>2. ASSUME NEW x PROVE /\ Len(ID(x.type, x.id)) = 1 /\ IsSeq(ID(x.type, x.id))
                         /\ StoreARN(x)[2] = ID(x.type, x.id)[1]
  <2> DEFINE i == ID(x.type, x.id)
             a == <<<<"arn", "KeyValueStore", "">>>>
  <2>1. a \in Seq({a[1]}) /\ Len(a) = 1 /\ i \in Seq({i[1]}) /\ Len(i) = 1
    BY DEF ID
  <2>2. StoreARN(x) = a \o i
    BY DEF StoreARN, ARN
  <2> HIDE DEF a, i
  <2>3. IsSeq(a) /\ IsSeq(i)
    BY <2>1, SeqOfSome
  <2>4. (a \o i)[Len(a) + 1] = i[1]
    <3>1. 1 \in 1 .. Len(i)
      BY <2>1
    <3> QED BY <2>3, <3>1, Concatenated
  <2>5. Len(a) + 1 = 2
    BY <2>1
  <2> QED BY <2>1, <2>2, <2>3, <2>4, <2>5 DEF i
<1>3. ID(q.type, q.id)[1] # ID(r.type, r.id)[1]
  BY DEF ID
<1> QED BY <1>1, <1>2, <1>3

(* A step that fails, and what follows a failure.                          *)
LEMMA FailedPass ==
  ASSUME NEW k, NEW b0, NEW b, NEW R, Passed(k, b0, b, R), NEW r, ~Valid(SaidOf(b0), r) \/ ~b.ok \/ (k = 7 /\ ~Apart(R \cup {r}))
  PROVE  /\ ~Passable(k, SaidOf(b0), R \cup {r})
         /\ Passed(k, b0, Fail(b), R \cup {r}) /\ (~b.ok => Passed(k, b0, b, R \cup {r}))
<1>1. ~Passable(k, SaidOf(b0), R \cup {r})
  <2>1. CASE ~b.ok
    BY <2>1 DEF Passed, Passable, Apart
  <2> QED BY <2>1 DEF Passable
<1>2. Shaped(Fail(b)) /\ Fail(b).raw = b.raw /\ Fail(b).ok = FALSE
  <2>1. DOMAIN b = {"ok", "raw", "policies", "keys", "keyGroups", "stores", "functions", "functionsByARN", "aliasOwner", "distributions"}
    BY ShapedFields DEF Passed
  <2> QED BY <2>1 DEF Fail, Passed, Shaped
<1> QED BY <1>1, <1>2 DEF Passed

LEMMA SaidWith ==
  ASSUME NEW b, Shaped(b), NEW x
  PROVE  /\ SaidOf([b EXCEPT !.stores = x]) = [SaidOf(b) EXCEPT !.stores = x]
         /\ SaidOf([b EXCEPT !.keys = x]) = [SaidOf(b) EXCEPT !.keys = x]
         /\ SaidOf([b EXCEPT !.keyGroups = x]) = [SaidOf(b) EXCEPT !.keyGroups = x]
         /\ SaidOf([b EXCEPT !.policies = x]) = [SaidOf(b) EXCEPT !.policies = x]
<1>1. DOMAIN b = {"ok", "raw", "policies", "keys", "keyGroups", "stores", "functions", "functionsByARN", "aliasOwner", "distributions"}
  BY ShapedFields
<1>2. SaidOf([b EXCEPT !.stores = x]) = [SaidOf(b) EXCEPT !.stores = x]
  <2> DEFINE c == [b EXCEPT !.stores = x]
  <2>1. /\ c.ok = b.ok /\ c.raw = b.raw /\ c.policies = b.policies /\ c.keys = b.keys /\ c.keyGroups = b.keyGroups /\ c.stores = x
        /\ c.functions = b.functions /\ c.functionsByARN = b.functionsByARN /\ c.aliasOwner = b.aliasOwner /\ c.distributions = b.distributions
    BY <1>1
  <2> HIDE DEF c
  <2>2. SaidOf(c) = [SaidOf(b) EXCEPT !.stores = x]
    BY <2>1 DEF SaidOf
  <2> QED BY <2>2 DEF c
<1>3. SaidOf([b EXCEPT !.keys = x]) = [SaidOf(b) EXCEPT !.keys = x]
  <2> DEFINE c == [b EXCEPT !.keys = x]
  <2>1. /\ c.ok = b.ok /\ c.raw = b.raw /\ c.policies = b.policies /\ c.keys = x /\ c.keyGroups = b.keyGroups /\ c.stores = b.stores
        /\ c.functions = b.functions /\ c.functionsByARN = b.functionsByARN /\ c.aliasOwner = b.aliasOwner /\ c.distributions = b.distributions
    BY <1>1
  <2> HIDE DEF c
  <2>2. SaidOf(c) = [SaidOf(b) EXCEPT !.keys = x]
    BY <2>1 DEF SaidOf
  <2> QED BY <2>2 DEF c
<1>4. SaidOf([b EXCEPT !.keyGroups = x]) = [SaidOf(b) EXCEPT !.keyGroups = x]
  <2> DEFINE c == [b EXCEPT !.keyGroups = x]
  <2>1. /\ c.ok = b.ok /\ c.raw = b.raw /\ c.policies = b.policies /\ c.keys = b.keys /\ c.keyGroups = x /\ c.stores = b.stores
        /\ c.functions = b.functions /\ c.functionsByARN = b.functionsByARN /\ c.aliasOwner = b.aliasOwner /\ c.distributions = b.distributions
    BY <1>1
  <2> HIDE DEF c
  <2>2. SaidOf(c) = [SaidOf(b) EXCEPT !.keyGroups = x]
    BY <2>1 DEF SaidOf
  <2> QED BY <2>2 DEF c
<1>5. SaidOf([b EXCEPT !.policies = x]) = [SaidOf(b) EXCEPT !.policies = x]
  <2> DEFINE c == [b EXCEPT !.policies = x]
  <2>1. /\ c.ok = b.ok /\ c.raw = b.raw /\ c.policies = x /\ c.keys = b.keys /\ c.keyGroups = b.keyGroups /\ c.stores = b.stores
        /\ c.functions = b.functions /\ c.functionsByARN = b.functionsByARN /\ c.aliasOwner = b.aliasOwner /\ c.distributions = b.distributions
    BY <1>1
  <2> HIDE DEF c
  <2>2. SaidOf(c) = [SaidOf(b) EXCEPT !.policies = x]
    BY <2>1 DEF SaidOf
  <2> QED BY <2>2 DEF c
<1> QED BY <1>2, <1>3, <1>4, <1>5

LEMMA SaidWithFunctions ==
  ASSUME NEW b, Shaped(b), NEW x, NEW y, NEW c, c = [b EXCEPT !.functions = x, !.functionsByARN = y]
  PROVE  SaidOf(c) = WithFunctions(SaidOf(b), x, y)
<1>1. DOMAIN b = {"ok", "raw", "policies", "keys", "keyGroups", "stores", "functions", "functionsByARN", "aliasOwner", "distributions"}
  BY ShapedFields
<1>2. /\ c.ok = b.ok /\ c.raw = b.raw /\ c.policies = b.policies /\ c.keys = b.keys /\ c.keyGroups = b.keyGroups /\ c.stores = b.stores
      /\ c.functions = x /\ c.functionsByARN = y /\ c.aliasOwner = b.aliasOwner /\ c.distributions = b.distributions
  BY <1>1
<1> QED BY <1>2 DEF SaidOf, WithFunctions

LEMMA SaidWithDistributions ==
  ASSUME NEW b, Shaped(b), NEW x, NEW y, NEW c, c = [b EXCEPT !.distributions = x, !.aliasOwner = y]
  PROVE  SaidOf(c) = WithDistributions(SaidOf(b), ToSet(x), y)
<1>1. DOMAIN b = {"ok", "raw", "policies", "keys", "keyGroups", "stores", "functions", "functionsByARN", "aliasOwner", "distributions"}
  BY ShapedFields
<1>2. /\ c.ok = b.ok /\ c.raw = b.raw /\ c.policies = b.policies /\ c.keys = b.keys /\ c.keyGroups = b.keyGroups /\ c.stores = b.stores
      /\ c.functions = b.functions /\ c.functionsByARN = b.functionsByARN /\ c.aliasOwner = y /\ c.distributions = x
  BY <1>1
<1> QED BY <1>2 DEF SaidOf, WithDistributions

OneEach(R) == \A q, r \in R : q.id = r.id => q = r

LEMMA StorePassed ==
  ASSUME NEW b0, b0.ok, NEW b, b.ok, NEW R, Passed(2, b0, b, R), NEW r, OneEach(R \cup {r}), r.type = "KeyValueStore", HasShape(r.props)
  PROVE  Passed(2, b0, KeyValueStore(b, r), R \cup {r})
<1> DEFINE s == SaidOf(b0)
           c == KeyValueStore(b, r)
           E == {<<StoreARN(q), StoreOf(q)>> : q \in R}
           G == {<<StoreARN(q), StoreOf(q)>> : q \in R \cup {r}}
<1>1. CASE ~StoreIsValid(r)
  <2>1. ~Valid(s, r) /\ c = Fail(b)
    BY <1>1 DEF Valid, KeyValueStore
  <2> QED BY <2>1, FailedPass
<1>2. CASE StoreIsValid(r)
  <2>1. c = [b EXCEPT !.stores = WithEntry(@, StoreARN(r), StoreOf(r))]
    BY <1>2 DEF KeyValueStore
  <2>2. Passable(2, s, R \cup {r})
    BY <1>2 DEF Passed, Passable, Valid, PolicyTypes
  <2>3. G = E \cup {<<StoreARN(r), StoreOf(r)>>}
    OBVIOUS
  <2>4. Keyed(G)
    <3> SUFFICES ASSUME NEW p \in R \cup {r}, NEW q \in R \cup {r}, StoreARN(p) = StoreARN(q) PROVE p = q
      BY DEF Keyed
    <3> QED BY IDsDiffer DEF OneEach
  <2> HIDE DEF c
  <2>5. SaidOf(b) = [s EXCEPT !.stores = Entered(@, E)]
    BY DEF Passed, After
  <2> HIDE DEF E, G
  <2>6. b.stores = Entered(s.stores, E)
    BY <2>5 DEF SaidOf
  <2>7. c = [b EXCEPT !.stores = Entered(s.stores, G)]
    BY <2>1, <2>3, <2>4, <2>6, EntryFills
  <2>8. DOMAIN b = {"ok", "raw", "policies", "keys", "keyGroups", "stores", "functions", "functionsByARN", "aliasOwner", "distributions"}
    BY ShapedFields DEF Passed
  <2>9. c.raw = b.raw /\ c.ok = b.ok /\ c.distributions = b.distributions /\ c.stores = Entered(s.stores, G) /\ Shaped(c)
    BY <2>7, <2>8 DEF Passed, Shaped
  <2>10. SaidOf(c) = [SaidOf(b) EXCEPT !.stores = Entered(s.stores, G)]
    BY <2>7, SaidWith DEF Passed
  <2>11. SaidOf(c) = [s EXCEPT !.stores = Entered(@, G)]
    BY <2>5, <2>10 DEF SaidOf
  <2>12. SaidOf(c) = After(2, s, R \cup {r})
    BY <2>11 DEF After, G
  <2> QED BY <2>2, <2>9, <2>12 DEF Passed, c
<1> QED BY <1>1, <1>2

LEMMA KeyPassed ==
  ASSUME NEW b0, b0.ok, NEW b, b.ok, NEW R, Passed(3, b0, b, R), NEW r, OneEach(R \cup {r}), r.type = "PublicKey", HasShape(r.props)
  PROVE  Passed(3, b0, PublicKey(b, r), R \cup {r})
<1> DEFINE s == SaidOf(b0)
           c == PublicKey(b, r)
           E == {<<ID(q.type, q.id), KeyOf(q)>> : q \in R}
           G == {<<ID(q.type, q.id), KeyOf(q)>> : q \in R \cup {r}}
<1>1. CASE KeyOf(r).code = <<>>
  <2>1. ~Valid(s, r) /\ c = Fail(b)
    BY <1>1 DEF Valid, PublicKey
  <2> QED BY <2>1, FailedPass
<1>2. CASE KeyOf(r).code # <<>>
  <2>1. c = [b EXCEPT !.keys = WithEntry(@, ID(r.type, r.id), KeyOf(r))]
    BY <1>2 DEF PublicKey
  <2>2. Passable(3, s, R \cup {r})
    BY <1>2 DEF Passed, Passable, Valid, PolicyTypes
  <2>3. G = E \cup {<<ID(r.type, r.id), KeyOf(r)>>}
    OBVIOUS
  <2>4. Keyed(G)
    <3> SUFFICES ASSUME NEW p \in R \cup {r}, NEW q \in R \cup {r}, ID(p.type, p.id) = ID(q.type, q.id) PROVE p = q
      BY DEF Keyed
    <3> QED BY IDsDiffer DEF OneEach
  <2> HIDE DEF c
  <2>5. SaidOf(b) = [s EXCEPT !.keys = Entered(@, E)]
    BY DEF Passed, After
  <2> HIDE DEF E, G
  <2>6. b.keys = Entered(s.keys, E)
    BY <2>5 DEF SaidOf
  <2>7. c = [b EXCEPT !.keys = Entered(s.keys, G)]
    BY <2>1, <2>3, <2>4, <2>6, EntryFills
  <2>8. DOMAIN b = {"ok", "raw", "policies", "keys", "keyGroups", "stores", "functions", "functionsByARN", "aliasOwner", "distributions"}
    BY ShapedFields DEF Passed
  <2>9. c.raw = b.raw /\ c.ok = b.ok /\ c.distributions = b.distributions /\ c.keys = Entered(s.keys, G) /\ Shaped(c)
    BY <2>7, <2>8 DEF Passed, Shaped
  <2>10. SaidOf(c) = [SaidOf(b) EXCEPT !.keys = Entered(s.keys, G)]
    BY <2>7, SaidWith DEF Passed
  <2>11. SaidOf(c) = [s EXCEPT !.keys = Entered(@, G)]
    BY <2>5, <2>10 DEF SaidOf
  <2>12. SaidOf(c) = After(3, s, R \cup {r})
    BY <2>11 DEF After, G
  <2> QED BY <2>2, <2>9, <2>12 DEF Passed, c
<1> QED BY <1>1, <1>2

LEMMA GroupPassed ==
  ASSUME NEW b0, b0.ok, NEW b, b.ok, NEW R, Passed(4, b0, b, R), NEW r, OneEach(R \cup {r}), r.type = "KeyGroup", HasShape(r.props)
  PROVE  Passed(4, b0, KeyGroup(b, r), R \cup {r})
<1> DEFINE s == SaidOf(b0)
           c == KeyGroup(b, r)
           E == {<<ID(q.type, q.id), KeyGroupOf(s, q)>> : q \in R}
           G == {<<ID(q.type, q.id), KeyGroupOf(s, q)>> : q \in R \cup {r}}
<1>0. b.keys = s.keys /\ KeyGroupOf(b, r) = KeyGroupOf(s, r)
  <2>1. SaidOf(b) = After(4, s, R)
    BY DEF Passed
  <2>2. b.keys = s.keys
    BY <2>1 DEF After, SaidOf
  <2> QED BY <2>2 DEF KeyGroupOf
<1>1. CASE ~(Has(r.props, "KeyGroupConfig") /\ Known(KeyItems(r), s.keys))
  <2>1. ~Valid(s, r) /\ c = Fail(b)
    BY <1>0, <1>1 DEF Valid, KeyGroup
  <2> QED BY <2>1, FailedPass
<1>2. CASE Has(r.props, "KeyGroupConfig") /\ Known(KeyItems(r), s.keys)
  <2>1. c = [b EXCEPT !.keyGroups = WithEntry(@, ID(r.type, r.id), KeyGroupOf(b, r))]
    BY <1>0, <1>2 DEF KeyGroup
  <2>2. Passable(4, s, R \cup {r})
    BY <1>2 DEF Passed, Passable, Valid, PolicyTypes
  <2>3. G = E \cup {<<ID(r.type, r.id), KeyGroupOf(s, r)>>}
    OBVIOUS
  <2>4. Keyed(G)
    <3> SUFFICES ASSUME NEW p \in R \cup {r}, NEW q \in R \cup {r}, ID(p.type, p.id) = ID(q.type, q.id) PROVE p = q
      BY DEF Keyed
    <3> QED BY IDsDiffer DEF OneEach
  <2> HIDE DEF c
  <2>5. SaidOf(b) = [s EXCEPT !.keyGroups = Entered(@, E)]
    BY DEF Passed, After
  <2> HIDE DEF E, G
  <2>6. b.keyGroups = Entered(s.keyGroups, E)
    BY <2>5 DEF SaidOf
  <2>7. c = [b EXCEPT !.keyGroups = Entered(s.keyGroups, G)]
    BY <1>0, <2>1, <2>3, <2>4, <2>6, EntryFills
  <2>8. DOMAIN b = {"ok", "raw", "policies", "keys", "keyGroups", "stores", "functions", "functionsByARN", "aliasOwner", "distributions"}
    BY ShapedFields DEF Passed
  <2>9. c.raw = b.raw /\ c.ok = b.ok /\ c.distributions = b.distributions /\ c.keyGroups = Entered(s.keyGroups, G) /\ Shaped(c)
    BY <2>7, <2>8 DEF Passed, Shaped
  <2>10. SaidOf(c) = [SaidOf(b) EXCEPT !.keyGroups = Entered(s.keyGroups, G)]
    BY <2>7, SaidWith DEF Passed
  <2>11. SaidOf(c) = [s EXCEPT !.keyGroups = Entered(@, G)]
    BY <2>5, <2>10 DEF SaidOf
  <2>12. SaidOf(c) = After(4, s, R \cup {r})
    BY <2>11 DEF After, G
  <2> QED BY <2>2, <2>9, <2>12 DEF Passed, c
<1> QED BY <1>1, <1>2

LEMMA PolicyPassed ==
  ASSUME NEW b0, b0.ok, NEW b, b.ok, NEW R, Passed(5, b0, b, R), NEW r, OneEach(R \cup {r}), r.type \in PolicyTypes, HasShape(r.props)
  PROVE  Passed(5, b0, Policy(b, r), R \cup {r})
<1> DEFINE s == SaidOf(b0)
           c == Policy(b, r)
           Of(t, Q) == {PolicyEntry(q) : q \in {p \in Q : p.type = t}}
           After5(Q) == [t \in DOMAIN s.policies |-> Entered(s.policies[t], Of(t, Q))]
           entry == WithEntry(b.policies[r.type], ID(r.type, r.id), PolicyOf(r, r.props.fields[PolicyField(r)]))
<1>1. CASE ~Has(r.props, PolicyField(r))
  <2>1. ~Valid(s, r) /\ c = Fail(b)
    BY <1>1 DEF Valid, Policy
  <2> QED BY <2>1, FailedPass
<1>2. CASE Has(r.props, PolicyField(r))
  <2>1. c = [b EXCEPT !.policies = [b.policies EXCEPT ![r.type] = entry]]
    <3>1. c = [b EXCEPT !.policies = WithPolicy(b.policies, r)]
      BY <1>2 DEF Policy
    <3>2. WithPolicy(b.policies, r) = [b.policies EXCEPT ![r.type] = entry]
      BY DEF WithPolicy
    <3> HIDE DEF c, entry
    <3> QED BY <3>1, <3>2
  <2>2. Passable(5, s, R \cup {r})
    BY <1>2 DEF Passed, Passable, Valid, PolicyTypes
  <2> HIDE DEF c, entry
  <2>3. /\ DOMAIN b.policies = DOMAIN s.policies
        /\ \A t \in DOMAIN s.policies : b.policies[t] = Entered(s.policies[t], Of(t, R))
    <3>1. SaidOf(b) = After(5, s, R)
      BY DEF Passed
    <3>2. CASE R = {}
      <4>1. b.policies = s.policies
        BY <3>1, <3>2 DEF After, SaidOf
      <4>2. \A t : Of(t, R) = {}
        BY <3>2
      <4> QED BY <4>1, <4>2 DEF Entered
    <3>3. CASE R # {}
      <4>1. After(5, s, R) = [s EXCEPT !.policies = After5(R)]
        BY <3>3 DEF After
      <4> HIDE DEF After5
      <4>2. b.policies = After5(R)
        BY <3>1, <4>1 DEF SaidOf
      <4> QED BY <4>2 DEF After5
    <3> QED BY <3>2, <3>3
  <2>4. [b.policies EXCEPT ![r.type] = entry] = After5(R \cup {r})
    <3>1. [b.policies EXCEPT ![r.type] = entry] = [t \in DOMAIN s.policies |-> IF t = r.type THEN entry ELSE b.policies[t]]
      BY <2>3
    <3>2. ASSUME NEW t \in DOMAIN s.policies
          PROVE  (IF t = r.type THEN entry ELSE b.policies[t]) = Entered(s.policies[t], Of(t, R \cup {r}))
      <4>1. CASE t = r.type
        <5>1. Of(t, R \cup {r}) = Of(t, R) \cup {PolicyEntry(r)}
          BY <4>1
        <5>2. Keyed(Of(t, R) \cup {PolicyEntry(r)})
          <6> SUFFICES ASSUME NEW p \in R \cup {r}, NEW q \in R \cup {r}, ID(p.type, p.id) = ID(q.type, q.id) PROVE p = q
            BY <5>1 DEF Keyed, PolicyEntry
          <6> QED BY IDsDiffer DEF OneEach
        <5>3. entry = WithEntry(Entered(s.policies[t], Of(t, R)), ID(r.type, r.id), PolicyOf(r, r.props.fields[PolicyField(r)]))
          BY <2>3, <4>1 DEF entry
        <5> DEFINE k == ID(r.type, r.id)
                   v == PolicyOf(r, r.props.fields[PolicyField(r)])
                   T == s.policies[t]
                   E == Of(t, R)
        <5>4. PolicyEntry(r) = <<k, v>>
          BY DEF PolicyEntry
        <5>5. Keyed(E \cup {<<k, v>>}) /\ entry = WithEntry(Entered(T, E), k, v) /\ Of(t, R \cup {r}) = E \cup {<<k, v>>}
          BY <5>1, <5>2, <5>3, <5>4
        <5> HIDE DEF Of, k, v, E
        <5>6. entry = Entered(T, Of(t, R \cup {r}))
          BY <5>5, EntryFills
        <5> QED BY <4>1, <5>6
      <4>2. CASE t # r.type
        <5>1. Of(t, R \cup {r}) = Of(t, R)
          BY <4>2
        <5> QED BY <2>3, <4>2, <5>1
      <4> QED BY <4>1, <4>2
    <3> HIDE DEF Of
    <3> QED BY <3>1, <3>2
  <2>5. c = [b EXCEPT !.policies = After5(R \cup {r})]
    BY <2>1, <2>4
  <2>6. After(5, s, R \cup {r}) = [s EXCEPT !.policies = After5(R \cup {r})]
    <3>1. R \cup {r} # {}
      OBVIOUS
    <3> QED BY <3>1 DEF After
  <2>7. DOMAIN b = {"ok", "raw", "policies", "keys", "keyGroups", "stores", "functions", "functionsByARN", "aliasOwner", "distributions"}
    BY ShapedFields DEF Passed
  <2> HIDE DEF After5
  <2>8. c.raw = b.raw /\ c.ok = b.ok /\ c.distributions = b.distributions /\ Shaped(c)
    BY <2>5, <2>7 DEF Passed, Shaped
  <2>9. SaidOf(c) = [SaidOf(b) EXCEPT !.policies = After5(R \cup {r})]
    BY <2>5, SaidWith DEF Passed
  <2>10. \E x : SaidOf(b) = [s EXCEPT !.policies = x]
    <3>1. SaidOf(b) = After(5, s, R)
      BY DEF Passed
    <3>2. CASE R = {}
      <4>1. SaidOf(b) = s
        BY <3>1, <3>2 DEF After
      <4>2. SaidOf(b) = [s EXCEPT !.policies = s.policies]
        BY <4>1 DEF SaidOf
      <4> QED BY <4>2
    <3>3. CASE R # {}
      <4>1. SaidOf(b) = [s EXCEPT !.policies = After5(R)]
        BY <3>1, <3>3 DEF After, After5
      <4> QED BY <4>1
    <3> QED BY <3>2, <3>3
  <2>11. SaidOf(c) = [s EXCEPT !.policies = After5(R \cup {r})]
    BY <2>9, <2>10 DEF SaidOf
  <2> QED BY <2>2, <2>6, <2>8, <2>11 DEF Passed, c
<1> QED BY <1>1, <1>2

(* No two functions have the same ARN.                                     *)
ARNsDiffer(s, R) == \A q, r \in R : FunctionARN(Resource(s.raw, q.id)) = FunctionARN(Resource(s.raw, r.id)) => q = r

LEMMA FunctionPassed ==
  ASSUME NEW b0, b0.ok, NEW b, b.ok, NEW R, Passed(6, b0, b, R), NEW r, ARNsDiffer(SaidOf(b0), R \cup {r}), r.type = "Function", HasShape(r.props)
  PROVE  Passed(6, b0, Function(b, r), R \cup {r})
<1> DEFINE s == SaidOf(b0)
           c == Function(b, r)
           F == {FunctionOf(s, q) : q \in R}
           E == {FunctionEntry(s, q) : q \in R}
           H == {FunctionOf(s, q) : q \in R \cup {r}}
           G == {FunctionEntry(s, q) : q \in R \cup {r}}
<1>1. SaidOf(b) = WithFunctions(s, s.functions \cup F, Entered(s.functionsByARN, E))
  BY DEF Passed, After
<1>2. b.stores = s.stores /\ ToSet(b.raw) = s.raw /\ b.functions = s.functions \cup F /\ b.functionsByARN = Entered(s.functionsByARN, E)
  <2> HIDE DEF E, F
  <2> QED BY <1>1 DEF SaidOf, WithFunctions
<1>3. FunctionIsValid(b, r) = FunctionIsValid(s, r) /\ FunctionOf(b, r) = FunctionOf(s, r)
  BY <1>2 DEF FunctionIsValid, FunctionOf
<1>4. CASE ~FunctionIsValid(s, r)
  <2>1. ~Valid(s, r) /\ c = Fail(b)
    BY <1>3, <1>4 DEF Valid, Function
  <2> QED BY <2>1, FailedPass
<1>5. CASE FunctionIsValid(s, r)
  <2> DEFINE fn == FunctionOf(s, r)
             arn == FunctionARN(Resource(s.raw, r.id))
  <2>1. c = [b EXCEPT !.functions = b.functions \cup {fn}, !.functionsByARN = WithEntry(b.functionsByARN, arn, fn)]
    BY <1>2, <1>3, <1>5 DEF Function
  <2>2. Passable(6, s, R \cup {r})
    BY <1>5 DEF Passed, Passable, Valid, PolicyTypes
  <2>3. G = E \cup {<<arn, fn>>} /\ H = F \cup {fn}
    BY DEF FunctionEntry
  <2>4. Keyed(G)
    <3> SUFFICES ASSUME NEW p \in R \cup {r}, NEW q \in R \cup {r}, FunctionARN(Resource(s.raw, p.id)) = FunctionARN(Resource(s.raw, q.id)) PROVE p = q
      BY DEF Keyed, FunctionEntry
    <3> QED BY DEF ARNsDiffer
  <2> HIDE DEF c, E, F, G, H, fn, arn
  <2>5. c = [b EXCEPT !.functions = s.functions \cup H, !.functionsByARN = Entered(s.functionsByARN, G)]
    <3>1. WithEntry(b.functionsByARN, arn, fn) = Entered(s.functionsByARN, G)
      BY <1>2, <2>3, <2>4, EntryFills
    <3>2. b.functions \cup {fn} = s.functions \cup H
      BY <1>2, <2>3
    <3> QED BY <2>1, <3>1, <3>2
  <2>6. DOMAIN b = {"ok", "raw", "policies", "keys", "keyGroups", "stores", "functions", "functionsByARN", "aliasOwner", "distributions"}
    BY ShapedFields DEF Passed
  <2>7. c.raw = b.raw /\ c.ok = b.ok /\ c.distributions = b.distributions /\ DOMAIN c = DOMAIN b
    BY <2>5, <2>6
  <2>8. SaidOf(c) = WithFunctions(SaidOf(b), s.functions \cup H, Entered(s.functionsByARN, G))
    <3> DEFINE x == s.functions \cup H
               y == Entered(s.functionsByARN, G)
    <3>1. c = [b EXCEPT !.functions = x, !.functionsByARN = y] /\ Shaped(b)
      BY <2>5 DEF Passed
    <3> HIDE DEF x, y
    <3>2. SaidOf(c) = WithFunctions(SaidOf(b), x, y)
      BY <3>1, SaidWithFunctions
    <3> QED BY <3>2 DEF x, y
  <2>9. SaidOf(c) = WithFunctions(s, s.functions \cup H, Entered(s.functionsByARN, G))
    BY <1>1, <2>8 DEF WithFunctions
  <2>10. SaidOf(c) = After(6, s, R \cup {r})
    BY <2>9 DEF After, G, H
  <2> QED BY <2>2, <2>7, <2>10 DEF Passed, Shaped, c
<1> QED BY <1>4, <1>5

(* A distribution is made from the tables, and so is its validity, but for *)
(* the aliases.                                                            *)
SameTables(b, s) == b.policies = s.policies /\ b.keyGroups = s.keyGroups /\ b.functionsByARN = s.functionsByARN

LEMMA FromTables ==
  ASSUME NEW b, NEW s, SameTables(b, s), NEW r
  PROVE  /\ \A m, origins, d : BehaviorIsValid(b, m, origins, d) <=> BehaviorIsValid(s, m, origins, d)
         /\ DistributionOf(b, r) = DistributionOf(s, r)
<1>1. \A m, origins, d : BehaviorIsValid(b, m, origins, d) <=> BehaviorIsValid(s, m, origins, d)
  BY DEF SameTables, BehaviorIsValid, AssociationsAreValid
<1>2. \A m : BehaviorOf(b, m) = BehaviorOf(s, m)
  BY DEF SameTables, BehaviorOf
<1>3. DistributionOf(b, r) = DistributionOf(s, r)
  BY <1>2 DEF DistributionOf
<1> QED BY <1>1, <1>3

Unowned(b, r, aliases) ==
  \A i \in DOMAIN aliases : aliases[i] \in DOMAIN b.aliasOwner => b.aliasOwner[aliases[i]] = r.id

LEMMA ValidFromTables ==
  ASSUME NEW b, NEW s, SameTables(b, s), NEW r, NEW settings, Unowned(s, r, Aliases(settings))
  PROVE  DistributionIsValid(b, r, settings) <=> DistributionIsValid(s, r, settings) /\ Unowned(b, r, Aliases(settings))
<1>1. \A m, origins, d : BehaviorIsValid(b, m, origins, d) <=> BehaviorIsValid(s, m, origins, d)
  BY FromTables
<1> DEFINE aliases == Aliases(settings)
           origins == Maps(settings, "Origins")
           behaviors == BehaviorsOf(settings)
           errors == Maps(settings, "CustomErrorResponses")
           Others(x) ==
             /\ origins # <<>>
             /\ \A i \in DOMAIN origins : OriginIsValid(origins[i])
             /\ \A i, j \in DOMAIN origins : Text(origins[i], "Id") = Text(origins[j], "Id") => i = j
             /\ Has(settings, "DefaultCacheBehavior")
             /\ \A i \in DOMAIN behaviors : BehaviorIsValid(x, behaviors[i], origins, i = 1)
             /\ \A i \in DOMAIN errors : Has(errors[i], "ErrorCode") /\ Slashed(Text(errors[i], "ResponsePagePath"))
           NoneMissing == \A i \in DOMAIN aliases : ~IsUnresolved(aliases[i])
<1>2. ASSUME NEW x PROVE DistributionIsValid(x, r, settings) <=> NoneMissing /\ Unowned(x, r, aliases) /\ Others(x)
  <2> DEFINE Both == \A i \in DOMAIN aliases :
                       /\ ~IsUnresolved(aliases[i])
                       /\ aliases[i] \in DOMAIN x.aliasOwner => x.aliasOwner[aliases[i]] = r.id
  <2>1. DistributionIsValid(x, r, settings) <=> Both /\ Others(x)
    BY DEF DistributionIsValid
  <2>2. Both <=> NoneMissing /\ Unowned(x, r, aliases)
    BY DEF Unowned
  <2> HIDE DEF Both, Others, NoneMissing
  <2> QED BY <2>1, <2>2
<1>3. Others(b) <=> Others(s)
  BY <1>1
<1> HIDE DEF Others, NoneMissing, aliases
<1> QED BY <1>2, <1>3 DEF aliases

LEMMA ApartUnowned ==
  ASSUME NEW R, NEW r, r \notin R, OneEach(R \cup {r}), Apart(R), NEW b, b.aliasOwner = Owners(R)
  PROVE  Apart(R \cup {r}) <=> Unowned(b, r, Aliases(Field(r.props, "DistributionConfig")))
<1> DEFINE aliases == Aliases(Field(r.props, "DistributionConfig"))
<1>1. AliasesOf(r) = {aliases[i] : i \in DOMAIN aliases}
  BY DEF AliasesOf, ToSet
<1>2. DOMAIN Owners(R) = UNION {AliasesOf(q) : q \in R}
  BY DEF Owners
<1>3. ASSUME NEW a \in DOMAIN Owners(R) PROVE Owners(R)[a] # r.id
  <2>1. PICK q \in R : a \in AliasesOf(q)
    BY <1>2
  <2>2. (CHOOSE p \in R : a \in AliasesOf(p)) \in R
    BY <2>1
  <2>3. Owners(R)[a] = (CHOOSE p \in R : a \in AliasesOf(p)).id
    BY <1>2 DEF Owners
  <2> QED BY <2>2, <2>3 DEF OneEach
<1>4. Unowned(b, r, aliases) <=> \A a \in AliasesOf(r) : a \notin DOMAIN Owners(R)
  BY <1>1, <1>3 DEF Unowned
<1>5. (\A a \in AliasesOf(r) : a \notin DOMAIN Owners(R)) <=> \A q \in R : AliasesOf(q) \cap AliasesOf(r) = {}
  BY <1>2
<1>6. Apart(R \cup {r}) <=> \A q \in R : AliasesOf(q) \cap AliasesOf(r) = {}
  BY DEF Apart
<1> QED BY <1>4, <1>5, <1>6

LEMMA DistributionPassed ==
  ASSUME NEW b0, b0.ok, b0.aliasOwner = <<>>, NEW b, b.ok, NEW R, Passed(7, b0, b, R), NEW r, r \notin R, OneEach(R \cup {r}),
         r.type = "Distribution", HasShape(r.props)
  PROVE  Passed(7, b0, Distribution(b, r), R \cup {r})
<1> DEFINE s == SaidOf(b0)
           c == Distribution(b, r)
           settings == Field(r.props, "DistributionConfig")
           D == {DistributionOf(s, q) : q \in R}
           H == {DistributionOf(s, q) : q \in R \cup {r}}
           d == DistributionOf(s, r)
<1>1. SaidOf(b) = WithDistributions(s, s.distributions \cup D, Owners(R))
  BY DEF Passed, After
<1>2. SameTables(b, s) /\ b.aliasOwner = Owners(R) /\ ToSet(b.distributions) = s.distributions \cup D
  <2> HIDE DEF D
  <2> QED BY <1>1 DEF SaidOf, WithDistributions, SameTables
<1>3. DistributionOf(b, r) = d
  BY <1>2, FromTables
<1>4. DistributionIsValid(b, r, settings) <=> DistributionIsValid(s, r, settings) /\ Apart(R \cup {r})
  <2>1. Unowned(s, r, Aliases(settings))
    BY DEF Unowned, SaidOf
  <2>2. Apart(R)
    BY DEF Passed, Passable
  <2> HIDE DEF s
  <2> QED BY <1>2, <2>1, <2>2, ValidFromTables, ApartUnowned
<1>5. CASE ~Has(r.props, "DistributionConfig") \/ ~DistributionIsValid(b, r, settings)
  <2>1. (~Valid(s, r) \/ ~Apart(R \cup {r})) /\ c = Fail(b)
    BY <1>4, <1>5 DEF Valid, Distribution
  <2>2. ~Valid(s, r) => Passed(7, b0, Fail(b), R \cup {r})
    BY FailedPass
  <2>3. ~Apart(R \cup {r}) => Passed(7, b0, Fail(b), R \cup {r})
    BY FailedPass
  <2> QED BY <2>1, <2>2, <2>3
<1>6. CASE Has(r.props, "DistributionConfig") /\ DistributionIsValid(b, r, settings)
  <2>1. c = [b EXCEPT !.distributions = Append(b.distributions, d), !.aliasOwner = With(Owners(R), [a \in d.aliases |-> r.id])]
    BY <1>2, <1>3, <1>6 DEF Distribution
  <2>2. Passable(7, s, R \cup {r}) /\ Apart(R \cup {r})
    BY <1>4, <1>6 DEF Passed, Passable, Valid, PolicyTypes
  <2>3. H = D \cup {d}
    OBVIOUS
  <2>4. d.aliases = AliasesOf(r)
    BY DEF DistributionOf, AliasesOf
  <2> HIDE DEF c, D, H, d
  <2> DEFINE x == Append(b.distributions, d)
             y == Owners(R \cup {r})
  <2>5. With(Owners(R), [a \in d.aliases |-> r.id]) = y
    BY <2>2, <2>4, OwnersOfMore
  <2>6. IsSeq(x) /\ ToSet(x) = s.distributions \cup H
    BY <1>2, <2>3, Appended DEF Passed, Shaped
  <2> HIDE DEF x, y
  <2>7. c = [b EXCEPT !.distributions = x, !.aliasOwner = y]
    BY <2>1, <2>5 DEF x
  <2>8. DOMAIN b = {"ok", "raw", "policies", "keys", "keyGroups", "stores", "functions", "functionsByARN", "aliasOwner", "distributions"}
    BY ShapedFields DEF Passed
  <2>9. c.raw = b.raw /\ c.ok = b.ok /\ c.distributions = x /\ DOMAIN c = DOMAIN b
    BY <2>7, <2>8
  <2>10. SaidOf(c) = WithDistributions(SaidOf(b), s.distributions \cup H, y)
    <3>1. SaidOf(c) = WithDistributions(SaidOf(b), ToSet(x), y)
      BY <2>7, SaidWithDistributions DEF Passed
    <3> QED BY <2>6, <3>1
  <2>11. SaidOf(c) = WithDistributions(s, s.distributions \cup H, y)
    BY <1>1, <2>10 DEF WithDistributions
  <2>12. SaidOf(c) = After(7, s, R \cup {r})
    BY <2>11 DEF After, H, y
  <2> QED BY <2>2, <2>6, <2>9, <2>12 DEF Passed, Shaped, c
<1> QED BY <1>5, <1>6

LEMMA BuildOnePassed ==
  ASSUME NEW k \in 1 .. 7, NEW b0, b0.ok, k = 7 => b0.aliasOwner = <<>>, NEW b, b.ok, NEW R, Passed(k, b0, b, R),
         NEW r, r \notin R, OneEach(R \cup {r}), r.type \in Passes[k], k = 6 => ARNsDiffer(SaidOf(b0), R \cup {r})
  PROVE  Passed(k, b0, BuildOne(b, r), R \cup {r})
<1> DEFINE Q == R \cup {r}
<1>1. CASE ~HasShape(r.props)
  <2>1. ~Valid(SaidOf(b0), r) /\ BuildOne(b, r) = Fail(b)
    BY <1>1 DEF Valid, BuildOne
  <2>2. ~Valid(SaidOf(b0), r) => Passed(k, b0, Fail(b), R \cup {r})
    BY FailedPass
  <2> QED BY <2>1, <2>2
<1>2. CASE HasShape(r.props)
  <2>0. /\ Passes[1] = {"OriginAccessControl"} /\ Passes[2] = {"KeyValueStore"} /\ Passes[3] = {"PublicKey"} /\ Passes[4] = {"KeyGroup"}
        /\ Passes[5] = PolicyTypes /\ Passes[6] = {"Function"} /\ Passes[7] = {"Distribution"}
    BY DEF Passes
  <2>1. CASE k = 1
    <3>1. r.type = "OriginAccessControl"
      BY <2>0, <2>1
    <3>2. BuildOne(b, r) = b /\ Valid(SaidOf(b0), r)
      BY <1>2, <3>1 DEF BuildOne, Valid, PolicyTypes
    <3>3. Passable(1, SaidOf(b0), Q)
      BY <2>1, <3>2 DEF Passed, Passable
    <3>4. After(1, SaidOf(b0), Q) = After(1, SaidOf(b0), R)
      BY DEF After
    <3> QED BY <2>1, <3>2, <3>3, <3>4 DEF Passed
  <2>2. CASE k = 2
    <3>1. r.type = "KeyValueStore"
      BY <2>0, <2>2
    <3>2. BuildOne(b, r) = KeyValueStore(b, r)
      BY <1>2, <3>1 DEF BuildOne, PolicyTypes
    <3> QED BY <1>2, <2>2, <3>1, <3>2, StorePassed
  <2>3. CASE k = 3
    <3>1. r.type = "PublicKey"
      BY <2>0, <2>3
    <3>2. BuildOne(b, r) = PublicKey(b, r)
      BY <1>2, <3>1 DEF BuildOne, PolicyTypes
    <3> QED BY <1>2, <2>3, <3>1, <3>2, KeyPassed
  <2>4. CASE k = 4
    <3>1. r.type = "KeyGroup"
      BY <2>0, <2>4
    <3>2. BuildOne(b, r) = KeyGroup(b, r)
      BY <1>2, <3>1 DEF BuildOne, PolicyTypes
    <3> QED BY <1>2, <2>4, <3>1, <3>2, GroupPassed
  <2>5. CASE k = 5
    <3>1. r.type \in PolicyTypes
      BY <2>0, <2>5
    <3>2. BuildOne(b, r) = Policy(b, r)
      BY <1>2, <3>1 DEF BuildOne, PolicyTypes
    <3> QED BY <1>2, <2>5, <3>1, <3>2, PolicyPassed
  <2>6. CASE k = 6
    <3>1. r.type = "Function"
      BY <2>0, <2>6
    <3>2. BuildOne(b, r) = Function(b, r)
      BY <1>2, <3>1 DEF BuildOne, PolicyTypes
    <3> QED BY <1>2, <2>6, <3>1, <3>2, FunctionPassed
  <2>7. CASE k = 7
    <3>1. r.type = "Distribution"
      BY <2>0, <2>7
    <3>2. BuildOne(b, r) = Distribution(b, r)
      BY <1>2, <3>1 DEF BuildOne, PolicyTypes
    <3> QED BY <1>2, <2>7, <3>1, <3>2, DistributionPassed
  <2> QED BY <2>1, <2>2, <2>3, <2>4, <2>5, <2>6, <2>7
<1> QED BY <1>1, <1>2

LEMMA NothingPassed ==
  ASSUME NEW k \in 1 .. 7, NEW b, Shaped(b), b.ok, k = 7 => b.aliasOwner = <<>>
  PROVE  Passed(k, b, b, {})
<1> DEFINE s == SaidOf(b)
<1>1. Passable(k, s, {})
  BY DEF Passable, Apart
<1>2. After(k, s, {}) = s
  <2>1. CASE k = 2
    <3>1. After(k, s, {}) = [s EXCEPT !.stores = s.stores]
      BY <2>1 DEF After, Entered
    <3> QED BY <3>1 DEF SaidOf
  <2>2. CASE k = 3
    <3>1. After(k, s, {}) = [s EXCEPT !.keys = s.keys]
      BY <2>2 DEF After, Entered
    <3> QED BY <3>1 DEF SaidOf
  <2>3. CASE k = 4
    <3>1. After(k, s, {}) = [s EXCEPT !.keyGroups = s.keyGroups]
      BY <2>3 DEF After, Entered
    <3> QED BY <3>1 DEF SaidOf
  <2>4. CASE k \in {1, 5}
    BY <2>4 DEF After
  <2>5. CASE k = 6
    <3>1. {FunctionOf(s, r) : r \in {}} = {} /\ {FunctionEntry(s, r) : r \in {}} = {}
      OBVIOUS
    <3>2. After(k, s, {}) = WithFunctions(s, s.functions, s.functionsByARN)
      BY <2>5, <3>1 DEF After, Entered
    <3> QED BY <3>2 DEF SaidOf, WithFunctions
  <2>6. CASE k = 7
    <3>1. {DistributionOf(s, r) : r \in {}} = {} /\ s.aliasOwner = <<>>
      BY <2>6 DEF SaidOf
    <3>2. After(k, s, {}) = WithDistributions(s, s.distributions \cup {DistributionOf(s, r) : r \in {}}, Owners({}))
      BY <2>6 DEF After
    <3>3. After(k, s, {}) = WithDistributions(s, s.distributions, s.aliasOwner)
      <4>1. s.distributions \cup {} = s.distributions
        OBVIOUS
      <4> QED BY <3>1, <3>2, <4>1, OwnersOfNone
    <3> QED BY <3>3 DEF SaidOf, WithDistributions
  <2> QED BY <2>1, <2>2, <2>3, <2>4, <2>5, <2>6
<1> QED BY <1>1, <1>2 DEF Passed

Chosen(rs, types) == {r \in ToSet(rs) : r.type \in types}

LEMMA WholePass ==
  ASSUME NEW k \in 1 .. 7, NEW b, Shaped(b), b.ok, k = 7 => b.aliasOwner = <<>>,
         NEW rs, Len(rs) \in Nat, DOMAIN rs = 1 .. Len(rs), DistinctIds(rs), ARNsDiffer(SaidOf(b), Chosen(rs, {"Function"}))
  PROVE  Passed(k, b, Pass(b, rs, Passes[k]), Chosen(rs, Passes[k]))
<1> DEFINE types == Passes[k]
           N == Len(rs)
           C(n) == {rs[i] : i \in {j \in 1 .. n : rs[j].type \in types}}
<1>0. PICK f : PassRun(f, b, rs, types)
  BY PassUnfolds
<1>1. f[0] = b /\ f[N] = Pass(b, rs, types) /\ \A n \in 1 .. N : f[n] = PassNext(f[n - 1], rs[n], types)
  BY <1>0 DEF PassRun
<1> DEFINE T == {n \in 0 .. N : Passed(k, b, f[n], C(n))}
<1>2. C(N) = Chosen(rs, types)
  BY DEF Chosen, ToSet
<1>3. k = 6 => types = {"Function"}
  BY DEF Passes
<1> HIDE DEF types
<1>4. 0 \in T
  <2>1. C(0) = {} /\ 0 \in 0 .. N
    OBVIOUS
  <2> HIDE DEF C
  <2> QED BY <1>1, <2>1, NothingPassed
<1>5. ASSUME NEW n \in 1 .. N, n - 1 \in T PROVE n \in T
  <2>1. n \in 0 .. N /\ n \in DOMAIN rs /\ n \in 1 .. n /\ n \notin 1 .. n - 1 /\ (\A i \in 1 .. n : i = n \/ i \in 1 .. n - 1)
          /\ \A i \in 1 .. n - 1 : i \in 1 .. n /\ i \in DOMAIN rs
    OBVIOUS
  <2> DEFINE c == f[n - 1]
             R == C(n - 1)
             r == rs[n]
  <2>2. Passed(k, b, c, R) /\ f[n] = PassNext(c, r, types)
    BY <1>1, <1>5
  <2>3. r \notin R /\ OneEach(R \cup {r})
    BY <2>1 DEF DistinctIds, OneEach
  <2>4. CASE r.type \notin types
    <3>1. C(n) = R
      BY <2>1, <2>4
    <3>2. f[n] = c
      BY <2>2, <2>4 DEF PassNext
    <3> HIDE DEF C
    <3> QED BY <2>1, <2>2, <3>1, <3>2
  <2>5. CASE r.type \in types
    <3>1. C(n) = R \cup {r}
      BY <2>1, <2>5
    <3>2. CASE ~c.ok
      <4>1. f[n] = c
        BY <2>2, <3>2 DEF PassNext
      <4> HIDE DEF C, R, r, c
      <4>2. Passed(k, b, c, R \cup {r})
        BY <2>2, <3>2, FailedPass
      <4> QED BY <2>1, <3>1, <4>1, <4>2
    <3>3. CASE c.ok
      <4>1. f[n] = BuildOne(c, r)
        BY <2>2, <2>5, <3>3 DEF PassNext
      <4>2. k = 6 => R \cup {r} \subseteq Chosen(rs, {"Function"})
        BY <1>3, <2>1, <2>5 DEF Chosen, ToSet
      <4>3. k = 6 => ARNsDiffer(SaidOf(b), R \cup {r})
        BY <4>2 DEF ARNsDiffer
      <4> HIDE DEF C, R, r, c
      <4>4. Passed(k, b, BuildOne(c, r), R \cup {r})
        BY <2>2, <2>3, <2>5, <3>3, <4>3, BuildOnePassed DEF types
      <4> QED BY <2>1, <3>1, <4>1, <4>4
    <3> QED BY <3>2, <3>3
  <2> QED BY <2>4, <2>5
<1>6. N \in T
  <2> HIDE DEF T
  <2>1. N \in 0 .. N
    OBVIOUS
  <2> QED BY <1>4, <1>5, <2>1, UpTo
<1> HIDE DEF C
<1> QED BY <1>1, <1>2, <1>6 DEF types

LEMMA FailedStays ==
  ASSUME NEW b, b.ok = FALSE, NEW rs, NEW types, Len(rs) \in Nat
  PROVE  Pass(b, rs, types) = b
<1> DEFINE N == Len(rs)
<1>0. PICK f : PassRun(f, b, rs, types)
  BY PassUnfolds
<1>1. f[0] = b /\ f[N] = Pass(b, rs, types) /\ \A n \in 1 .. N : f[n] = PassNext(f[n - 1], rs[n], types)
  BY <1>0 DEF PassRun
<1> DEFINE T == {n \in 0 .. N : f[n] = b}
<1>2. 0 \in T
  BY <1>1
<1>3. ASSUME NEW n \in 1 .. N, n - 1 \in T PROVE n \in T
  <2>1. n \in 0 .. N
    OBVIOUS
  <2> QED BY <1>1, <1>3, <2>1 DEF PassNext
<1>4. N \in T
  <2> HIDE DEF T
  <2>1. N \in 0 .. N
    OBVIOUS
  <2> QED BY <1>2, <1>3, <2>1, UpTo
<1> QED BY <1>1, <1>4

(* Two builders that say the same, and a pass of each.                     *)
Alike(b, d) == Shaped(b) /\ Shaped(d) /\ b.ok = d.ok /\ (b.ok => SaidOf(b) = SaidOf(d))
Proper(rs) == Len(rs) \in Nat /\ DOMAIN rs = 1 .. Len(rs) /\ DistinctIds(rs)

LEMMA AfterOwners ==
  ASSUME NEW k \in 1 .. 6, NEW b, NEW R
  PROVE  After(k, SaidOf(b), R).aliasOwner = b.aliasOwner /\ After(k, SaidOf(b), R).raw = ToSet(b.raw)
<1> DEFINE s == SaidOf(b)
<1>1. s.aliasOwner = b.aliasOwner /\ s.raw = ToSet(b.raw)
  BY DEF SaidOf
<1>2. k = 1 \/ k = 2 \/ k = 3 \/ k = 4 \/ k = 5 \/ k = 6
  OBVIOUS
<1>3. CASE k = 6
  BY <1>1, <1>3 DEF After, WithFunctions
<1>4. CASE k # 6
  <2>1. After(k, s, R) = s \/ (\E x : After(k, s, R) = [s EXCEPT !.stores = x] \/ After(k, s, R) = [s EXCEPT !.keys = x]
                                       \/ After(k, s, R) = [s EXCEPT !.keyGroups = x] \/ After(k, s, R) = [s EXCEPT !.policies = x])
    <3> DEFINE es == Entered(s.stores, {<<StoreARN(r), StoreOf(r)>> : r \in R})
               ek == Entered(s.keys, {<<ID(r.type, r.id), KeyOf(r)>> : r \in R})
               eg == Entered(s.keyGroups, {<<ID(r.type, r.id), KeyGroupOf(s, r)>> : r \in R})
               ep == [t \in DOMAIN s.policies |-> Entered(s.policies[t], {PolicyEntry(r) : r \in {q \in R : q.type = t}})]
    <3>1. k = 2 => After(k, s, R) = [s EXCEPT !.stores = es]
      BY DEF After
    <3>2. k = 3 => After(k, s, R) = [s EXCEPT !.keys = ek]
      BY DEF After
    <3>3. k = 4 => After(k, s, R) = [s EXCEPT !.keyGroups = eg]
      BY DEF After
    <3>4. k = 5 /\ R # {} => After(k, s, R) = [s EXCEPT !.policies = ep]
      BY DEF After
    <3>5. k = 1 \/ (k = 5 /\ R = {}) => After(k, s, R) = s
      BY DEF After
    <3> HIDE DEF es, ek, eg, ep, s
    <3> QED BY <1>2, <1>4, <3>1, <3>2, <3>3, <3>4, <3>5
  <2> QED BY <1>1, <2>1 DEF SaidOf
<1> QED BY <1>3, <1>4

LEMMA PassesAlike ==
  ASSUME NEW k \in 1 .. 7, NEW b, NEW d, Alike(b, d), b.ok => b.aliasOwner = <<>>,
         NEW rs, Proper(rs), NEW qs, Proper(qs), ToSet(rs) = ToSet(qs), b.ok => ARNsDiffer(SaidOf(b), Chosen(rs, {"Function"}))
  PROVE  /\ Alike(Pass(b, rs, Passes[k]), Pass(d, qs, Passes[k]))
         /\ Pass(b, rs, Passes[k]).raw = b.raw /\ Pass(d, qs, Passes[k]).raw = d.raw
         /\ k < 7 /\ Pass(b, rs, Passes[k]).ok => Pass(b, rs, Passes[k]).aliasOwner = <<>>
<1> DEFINE types == Passes[k]
           b2 == Pass(b, rs, types)
           d2 == Pass(d, qs, types)
           R == Chosen(rs, types)
           s == SaidOf(b)
<1>1. CASE ~b.ok
  <2>1. b.ok = FALSE /\ d.ok = FALSE
    BY <1>1 DEF Alike, Shaped
  <2>2. Len(rs) \in Nat /\ Len(qs) \in Nat
    BY DEF Proper
  <2>3. b2 = b /\ d2 = d
    BY <2>1, <2>2, FailedStays
  <2> QED BY <1>1, <2>3 DEF Alike
<1>2. CASE b.ok
  <2>1. d.ok /\ SaidOf(d) = s /\ Shaped(b) /\ Shaped(d) /\ b.aliasOwner = <<>> /\ d.aliasOwner = <<>>
    <3>1. d.ok /\ SaidOf(d) = SaidOf(b)
      BY <1>2 DEF Alike
    <3>2. d.aliasOwner = b.aliasOwner
      BY <3>1 DEF SaidOf
    <3> QED BY <1>2, <3>1, <3>2 DEF Alike
  <2>2. Chosen(qs, types) = R /\ Chosen(qs, {"Function"}) = Chosen(rs, {"Function"})
    BY DEF Chosen
  <2>3. Passed(k, b, b2, R)
    BY <1>2, <2>1, WholePass DEF Proper
  <2>4. Passed(k, d, d2, R)
    <3>1. ARNsDiffer(SaidOf(d), Chosen(qs, {"Function"}))
      BY <1>2, <2>1, <2>2
    <3>2. Passed(k, d, d2, Chosen(qs, types))
      BY <2>1, <3>1, WholePass DEF Proper
    <3> QED BY <2>2, <3>2
  <2> HIDE DEF b2, d2, R, types
  <2>5. b2.ok = d2.ok
    BY <2>1, <2>3, <2>4 DEF Passed, Shaped
  <2>6. b2.ok => SaidOf(b2) = SaidOf(d2)
    BY <2>1, <2>3, <2>4, <2>5 DEF Passed
  <2>7. k < 7 /\ b2.ok => b2.aliasOwner = <<>>
    <3> SUFFICES ASSUME k < 7, b2.ok PROVE b2.aliasOwner = <<>>
      OBVIOUS
    <3>1. k \in 1 .. 6 /\ SaidOf(b2) = After(k, SaidOf(b), R)
      BY <2>3 DEF Passed
    <3>2. SaidOf(b2).aliasOwner = b.aliasOwner
      BY <3>1, AfterOwners
    <3> QED BY <2>1, <3>2 DEF SaidOf
  <2>8. Alike(b2, d2) /\ b2.raw = b.raw /\ d2.raw = d.raw
    BY <2>3, <2>4, <2>5, <2>6 DEF Passed, Alike
  <2> QED BY <2>7, <2>8 DEF b2, d2, types
<1> QED BY <1>1, <1>2

LEMMA AllPassesAlike ==
  ASSUME NEW b, NEW d, Alike(b, d), b.aliasOwner = <<>>, NEW rs, Proper(rs), NEW qs, Proper(qs), ToSet(rs) = ToSet(qs),
         \A x : ToSet(x.raw) = ToSet(b.raw) => ARNsDiffer(SaidOf(x), Chosen(rs, {"Function"}))
  PROVE  /\ Alike(AllPasses(b, rs), AllPasses(d, qs))
         /\ AllPasses(b, rs).raw = b.raw /\ AllPasses(d, qs).raw = d.raw
<1>0. PICK f : AllRun(f, b, rs)
  BY AllPassesUnfold
<1>1. f[0] = b /\ f[7] = AllPasses(b, rs) /\ \A n \in 1 .. 7 : f[n] = Pass(f[n - 1], rs, Passes[n])
  BY <1>0 DEF AllRun
<1>2. PICK h : AllRun(h, d, qs)
  BY AllPassesUnfold
<1>20. h[0] = d /\ h[7] = AllPasses(d, qs) /\ \A n \in 1 .. 7 : h[n] = Pass(h[n - 1], qs, Passes[n])
  BY <1>2 DEF AllRun
<1> DEFINE Good(n) == /\ Alike(f[n], h[n]) /\ f[n].raw = b.raw /\ h[n].raw = d.raw
                      /\ n < 7 /\ f[n].ok => f[n].aliasOwner = <<>>
           T == {n \in 0 .. 7 : Good(n)}
<1>3. 0 \in T
  BY <1>1, <1>20
<1>4. ASSUME NEW n \in 1 .. 7, n - 1 \in T PROVE n \in T
  <2>1. n \in 0 .. 7 /\ n - 1 < 7 /\ Good(n - 1)
    BY <1>4
  <2> DEFINE c == f[n - 1]
             e == h[n - 1]
  <2>2. Alike(c, e) /\ c.raw = b.raw /\ e.raw = d.raw /\ (c.ok => c.aliasOwner = <<>>)
    BY <2>1
  <2>3. f[n] = Pass(c, rs, Passes[n]) /\ h[n] = Pass(e, qs, Passes[n])
    BY <1>1, <1>20
  <2> HIDE DEF c, e
  <2>4. ARNsDiffer(SaidOf(c), Chosen(rs, {"Function"}))
    BY <2>2
  <2>5. /\ Alike(f[n], h[n]) /\ f[n].raw = c.raw /\ h[n].raw = e.raw
        /\ n < 7 /\ f[n].ok => f[n].aliasOwner = <<>>
    <3>1. /\ Alike(Pass(c, rs, Passes[n]), Pass(e, qs, Passes[n]))
          /\ Pass(c, rs, Passes[n]).raw = c.raw /\ Pass(e, qs, Passes[n]).raw = e.raw
          /\ n < 7 /\ Pass(c, rs, Passes[n]).ok => Pass(c, rs, Passes[n]).aliasOwner = <<>>
      BY <2>2, <2>4, PassesAlike
    <3> QED BY <2>3, <3>1
  <2> QED BY <2>1, <2>2, <2>5
<1>5. 7 \in T
  <2> HIDE DEF T
  <2>1. 7 \in Nat /\ 7 \in 0 .. 7
    OBVIOUS
  <2> QED BY <1>3, <1>4, <2>1, UpTo
<1> QED BY <1>1, <1>20, <1>5

-----------------------------------------------------------------------------
(* The files, parsed in any order.                                         *)
Disjoint(f, g) ==
  /\ DOMAIN f.parameters \cap DOMAIN g.parameters = {}
  /\ {k[1] : k \in DOMAIN f.mappings} \cap {k[1] : k \in DOMAIN g.mappings} = {}
  /\ Ids(ToSet(f.resources)) \cap Ids(ToSet(g.resources)) = {}

Mergeable(fs, n) ==
  /\ \A i \in 1 .. n : ~fs[i].transform
  /\ \A i, j \in 1 .. n : i # j => Disjoint(fs[i], fs[j])

(* Tables with no key in common, together.                                 *)
Together(X) == [k \in UNION {DOMAIN t : t \in X} |-> (CHOOSE t \in X : k \in DOMAIN t)[k]]
NoKeyTwice(X) == \A t, u \in X : t # u => DOMAIN t \cap DOMAIN u = {}

LEMMA TogetherWith ==
  ASSUME NEW X, NoKeyTwice(X), NEW t, \A u \in X : DOMAIN u \cap DOMAIN t = {}
  PROVE  With(Together(X), t) = Together(X \cup {t}) /\ NoKeyTwice(X \cup {t})
<1> DEFINE Y == X \cup {t}
<1>1. NoKeyTwice(Y)
  BY DEF NoKeyTwice
<1>2. DOMAIN Together(X) = UNION {DOMAIN u : u \in X}
  BY DEF Together
<1>3. UNION {DOMAIN u : u \in Y} = (UNION {DOMAIN u : u \in X}) \cup DOMAIN t
  <2> DEFINE A == UNION {DOMAIN u : u \in Y}
             B == UNION {DOMAIN u : u \in X}
  <2>1. (\A a : a \in A <=> \E u \in Y : a \in DOMAIN u) /\ (\A a : a \in B <=> \E u \in X : a \in DOMAIN u)
    OBVIOUS
  <2>2. ASSUME NEW a PROVE (\E u \in Y : a \in DOMAIN u) <=> (\E u \in X : a \in DOMAIN u) \/ a \in DOMAIN t
    OBVIOUS
  <2> HIDE DEF A, B, Y
  <2>3. A = B \cup DOMAIN t
    BY <2>1, <2>2
  <2> QED BY <2>3 DEF A, B
<1>4. ASSUME NEW k, NEW u \in Y, k \in DOMAIN u PROVE (CHOOSE v \in Y : k \in DOMAIN v) = u
  BY <1>1, <1>4 DEF NoKeyTwice
<1>5. ASSUME NEW k, NEW u \in X, k \in DOMAIN u PROVE (CHOOSE v \in X : k \in DOMAIN v) = u
  BY <1>5 DEF NoKeyTwice
<1>6. ASSUME NEW k \in UNION {DOMAIN u : u \in Y}
      PROVE  (IF k \in DOMAIN t THEN t[k] ELSE Together(X)[k]) = (CHOOSE v \in Y : k \in DOMAIN v)[k]
  <2>1. CASE k \in DOMAIN t
    BY <1>4, <2>1
  <2>2. CASE k \notin DOMAIN t
    <3>1. PICK u \in X : k \in DOMAIN u
      BY <1>3, <2>2
    <3>2. (CHOOSE v \in Y : k \in DOMAIN v) = u /\ (CHOOSE v \in X : k \in DOMAIN v) = u
      BY <1>4, <1>5, <3>1
    <3>3. Together(X)[k] = u[k]
      BY <3>1, <3>2 DEF Together
    <3> QED BY <2>2, <3>2, <3>3
  <2> QED BY <2>1, <2>2
<1>7. With(Together(X), t) = [k \in UNION {DOMAIN u : u \in Y} |-> IF k \in DOMAIN t THEN t[k] ELSE Together(X)[k]]
  BY <1>2, <1>3 DEF With
<1>8. Together(Y) = [k \in UNION {DOMAIN u : u \in Y} |-> (CHOOSE v \in Y : k \in DOMAIN v)[k]]
  BY DEF Together
<1> HIDE DEF Y
<1>9. With(Together(X), t) = Together(Y)
  BY <1>6, <1>7, <1>8
<1> QED BY <1>1, <1>9 DEF Y

LEMMA NothingTogether == Together({}) = <<>> /\ NoKeyTwice({})
<1>1. Together({}) = [k \in {} |-> (CHOOSE t \in {} : k \in DOMAIN t)[k]]
  BY DEF Together
<1> QED BY <1>1 DEF NoKeyTwice

ParsedIs(p, F) ==
  /\ p.parameters = Together({f.parameters : f \in F}) /\ p.mappings = Together({f.mappings : f \in F})
  /\ ToSet(p.resources) = UNION {ToSet(f.resources) : f \in F}
  /\ NoKeyTwice({f.parameters : f \in F}) /\ NoKeyTwice({f.mappings : f \in F})

LEMMA ParsedMore ==
  ASSUME NEW p, ParsedIsProper(p), p.ok, NEW F, ParsedIs(p, F), NEW file, IsSeq(file.resources)
  PROVE  /\ ParseOne(p, file).ok <=> ~file.transform /\ \A f \in F : Disjoint(f, file)
         /\ ParseOne(p, file).ok \in BOOLEAN
         /\ ParseOne(p, file).ok => ParsedIs(ParseOne(p, file), F \cup {file})
<1> DEFINE q == ParseOne(p, file)
           P == {f.parameters : f \in F}
           M == {f.mappings : f \in F}
           FirstOf(t) == {k[1] : k \in DOMAIN t}
<1>1. DOMAIN p = {"ok", "parameters", "mappings", "resources"}
  BY DEF ParsedIsProper
<1>2. DOMAIN p.parameters = UNION {DOMAIN t : t \in P} /\ DOMAIN p.mappings = UNION {DOMAIN t : t \in M}
  BY DEF ParsedIs, Together
<1>3. DOMAIN file.parameters \cap DOMAIN p.parameters = {} <=> \A f \in F : DOMAIN f.parameters \cap DOMAIN file.parameters = {}
  BY <1>2
<1>4. FirstOf(file.mappings) \cap FirstOf(p.mappings) = {} <=> \A f \in F : FirstOf(f.mappings) \cap FirstOf(file.mappings) = {}
  <2>1. ASSUME NEW x PROVE x \in FirstOf(p.mappings) <=> \E f \in F : x \in FirstOf(f.mappings)
    <3>1. x \in FirstOf(p.mappings) <=> \E k \in UNION {DOMAIN t : t \in M} : x = k[1]
      BY <1>2
    <3>2. \A k : k \in UNION {DOMAIN t : t \in M} <=> \E f \in F : k \in DOMAIN f.mappings
      OBVIOUS
    <3>3. \A f : x \in FirstOf(f.mappings) <=> \E k \in DOMAIN f.mappings : x = k[1]
      OBVIOUS
    <3> HIDE DEF FirstOf, M
    <3> QED BY <3>1, <3>2, <3>3
  <2> HIDE DEF FirstOf
  <2> QED BY <2>1
<1>5. Ids(ToSet(file.resources)) \cap Ids(ToSet(p.resources)) = {}
        <=> \A f \in F : Ids(ToSet(f.resources)) \cap Ids(ToSet(file.resources)) = {}
  <2>1. ASSUME NEW x PROVE x \in Ids(ToSet(p.resources)) <=> \E f \in F : x \in Ids(ToSet(f.resources))
    <3>1. \A r : r \in ToSet(p.resources) <=> \E f \in F : r \in ToSet(f.resources)
      BY DEF ParsedIs
    <3>2. \A R : x \in Ids(R) <=> \E r \in R : x = r.id
      BY DEF Ids
    <3> QED BY <3>1, <3>2
  <2> QED BY <2>1
<1> DEFINE Clean == ~file.transform /\ \A f \in F : Disjoint(f, file)
<1>6. Clean <=> /\ ~file.transform
                /\ DOMAIN file.parameters \cap DOMAIN p.parameters = {}
                /\ FirstOf(file.mappings) \cap FirstOf(p.mappings) = {}
                /\ Ids(ToSet(file.resources)) \cap Ids(ToSet(p.resources)) = {}
  BY <1>3, <1>4, <1>5 DEF Disjoint
<1>7. CASE ~Clean
  <2>1. q = [p EXCEPT !.ok = FALSE]
    BY <1>6, <1>7 DEF ParseOne
  <2>2. q.ok = FALSE
    BY <1>1, <2>1
  <2> QED BY <1>7, <2>2
<1>8. CASE Clean
  <2>1. q = [p EXCEPT !.parameters = With(@, file.parameters), !.mappings = With(@, file.mappings), !.resources = @ \o file.resources]
    BY <1>6, <1>8 DEF ParseOne
  <2>2. /\ q.ok = p.ok /\ q.parameters = With(p.parameters, file.parameters) /\ q.mappings = With(p.mappings, file.mappings)
        /\ q.resources = p.resources \o file.resources
    BY <1>1, <2>1
  <2>3. {f.parameters : f \in F \cup {file}} = P \cup {file.parameters} /\ {f.mappings : f \in F \cup {file}} = M \cup {file.mappings}
    OBVIOUS
  <2>4. \A u \in P : DOMAIN u \cap DOMAIN file.parameters = {}
    BY <1>8 DEF Disjoint
  <2>5. \A u \in M : DOMAIN u \cap DOMAIN file.mappings = {}
    BY <1>8 DEF Disjoint
  <2>6. ToSet(q.resources) = UNION {ToSet(f.resources) : f \in F \cup {file}}
    <3>1. ToSet(q.resources) = ToSet(p.resources) \cup ToSet(file.resources)
      BY <2>2, Concatenated DEF ParsedIsProper
    <3>2. ToSet(p.resources) = UNION {ToSet(f.resources) : f \in F}
      BY DEF ParsedIs
    <3> DEFINE A == UNION {ToSet(f.resources) : f \in F \cup {file}}
    <3>3. \A a : a \in A <=> \E f \in F \cup {file} : a \in ToSet(f.resources)
      OBVIOUS
    <3>4. \A a : a \in ToSet(p.resources) <=> \E f \in F : a \in ToSet(f.resources)
      BY <3>2
    <3> HIDE DEF A, q
    <3>5. ToSet(q.resources) = A
      BY <3>1, <3>3, <3>4
    <3> QED BY <3>5 DEF A
  <2> HIDE DEF P, M, q, Clean, FirstOf
  <2>7. p.parameters = Together(P) /\ p.mappings = Together(M) /\ NoKeyTwice(P) /\ NoKeyTwice(M)
    BY DEF ParsedIs, P, M
  <2>8. q.parameters = Together(P \cup {file.parameters}) /\ NoKeyTwice(P \cup {file.parameters})
    BY <2>2, <2>4, <2>7, TogetherWith
  <2>9. q.mappings = Together(M \cup {file.mappings}) /\ NoKeyTwice(M \cup {file.mappings})
    BY <2>2, <2>5, <2>7, TogetherWith
  <2>10. ParsedIs(q, F \cup {file})
    BY <2>3, <2>6, <2>8, <2>9 DEF ParsedIs
  <2>11. q.ok = TRUE
    BY <2>2 DEF ParsedIsProper
  <2> QED BY <1>8, <2>10, <2>11 DEF q, Clean
<1> QED BY <1>7, <1>8

LEMMA ParseIs ==
  ASSUME NEW fs, FilesAreProper(fs)
  PROVE  /\ ParsedIsProper(Parse(fs)) /\ Parse(fs).ok \in BOOLEAN
         /\ Parse(fs).ok <=> Mergeable(fs, Len(fs))
         /\ Parse(fs).ok => ParsedIs(Parse(fs), {fs[i] : i \in 1 .. Len(fs)})
<1> DEFINE N == Len(fs)
           F(n) == {fs[i] : i \in 1 .. n}
<1>0. N \in Nat /\ \A n \in 1 .. N : IsSeq(fs[n].resources) /\ DistinctIds(fs[n].resources)
  BY DEF FilesAreProper
<1>1. PICK f : /\ f[0] = NothingParsed /\ f[N] = Parse(fs)
               /\ \A n \in 1 .. N : f[n] = ParsedNext(f[n - 1], fs[n])
  BY <1>0, ParseUnfolds
<1> DEFINE Good(n) == /\ ParsedIsProper(f[n]) /\ f[n].ok \in BOOLEAN
                      /\ f[n].ok <=> Mergeable(fs, n)
                      /\ f[n].ok => ParsedIs(f[n], F(n))
           T == {n \in 0 .. N : Good(n)}
<1>2. 0 \in T
  <2>1. 0 \in 0 .. N /\ 1 .. 0 = {}
    BY <1>0
  <2>2. ParsedIsProper(NothingParsed) /\ NothingParsed.ok = TRUE
    BY EmptyIsSeq DEF ParsedIsProper, NothingParsed, DistinctIds
  <2>3. Mergeable(fs, 0)
    BY <2>1 DEF Mergeable
  <2>4. ParsedIs(NothingParsed, {})
    <3>1. {g.parameters : g \in {}} = {} /\ {g.mappings : g \in {}} = {} /\ UNION {ToSet(g.resources) : g \in {}} = {}
      OBVIOUS
    <3> QED BY <3>1, EmptyIsSeq, NothingTogether DEF ParsedIs, NothingParsed
  <2>5. F(0) = {}
    BY <2>1
  <2> QED BY <1>1, <2>1, <2>2, <2>3, <2>4, <2>5
<1>3. ASSUME NEW n \in 1 .. N, n - 1 \in T PROVE n \in T
  <2> DEFINE p == f[n - 1]
             file == fs[n]
  <2>1. n \in 0 .. N /\ f[n] = ParsedNext(p, file) /\ Good(n - 1) /\ IsSeq(file.resources) /\ DistinctIds(file.resources)
    BY <1>0, <1>1, <1>3
  <2>2. n \in 1 .. n /\ n \notin 1 .. n - 1 /\ (\A i \in 1 .. n : i = n \/ i \in 1 .. n - 1) /\ \A i \in 1 .. n - 1 : i \in 1 .. n
    BY <1>0
  <2>3. Mergeable(fs, n) <=> Mergeable(fs, n - 1) /\ ~file.transform /\ \A i \in 1 .. n - 1 : Disjoint(fs[i], file)
    <3>1. \A i, j : Disjoint(fs[i], fs[j]) <=> Disjoint(fs[j], fs[i])
      BY DEF Disjoint
    <3> QED BY <2>2, <3>1 DEF Mergeable
  <2>4. F(n) = F(n - 1) \cup {file}
    BY <2>2
  <2>5. ParsedIsProper(f[n])
    BY <2>1, ParsedOneIsProper
  <2>6. CASE ~p.ok
    <3>1. f[n] = p
      BY <2>1, <2>6 DEF ParsedNext
    <3> HIDE DEF F
    <3> QED BY <2>1, <2>3, <2>6, <3>1
  <2>7. CASE p.ok
    <3>1. f[n] = ParseOne(p, file)
      BY <2>1, <2>7 DEF ParsedNext
    <3>2. ParsedIs(p, F(n - 1)) /\ ParsedIsProper(p) /\ Mergeable(fs, n - 1)
      BY <2>1, <2>7
    <3>3. (\A g \in F(n - 1) : Disjoint(g, file)) <=> \A i \in 1 .. n - 1 : Disjoint(fs[i], file)
      OBVIOUS
    <3> HIDE DEF F, p, file
    <3>4. /\ ParseOne(p, file).ok <=> ~file.transform /\ \A g \in F(n - 1) : Disjoint(g, file)
          /\ ParseOne(p, file).ok \in BOOLEAN
          /\ ParseOne(p, file).ok => ParsedIs(ParseOne(p, file), F(n - 1) \cup {file})
      BY <2>1, <2>7, <3>2, ParsedMore
    <3> QED BY <2>1, <2>3, <2>4, <2>5, <3>1, <3>2, <3>3, <3>4
  <2> QED BY <2>6, <2>7
<1>4. N \in T
  <2> HIDE DEF T
  <2>1. N \in 0 .. N
    BY <1>0
  <2> QED BY <1>0, <1>2, <1>3, <2>1, UpTo
<1> QED BY <1>1, <1>4

LEMMA Reversed ==
  ASSUME NEW fs, FilesAreProper(fs)
  PROVE  /\ FilesAreProper(Reverse(fs)) /\ Len(Reverse(fs)) = Len(fs)
         /\ Mergeable(Reverse(fs), Len(fs)) <=> Mergeable(fs, Len(fs))
         /\ {Reverse(fs)[i] : i \in 1 .. Len(fs)} = {fs[i] : i \in 1 .. Len(fs)}
<1> DEFINE N == Len(fs)
           gs == Reverse(fs)
           to(i) == (N - i) + 1
<1>1. N \in Nat /\ DOMAIN fs = 1 .. N
  BY DEF FilesAreProper
<1>2. gs = [i \in 1 .. N |-> fs[to(i)]]
  BY DEF Reverse
<1>3. \A i \in 1 .. N : to(i) \in 1 .. N /\ to(to(i)) = i /\ gs[i] = fs[to(i)]
  BY <1>1, <1>2
<1>4. DOMAIN gs = 1 .. N /\ Len(gs) = N
  BY <1>1, <1>2
<1>5. \A i, j \in 1 .. N : i # j => to(i) # to(j)
  BY <1>1
<1> HIDE DEF gs, to
<1>6. FilesAreProper(gs)
  BY <1>1, <1>3, <1>4 DEF FilesAreProper
<1>7. \A i \in 1 .. N : fs[i] = gs[to(i)]
  BY <1>3
<1>8. Mergeable(gs, N) <=> Mergeable(fs, N)
  BY <1>3, <1>5, <1>7 DEF Mergeable
<1>9. {gs[i] : i \in 1 .. N} = {fs[i] : i \in 1 .. N}
  BY <1>3, <1>7
<1> QED BY <1>4, <1>6, <1>8, <1>9 DEF gs

(* The list of raw resources is never changed.                             *)
LEMMA RawKept ==
  ASSUME NEW b, DOMAIN b = DOMAIN Builder(<<>>), NEW r
  PROVE  BuildOne(b, r).raw = b.raw /\ DOMAIN BuildOne(b, r) = DOMAIN b
<1>1. DOMAIN b = {"ok", "raw", "policies", "keys", "keyGroups", "stores", "functions", "functionsByARN", "aliasOwner", "distributions"}
  BY BuilderFields
<1> DEFINE Kept(c) == c.raw = b.raw /\ DOMAIN c = DOMAIN b
<1>2. Kept(Fail(b)) /\ Kept(b)
  BY <1>1 DEF Fail
<1>3. Kept(KeyValueStore(b, r)) /\ Kept(PublicKey(b, r)) /\ Kept(KeyGroup(b, r)) /\ Kept(Policy(b, r))
  BY <1>1, <1>2 DEF KeyValueStore, PublicKey, KeyGroup, Policy
<1>4. Kept(Function(b, r))
  <2>1. ASSUME NEW x, NEW y PROVE Kept([b EXCEPT !.functions = x, !.functionsByARN = y])
    BY <1>1
  <2> QED BY <1>2, <2>1 DEF Function
<1>5. Kept(Distribution(b, r))
  <2>1. ASSUME NEW x, NEW y PROVE Kept([b EXCEPT !.distributions = x, !.aliasOwner = y])
    BY <1>1
  <2> QED BY <1>2, <2>1 DEF Distribution
<1> HIDE DEF Kept
<1>6. Kept(BuildOne(b, r))
  BY <1>2, <1>3, <1>4, <1>5 DEF BuildOne
<1> QED BY <1>6 DEF Kept

LEMMA AllRawKept ==
  ASSUME NEW b, DOMAIN b = DOMAIN Builder(<<>>), NEW rs, Len(rs) \in Nat
  PROVE  AllPasses(b, rs).raw = b.raw
<1> DEFINE Kept(c) == DOMAIN c = DOMAIN Builder(<<>>) /\ c.raw = b.raw
<1>1. ASSUME NEW start, Kept(start), NEW types
      PROVE  Kept(Pass(start, rs, types))
  <2>0. PICK f : PassRun(f, start, rs, types)
    BY PassUnfolds
  <2>1. f[0] = start /\ f[Len(rs)] = Pass(start, rs, types) /\ \A n \in 1 .. Len(rs) : f[n] = PassNext(f[n - 1], rs[n], types)
    BY <2>0 DEF PassRun
  <2> DEFINE T == {n \in 0 .. Len(rs) : Kept(f[n])}
  <2>2. 0 \in T
    BY <1>1, <2>1
  <2>3. ASSUME NEW n \in 1 .. Len(rs), n - 1 \in T PROVE n \in T
    <3>1. n \in 0 .. Len(rs) /\ f[n] = PassNext(f[n - 1], rs[n], types)
      BY <2>1
    <3> DEFINE c == f[n - 1]
    <3>2. Kept(c)
      BY <2>3
    <3> HIDE DEF c
    <3>3. Kept(BuildOne(c, rs[n]))
      BY <3>2, RawKept
    <3> QED BY <3>1, <3>2, <3>3 DEF PassNext, c
  <2>4. Len(rs) \in T
    <3> HIDE DEF T
    <3>1. Len(rs) \in 0 .. Len(rs)
      OBVIOUS
    <3> QED BY <2>2, <2>3, <3>1, UpTo
  <2> QED BY <2>1, <2>4
<1>2. PICK f : AllRun(f, b, rs)
  BY AllPassesUnfold
<1>20. f[0] = b /\ f[7] = AllPasses(b, rs) /\ \A n \in 1 .. 7 : f[n] = Pass(f[n - 1], rs, Passes[n])
  BY <1>2 DEF AllRun
<1> DEFINE T == {n \in 0 .. 7 : Kept(f[n])}
<1>3. 0 \in T
  BY <1>20
<1>4. ASSUME NEW n \in 1 .. 7, n - 1 \in T PROVE n \in T
  <2>1. n \in 0 .. 7 /\ Kept(f[n - 1]) /\ f[n] = Pass(f[n - 1], rs, Passes[n])
    BY <1>20, <1>4
  <2> HIDE DEF Kept
  <2> QED BY <1>1, <2>1
<1>5. 7 \in T
  <2> HIDE DEF T
  <2>1. 7 \in Nat /\ 7 \in 0 .. 7
    OBVIOUS
  <2> QED BY <1>3, <1>4, <2>1, UpTo
<1> QED BY <1>20, <1>5

(* No two functions of the same name: no two of the same ARN.              *)
LEMMA NamesGiveARNs ==
  ASSUME NEW p, ParsedIsProper(p), NEW env, NEW rs, rs = [i \in DOMAIN p.resources |-> ResolvedOne(env, p.resources[i])],
         \A r \in ToSet(p.resources) : IsSeq(RawName(r, "Name", Word(r.id))),
         NEW c, c.raw = p.resources, NamesAreDistinct(c), NEW x, ToSet(x.raw) = ToSet(p.resources)
  PROVE  ARNsDiffer(SaidOf(x), Chosen(rs, {"Function"}))
<1> DEFINE raw == p.resources
           Name(r) == RawName(r, "Name", Word(r.id))
<1>1. SaidOf(x).raw = ToSet(raw)
  BY DEF SaidOf
<1>2. DOMAIN raw = 1 .. Len(raw) /\ DistinctIds(raw)
  BY ElementsOf DEF ParsedIsProper
<1>3. ASSUME NEW q \in Chosen(rs, {"Function"})
      PROVE  \E i \in DOMAIN raw : q = rs[i] /\ raw[i].type = "Function" /\ Resource(ToSet(raw), q.id) = raw[i]
  <2>1. PICK i \in DOMAIN raw : q = ResolvedOne(env, raw[i]) /\ q = rs[i] /\ q.type = "Function"
    BY DEF Chosen, ToSet
  <2>2. q.id = raw[i].id /\ raw[i].type = "Function"
    BY <2>1 DEF ResolvedOne
  <2>3. raw[i] \in ToSet(raw) /\ \A r \in ToSet(raw) : r.id = q.id => r = raw[i]
    BY <2>2, <1>2 DEF ToSet, DistinctIds
  <2>4. Resource(ToSet(raw), q.id) = raw[i]
    BY <2>2, <2>3 DEF Resource
  <2> QED BY <2>1, <2>2, <2>4
<1>4. ASSUME NEW s, IsSeq(s), NEW t, IsSeq(t), ARN("Function", s) = ARN("Function", t)
      PROVE  s = t
  <2> DEFINE a == <<<<"arn", "Function", "">>>>
  <2>1. a \in Seq({a[1]}) /\ Len(a) = 1
    OBVIOUS
  <2>2. IsSeq(a)
    BY <2>1, SeqOfSome
  <2>3. a \o s = a \o t
    BY <1>4 DEF ARN
  <2> HIDE DEF a
  <2>4. ASSUME NEW u, IsSeq(u) PROVE /\ Len(a \o u) = 1 + Len(u) /\ Len(u) \in Nat /\ DOMAIN u = 1 .. Len(u)
                                     /\ \A i \in 1 .. Len(u) : (a \o u)[1 + i] = u[i]
    <3>1. Len(a \o u) = Len(a) + Len(u) /\ \A i \in 1 .. Len(u) : (a \o u)[Len(a) + i] = u[i]
      BY <2>2, <2>4, Concatenated
    <3>2. Len(u) \in Nat /\ DOMAIN u = 1 .. Len(u)
      BY <2>4, ElementsOf
    <3> QED BY <2>1, <3>1, <3>2
  <2>5. /\ Len(a \o s) = 1 + Len(s) /\ Len(a \o t) = 1 + Len(t) /\ Len(s) \in Nat /\ Len(t) \in Nat
        /\ DOMAIN s = 1 .. Len(s) /\ DOMAIN t = 1 .. Len(t)
        /\ \A i \in 1 .. Len(s) : (a \o s)[1 + i] = s[i]
        /\ \A i \in 1 .. Len(t) : (a \o t)[1 + i] = t[i]
    BY <1>4, <2>4
  <2>6. Len(s) = Len(t) /\ \A i \in 1 .. Len(s) : s[i] = t[i]
    <3> DEFINE y == a \o s
    <3>1. y = a \o t
      BY <2>3
    <3>2. /\ Len(y) = 1 + Len(s) /\ Len(s) \in Nat /\ \A i \in 1 .. Len(s) : y[1 + i] = s[i]
      BY <2>5
    <3>3. /\ Len(y) = 1 + Len(t) /\ Len(t) \in Nat /\ \A i \in 1 .. Len(t) : y[1 + i] = t[i]
      BY <2>5, <3>1
    <3> HIDE DEF y
    <3>4. Len(s) = Len(t)
      BY <3>2, <3>3
    <3> QED BY <3>2, <3>3, <3>4
  <2>7. s \in Seq(ToSet(s)) /\ t \in Seq(ToSet(t))
    BY <1>4 DEF IsSeq
  <2> QED BY <2>5, <2>6, <2>7
<1> SUFFICES ASSUME NEW q \in Chosen(rs, {"Function"}), NEW r \in Chosen(rs, {"Function"}),
                    FunctionARN(Resource(ToSet(raw), q.id)) = FunctionARN(Resource(ToSet(raw), r.id))
             PROVE  q = r
  BY <1>1 DEF ARNsDiffer
<1>5. PICK i \in DOMAIN raw : q = rs[i] /\ raw[i].type = "Function" /\ Resource(ToSet(raw), q.id) = raw[i]
  BY <1>3
<1>6. PICK j \in DOMAIN raw : r = rs[j] /\ raw[j].type = "Function" /\ Resource(ToSet(raw), r.id) = raw[j]
  BY <1>3
<1>7. raw[i] \in FunctionsOf(c) /\ raw[j] \in FunctionsOf(c) /\ raw[i] \in ToSet(raw) /\ raw[j] \in ToSet(raw)
  BY <1>5, <1>6 DEF FunctionsOf, ToSet
<1>8. Name(raw[i]) = Name(raw[j])
  <2>1. ARN("Function", Name(raw[i])) = ARN("Function", Name(raw[j]))
    BY <1>5, <1>6 DEF FunctionARN
  <2>2. IsSeq(Name(raw[i])) /\ IsSeq(Name(raw[j]))
    BY <1>7
  <2> HIDE DEF Name
  <2> QED BY <1>4, <2>1, <2>2
<1>9. raw[i] = raw[j]
  BY <1>7, <1>8 DEF NamesAreDistinct
<1>10. i = j
  BY <1>2, <1>9 DEF DistinctIds
<1> QED BY <1>5, <1>6, <1>10

(* What is resolved, for resources in any order.                           *)
LEMMA ResolvedAlike ==
  ASSUME NEW p, ParsedIsProper(p), NEW q, ParsedIsProper(q), p.ok = q.ok, NEW ps,
         p.ok => p.parameters = q.parameters /\ p.mappings = q.mappings /\ ToSet(p.resources) = ToSet(q.resources)
  PROVE  /\ Resolved(p, ps).ok = Resolved(q, ps).ok
         /\ Resolved(p, ps).ok => p.ok /\ ToSet(Resolved(p, ps).resources) = ToSet(Resolved(q, ps).resources)
<1>1. CASE ~p.ok
  BY <1>1 DEF Resolved
<1>2. CASE p.ok
  <2> DEFINE env == Environment(p, ps)
             P == p.resources
             Q == q.resources
             Ok(x, X) == x.ok /\ DOMAIN ps \subseteq DOMAIN x.parameters /\ \A i \in DOMAIN X : Resolves(env, X[i])
  <2>1. Environment(q, ps) = env
    <3>1. /\ p = [ok |-> p.ok, parameters |-> p.parameters, mappings |-> p.mappings, resources |-> p.resources]
          /\ q = [ok |-> p.ok, parameters |-> p.parameters, mappings |-> p.mappings, resources |-> q.resources]
      BY <1>2 DEF ParsedIsProper
    <3>2. [p EXCEPT !.resources = ToSet(P)] = [ok |-> p.ok, parameters |-> p.parameters, mappings |-> p.mappings, resources |-> ToSet(P)]
      BY <3>1
    <3>3. [q EXCEPT !.resources = ToSet(Q)] = [ok |-> p.ok, parameters |-> p.parameters, mappings |-> p.mappings, resources |-> ToSet(Q)]
      BY <3>1
    <3>4. ToSet(P) = ToSet(Q)
      BY <1>2
    <3>5. [p EXCEPT !.resources = ToSet(P)] = [q EXCEPT !.resources = ToSet(Q)]
      BY <3>2, <3>3, <3>4
    <3> QED BY <3>5 DEF Environment
  <2>2. /\ Resolved(p, ps).ok = Ok(p, P) /\ (Ok(p, P) => Resolved(p, ps).resources = [i \in DOMAIN P |-> ResolvedOne(env, P[i])])
    BY DEF Resolved
  <2>3. /\ Resolved(q, ps).ok = Ok(q, Q) /\ (Ok(q, Q) => Resolved(q, ps).resources = [i \in DOMAIN Q |-> ResolvedOne(env, Q[i])])
    BY <2>1 DEF Resolved
  <2>4. \A X : (\A i \in DOMAIN X : Resolves(env, X[i])) <=> \A r \in ToSet(X) : Resolves(env, r)
    BY DEF ToSet
  <2>5. ASSUME NEW X PROVE ToSet([i \in DOMAIN X |-> ResolvedOne(env, X[i])]) = {ResolvedOne(env, r) : r \in ToSet(X)}
    BY DEF ToSet
  <2>6. ToSet(P) = ToSet(Q) /\ p.parameters = q.parameters /\ p.ok = q.ok
    BY <1>2
  <2>7. Ok(p, P) = Ok(q, Q)
    BY <2>4, <2>6
  <2> HIDE DEF Ok, env, P, Q
  <2>8. ASSUME Ok(p, P) PROVE ToSet(Resolved(p, ps).resources) = ToSet(Resolved(q, ps).resources)
    <3>1. ToSet(Resolved(p, ps).resources) = {ResolvedOne(env, r) : r \in ToSet(P)}
      BY <2>2, <2>5, <2>8
    <3>2. ToSet(Resolved(q, ps).resources) = {ResolvedOne(env, r) : r \in ToSet(Q)}
      BY <2>3, <2>5, <2>7, <2>8
    <3> QED BY <2>6, <3>1, <3>2
  <2> QED BY <1>2, <2>2, <2>3, <2>7, <2>8
<1> QED BY <1>1, <1>2

LEMMA ResolvedIsProper ==
  ASSUME NEW p, ParsedIsProper(p), NEW env, NEW rs, rs = [i \in DOMAIN p.resources |-> ResolvedOne(env, p.resources[i])]
  PROVE  Proper(rs)
<1> DEFINE raw == p.resources
<1>1. Len(raw) \in Nat /\ DOMAIN raw = 1 .. Len(raw) /\ DistinctIds(raw)
  BY ElementsOf DEF ParsedIsProper
<1>2. \A i \in DOMAIN raw : ResolvedOne(env, raw[i]).id = raw[i].id
  BY DEF ResolvedOne
<1>3. DOMAIN rs = 1 .. Len(raw) /\ Len(rs) = Len(raw)
  BY <1>1
<1>4. DistinctIds(rs)
  BY <1>1, <1>2 DEF DistinctIds
<1> QED BY <1>1, <1>3, <1>4 DEF Proper

LEMMA NewAlike ==
  ASSUME NEW raw, NEW other, ToSet(raw) = ToSet(other)
  PROVE  /\ Alike(Builder(raw), Builder(other)) /\ Builder(raw).aliasOwner = <<>>
         /\ Builder(raw).raw = raw /\ DOMAIN Builder(raw) = DOMAIN Builder(<<>>)
<1>1. ASSUME NEW x PROVE /\ DOMAIN Builder(x) = DOMAIN Builder(<<>>) /\ Shaped(Builder(x)) /\ Builder(x).ok = TRUE
                         /\ Builder(x).raw = x /\ Builder(x).aliasOwner = <<>>
  BY EmptyIsSeq DEF Builder, Shaped
<1>2. SaidOf(Builder(raw)) = SaidOf(Builder(other))
  BY DEF Builder, SaidOf
<1> QED BY <1>1, <1>2 DEF Alike

LEMMA OrderOfFiles ==
  ASSUME NEW fs, FilesAreProper(fs), NEW ps, NamesAreDistinct(Load(fs, ps))
  PROVE  Alike(Load(fs, ps), Load(Reverse(fs), ps))
<1> DEFINE gs == Reverse(fs)
           p == Parse(fs)
           q == Parse(gs)
           F == {fs[i] : i \in 1 .. Len(fs)}
<1>1. /\ FilesAreProper(gs) /\ Len(gs) = Len(fs) /\ (Mergeable(gs, Len(fs)) <=> Mergeable(fs, Len(fs)))
      /\ {gs[i] : i \in 1 .. Len(fs)} = F
  BY Reversed
<1>2. ParsedIsProper(p) /\ p.ok \in BOOLEAN /\ (p.ok <=> Mergeable(fs, Len(fs))) /\ (p.ok => ParsedIs(p, F))
  BY ParseIs
<1>3. ParsedIsProper(q) /\ q.ok \in BOOLEAN /\ (q.ok <=> Mergeable(gs, Len(gs))) /\ (q.ok => ParsedIs(q, {gs[i] : i \in 1 .. Len(gs)}))
  <2> HIDE DEF gs
  <2> QED BY <1>1, ParseIs
<1> HIDE DEF gs, p, q, F
<1>4. p.ok = q.ok /\ (q.ok => ParsedIs(q, F))
  BY <1>1, <1>2, <1>3
<1>5. p.ok => p.parameters = q.parameters /\ p.mappings = q.mappings /\ ToSet(p.resources) = ToSet(q.resources)
  BY <1>2, <1>4 DEF ParsedIs
<1> DEFINE rp == Resolved(p, ps)
           rq == Resolved(q, ps)
<1>6. rp.ok = rq.ok /\ (rp.ok => p.ok /\ ToSet(rp.resources) = ToSet(rq.resources))
  BY <1>2, <1>3, <1>4, <1>5, ResolvedAlike
<1>7. /\ Load(fs, ps) = IF rp.ok THEN AllPasses(Builder(p.resources), rp.resources) ELSE Fail(Builder(<<>>))
      /\ Load(gs, ps) = IF rq.ok THEN AllPasses(Builder(q.resources), rq.resources) ELSE Fail(Builder(<<>>))
  BY DEF Load, p, q
<1>8. rp.ok \in BOOLEAN
  BY DEF Resolved
<1>9. CASE ~rp.ok
  <2>1. Load(fs, ps) = Fail(Builder(<<>>)) /\ Load(gs, ps) = Fail(Builder(<<>>))
    BY <1>6, <1>7, <1>8, <1>9
  <2>2. DOMAIN Fail(Builder(<<>>)) = DOMAIN Builder(<<>>) /\ Fail(Builder(<<>>)).ok = FALSE /\ Fail(Builder(<<>>)).distributions = <<>>
    BY DEF Fail, Builder
  <2>3. Alike(Load(fs, ps), Load(gs, ps))
    BY <2>1, <2>2, EmptyIsSeq DEF Alike, Shaped
  <2> QED BY <2>3 DEF gs
<1>10. CASE rp.ok
  <2> DEFINE b == Builder(p.resources)
             d == Builder(q.resources)
             rs == rp.resources
             qs == rq.resources
             env == Environment(p, ps)
  <2>1. p.ok /\ rq.ok /\ ToSet(rs) = ToSet(qs) /\ ToSet(p.resources) = ToSet(q.resources)
    BY <1>5, <1>6, <1>10
  <2>2. rs = [i \in DOMAIN p.resources |-> ResolvedOne(env, p.resources[i])]
    BY <1>10 DEF Resolved
  <2>3. qs = [i \in DOMAIN q.resources |-> ResolvedOne(Environment(q, ps), q.resources[i])]
    BY <2>1 DEF Resolved
  <2>4. Load(fs, ps) = AllPasses(b, rs) /\ Load(gs, ps) = AllPasses(d, qs)
    BY <1>7, <1>10, <2>1
  <2> HIDE DEF rp, rq, rs, qs, env
  <2>5. Proper(rs) /\ Proper(qs)
    BY <1>2, <1>3, <2>2, <2>3, ResolvedIsProper
  <2>6. \A r \in ToSet(p.resources) : IsSeq(RawName(r, "Name", Word(r.id)))
    <3>1. ToSet(p.resources) = UNION {ToSet(f.resources) : f \in F}
      BY <1>2, <2>1 DEF ParsedIs
    <3>2. ASSUME NEW f \in F PROVE \A r \in ToSet(f.resources) : IsSeq(RawName(r, "Name", Word(r.id)))
      BY DEF F, FilesAreProper
    <3> QED BY <3>1, <3>2
  <2>7. Alike(b, d) /\ b.aliasOwner = <<>> /\ b.raw = p.resources /\ DOMAIN b = DOMAIN Builder(<<>>)
    BY <2>1, NewAlike
  <2> HIDE DEF b, d
  <2>8. AllPasses(b, rs).raw = p.resources
    BY <2>5, <2>7, AllRawKept DEF Proper
  <2>9. ASSUME NEW x, ToSet(x.raw) = ToSet(b.raw) PROVE ARNsDiffer(SaidOf(x), Chosen(rs, {"Function"}))
    <3> DEFINE c == AllPasses(b, rs)
    <3>1. c.raw = p.resources /\ NamesAreDistinct(c) /\ ToSet(x.raw) = ToSet(p.resources)
      BY <2>4, <2>7, <2>8, <2>9
    <3> HIDE DEF c
    <3> QED BY <1>2, <2>2, <2>6, <3>1, NamesGiveARNs
  <2>10. Alike(AllPasses(b, rs), AllPasses(d, qs))
    BY <2>1, <2>5, <2>7, <2>9, AllPassesAlike
  <2> QED BY <2>4, <2>10 DEF gs
<1> QED BY <1>9, <1>10

-----------------------------------------------------------------------------
(* The configuration is what the templates say, as long as they are those  *)
(* of the startup.                                                         *)
OrderInv ==
  /\ saves \in Nat /\ templates \in Templates
  /\ saves = 0 /\ (stage = "check" \/ error = "templates") => config = Load(templates, parameters)

LEMMA OrderInit == Init => OrderInv
<1> SUFFICES ASSUME Init PROVE OrderInv
  OBVIOUS
<1>1. saves = 0 /\ templates \in Templates /\ stage = "load"
  BY DEF Init
<1>2. error # "templates"
  <2>1. error = ""
    BY Zenon DEF Init
  <2> QED BY <2>1
<1> QED BY <1>1, <1>2 DEF OrderInv

LEMMA OrderStep == OrderInv /\ [Next]_vars => OrderInv'
<1> SUFFICES ASSUME OrderInv, [Next]_vars PROVE OrderInv'
  OBVIOUS
<1>1. CASE LoadConfig
  BY <1>1 DEF LoadConfig, OrderInv, options, files
<1>2. CASE Check
  BY <1>2 DEF Check, OrderInv, options, files, Fails
<1>3. CASE BuildKVSStore
  BY <1>3 DEF BuildKVSStore, OrderInv, options, files, Fails, Seed, Filled
<1>4. CASE StoresBuilt
  BY <1>4 DEF StoresBuilt, OrderInv, options, files
<1>5. CASE Compile
  BY <1>5 DEF Compile, OrderInv, options, files, Fails
<1>6. CASE Serve
  BY <1>6 DEF Serve, OrderInv, options, files
<1>7. CASE Save
  BY <1>7 DEF Save, OrderInv, options, files
<1>8. CASE Reload
  BY <1>8 DEF Reload, OrderInv, options, files
<1>9. CASE UNCHANGED vars
  BY <1>9 DEF vars, OrderInv, options, files
<1> QED BY <1>1, <1>2, <1>3, <1>4, <1>5, <1>6, <1>7, <1>8, <1>9 DEF Next

LEMMA SaidIs ==
  ASSUME NEW b, Shaped(b), NEW x, NEW y, NEW c, c = [b EXCEPT !.raw = x, !.distributions = y], x = ToSet(b.raw), y = ToSet(b.distributions)
  PROVE  c = SaidOf(b)
<1>1. DOMAIN b = {"ok", "raw", "policies", "keys", "keyGroups", "stores", "functions", "functionsByARN", "aliasOwner", "distributions"}
  BY ShapedFields
<1>2. c = [ok |-> b.ok, raw |-> x, policies |-> b.policies, keys |-> b.keys, keyGroups |-> b.keyGroups, stores |-> b.stores,
           functions |-> b.functions, functionsByARN |-> b.functionsByARN, aliasOwner |-> b.aliasOwner, distributions |-> y]
  BY <1>1
<1> QED BY <1>2 DEF SaidOf

(* The order of the --template options changes neither whether the         *)
(* templates load nor what is made of them.                                *)
THEOREM OrderHolds == Spec => []OrderDoesNotMatter
<1>1. Init => OrderInv
  BY OrderInit
<1>2. OrderInv /\ [Next]_vars => OrderInv'
  BY OrderStep
<1>3. OrderInv => OrderDoesNotMatter
  <2> SUFFICES ASSUME OrderInv, stage = "check" \/ error = "templates", saves = 0, NamesAreDistinct(config)
               PROVE  LET other == Load(Reverse(templates), parameters)
                          Said(c) == [c EXCEPT !.raw = ToSet(@), !.distributions = ToSet(@)]
                      IN  other.ok = config.ok /\ (config.ok => Said(other) = Said(config))
    BY Zenon DEF OrderDoesNotMatter
  <2> DEFINE other == Load(Reverse(templates), parameters)
  <2>1. config = Load(templates, parameters) /\ FilesAreProper(templates)
    BY TemplatesAreProper DEF OrderInv
  <2>2. Alike(config, other)
    BY <2>1, OrderOfFiles
  <2> HIDE DEF other
  <2>3. [other EXCEPT !.raw = ToSet(@), !.distributions = ToSet(@)] = SaidOf(other)
    BY <2>2, SaidIs DEF Alike
  <2>4. [config EXCEPT !.raw = ToSet(@), !.distributions = ToSet(@)] = SaidOf(config)
    BY <2>2, SaidIs DEF Alike
  <2>5. other.ok = config.ok /\ (config.ok => SaidOf(other) = SaidOf(config))
    BY <2>2 DEF Alike
  <2> QED BY <2>3, <2>4, <2>5 DEF other
<1> QED BY <1>1, <1>2, <1>3, PTL DEF Spec

-----------------------------------------------------------------------------
(* What is served is what references say.  First the tables of a           *)
(* configuration that loads: each pass succeeds, and leaves its entries.   *)
LEMMA PassesDone ==
  ASSUME NEW b, Shaped(b), b.ok, b.aliasOwner = <<>>, NEW rs, Proper(rs), AllPasses(b, rs).ok,
         \A x : ToSet(x.raw) = ToSet(b.raw) => ARNsDiffer(SaidOf(x), Chosen(rs, {"Function"}))
  PROVE  \E f : /\ f[0] = b /\ f[7] = AllPasses(b, rs)
                /\ \A k \in 1 .. 7 : f[k - 1].ok /\ f[k].ok /\ Passed(k, f[k - 1], f[k], Chosen(rs, Passes[k]))
<1>0. PICK f : AllRun(f, b, rs)
  BY AllPassesUnfold
<1>1. f[0] = b /\ f[7] = AllPasses(b, rs) /\ \A n \in 1 .. 7 : f[n] = Pass(f[n - 1], rs, Passes[n])
  BY <1>0 DEF AllRun
<1> DEFINE Done(k) == f[k - 1].ok /\ f[k].ok /\ Passed(k, f[k - 1], f[k], Chosen(rs, Passes[k]))
           Good(n) == /\ Shaped(f[n]) /\ f[n].raw = b.raw
                      /\ f[n].ok => (n < 7 => f[n].aliasOwner = <<>>) /\ \A k \in 1 .. n : Done(k)
           T == {n \in 0 .. 7 : Good(n)}
<1>2. 0 \in T
  BY <1>1
<1>3. ASSUME NEW n \in 1 .. 7, n - 1 \in T PROVE n \in T
  <2>1. n \in 0 .. 7 /\ n - 1 < 7 /\ Good(n - 1) /\ \A k \in 1 .. n : k = n \/ k \in 1 .. n - 1
    BY <1>3
  <2> DEFINE c == f[n - 1]
             R == Chosen(rs, Passes[n])
  <2>2. f[n] = Pass(c, rs, Passes[n]) /\ Len(rs) \in Nat /\ DOMAIN rs = 1 .. Len(rs) /\ DistinctIds(rs)
    BY <1>1 DEF Proper
  <2>3. CASE ~c.ok
    <3>1. c.ok = FALSE
      BY <2>1, <2>3 DEF Shaped
    <3> HIDE DEF c
    <3>2. f[n] = c
      BY <2>2, <3>1, FailedStays
    <3> QED BY <2>1, <2>3, <3>2 DEF c
  <2>4. CASE c.ok
    <3>1. Shaped(c) /\ c.raw = b.raw /\ c.aliasOwner = <<>> /\ ARNsDiffer(SaidOf(c), Chosen(rs, {"Function"}))
      BY <2>1, <2>4
    <3> HIDE DEF c
    <3>2. Passed(n, c, f[n], R)
      BY <2>2, <2>4, <3>1, WholePass
    <3>3. n < 7 /\ f[n].ok => f[n].aliasOwner = <<>>
      <4> SUFFICES ASSUME n < 7, f[n].ok PROVE f[n].aliasOwner = <<>>
        OBVIOUS
      <4> HIDE DEF R
      <4>1. n \in 1 .. 6 /\ SaidOf(f[n]) = After(n, SaidOf(c), R)
        BY <3>2 DEF Passed
      <4>2. SaidOf(f[n]).aliasOwner = c.aliasOwner
        BY <4>1, AfterOwners
      <4> QED BY <3>1, <4>2 DEF SaidOf
    <3>4. Shaped(f[n]) /\ f[n].raw = b.raw
      BY <3>1, <3>2 DEF Passed
    <3>5. f[n].ok => Done(n)
      BY <2>4, <3>2 DEF c
    <3>6. \A k \in 1 .. n - 1 : Done(k)
      BY <2>1, <2>4 DEF c
    <3> HIDE DEF Done
    <3> QED BY <2>1, <3>3, <3>4, <3>5, <3>6
  <2> QED BY <2>3, <2>4
<1> HIDE DEF T
<1>4. 7 \in T
  <2>1. 7 \in Nat /\ 7 \in 0 .. 7
    OBVIOUS
  <2> QED BY <1>2, <1>3, <2>1, UpTo
<1>5. \A k \in 1 .. 7 : Done(k)
  BY <1>1, <1>4 DEF T
<1> QED BY <1>1, <1>5

LEMMA EnteredHas ==
  ASSUME NEW table, NEW E, NEW k \in DOMAIN Entered(table, E)
  PROVE  (\E e \in E : e[1] = k /\ Entered(table, E)[k] = e[2]) \/ (k \in DOMAIN table /\ Entered(table, E)[k] = table[k])
<1>1. CASE E = {}
  BY <1>1 DEF Entered
<1>2. CASE E # {}
  <2>1. Entered(table, E)[k] = IF \E e \in E : e[1] = k THEN (CHOOSE e \in E : e[1] = k)[2] ELSE table[k]
    BY <1>2 DEF Entered
  <2>2. k \in DOMAIN table \/ \E e \in E : e[1] = k
    BY <1>2 DEF Entered
  <2>3. (\E e \in E : e[1] = k) => (CHOOSE e \in E : e[1] = k) \in E /\ (CHOOSE e \in E : e[1] = k)[1] = k
    OBVIOUS
  <2> QED BY <2>1, <2>2, <2>3
<1> QED BY <1>1, <1>2

(* What each pass leaves, table by table.                                  *)
TablesAfter(k, s, t, R) ==
  /\ t.stores = IF k = 2 THEN Entered(s.stores, {<<StoreARN(r), StoreOf(r)>> : r \in R}) ELSE s.stores
  /\ t.keyGroups = IF k = 4 THEN Entered(s.keyGroups, {<<ID(r.type, r.id), KeyGroupOf(s, r)>> : r \in R}) ELSE s.keyGroups
  /\ t.policies = IF k = 5 /\ R # {}
                  THEN [y \in DOMAIN s.policies |-> Entered(s.policies[y], {PolicyEntry(r) : r \in {q \in R : q.type = y}})]
                  ELSE s.policies
  /\ t.functions = IF k = 6 THEN s.functions \cup {FunctionOf(s, r) : r \in R} ELSE s.functions
  /\ t.functionsByARN = IF k = 6 THEN Entered(s.functionsByARN, {FunctionEntry(s, r) : r \in R}) ELSE s.functionsByARN
  /\ t.distributions = IF k = 7 THEN s.distributions \cup {DistributionOf(s, r) : r \in R} ELSE s.distributions
  /\ t.raw = s.raw

LEMMA AfterTables ==
  ASSUME NEW b, NEW R, NEW k \in 1 .. 7
  PROVE  TablesAfter(k, SaidOf(b), After(k, SaidOf(b), R), R)
<1> DEFINE s == SaidOf(b)
           es == Entered(s.stores, {<<StoreARN(r), StoreOf(r)>> : r \in R})
           ek == Entered(s.keys, {<<ID(r.type, r.id), KeyOf(r)>> : r \in R})
           eg == Entered(s.keyGroups, {<<ID(r.type, r.id), KeyGroupOf(s, r)>> : r \in R})
           ep == [y \in DOMAIN s.policies |-> Entered(s.policies[y], {PolicyEntry(r) : r \in {q \in R : q.type = y}})]
           ef == s.functions \cup {FunctionOf(s, r) : r \in R}
           ea == Entered(s.functionsByARN, {FunctionEntry(s, r) : r \in R})
           ed == s.distributions \cup {DistributionOf(s, r) : r \in R}
           t == After(k, s, R)
<1>1. /\ k = 2 => t = [s EXCEPT !.stores = es]
      /\ k = 3 => t = [s EXCEPT !.keys = ek]
      /\ k = 4 => t = [s EXCEPT !.keyGroups = eg]
      /\ k = 5 /\ R # {} => t = [s EXCEPT !.policies = ep]
      /\ k = 6 => t = WithFunctions(s, ef, ea)
      /\ k = 7 => t = WithDistributions(s, ed, Owners(R))
      /\ k = 1 \/ (k = 5 /\ R = {}) => t = s
  BY DEF After
<1>2. DOMAIN s = {"ok", "raw", "policies", "keys", "keyGroups", "stores", "functions", "functionsByARN", "aliasOwner", "distributions"}
  BY DEF SaidOf
<1>3. k = 1 \/ k = 2 \/ k = 3 \/ k = 4 \/ k = 5 \/ k = 6 \/ k = 7
  OBVIOUS
<1> SUFFICES /\ t.stores = IF k = 2 THEN es ELSE s.stores
             /\ t.keyGroups = IF k = 4 THEN eg ELSE s.keyGroups
             /\ t.policies = IF k = 5 /\ R # {} THEN ep ELSE s.policies
             /\ t.functions = IF k = 6 THEN ef ELSE s.functions
             /\ t.functionsByARN = IF k = 6 THEN ea ELSE s.functionsByARN
             /\ t.distributions = IF k = 7 THEN ed ELSE s.distributions
             /\ t.raw = s.raw
  BY Zenon DEF TablesAfter
<1> HIDE DEF s, es, ek, eg, ep, ef, ea, ed, t
<1>4. CASE k = 6
  BY <1>1, <1>4 DEF WithFunctions
<1>5. CASE k = 7
  BY <1>1, <1>5 DEF WithDistributions
<1>6. CASE k # 6 /\ k # 7
  BY <1>1, <1>2, <1>3, <1>6
<1> QED BY <1>4, <1>5, <1>6

(* An entry is known by its identifier: the one of its resource, or a      *)
(* managed one.                                                            *)
Linked(s, rs) ==
  /\ DOMAIN s.policies = PolicyTypes
  /\ \A t \in PolicyTypes : \A k \in DOMAIN s.policies[t] :
       k \in DOMAIN Managed[t] \/ \E r \in ToSet(rs) : k = ID(t, r.id) /\ s.policies[t][k].id = r.id
  /\ \A k \in DOMAIN s.keyGroups : \E r \in ToSet(rs) : k = ID("KeyGroup", r.id) /\ s.keyGroups[k].id = r.id
  /\ \A k \in DOMAIN s.stores : \E r \in ToSet(rs) : r.type = "KeyValueStore" /\ k = StoreARN(r) /\ s.stores[k].id = r.id

LEMMA PassLinks ==
  ASSUME NEW b, NEW rs, Linked(SaidOf(b), rs), NEW k \in 1 .. 7
  PROVE  Linked(After(k, SaidOf(b), Chosen(rs, Passes[k])), rs)
<1> DEFINE s == SaidOf(b)
           R == Chosen(rs, Passes[k])
           t == After(k, s, R)
<1>1. /\ t.stores = IF k = 2 THEN Entered(s.stores, {<<StoreARN(r), StoreOf(r)>> : r \in R}) ELSE s.stores
      /\ t.keyGroups = IF k = 4 THEN Entered(s.keyGroups, {<<ID(r.type, r.id), KeyGroupOf(s, r)>> : r \in R}) ELSE s.keyGroups
      /\ t.policies = IF k = 5 /\ R # {}
                      THEN [y \in DOMAIN s.policies |-> Entered(s.policies[y], {PolicyEntry(r) : r \in {q \in R : q.type = y}})]
                      ELSE s.policies
  <2>1. TablesAfter(k, s, t, R)
    BY AfterTables
  <2> HIDE DEF s, t, R
  <2> QED BY Zenon, <2>1 DEF TablesAfter
<1>2. R \subseteq ToSet(rs) /\ (k = 2 => \A r \in R : r.type = "KeyValueStore") /\ (k = 4 => \A r \in R : r.type = "KeyGroup")
  BY DEF Chosen, Passes
<1> HIDE DEF s, R, t
<1>3. DOMAIN t.policies = PolicyTypes
  BY <1>1 DEF Linked, s
<1>4. ASSUME NEW y \in PolicyTypes, NEW x \in DOMAIN t.policies[y]
      PROVE  x \in DOMAIN Managed[y] \/ \E r \in ToSet(rs) : x = ID(y, r.id) /\ t.policies[y][x].id = r.id
  <2>1. CASE k = 5 /\ R # {}
    <3> DEFINE E == {PolicyEntry(r) : r \in {q \in R : q.type = y}}
    <3>1. y \in DOMAIN s.policies
      BY DEF Linked, s
    <3>2. t.policies[y] = Entered(s.policies[y], E)
      BY <1>1, <2>1, <3>1
    <3>3. (\E e \in E : e[1] = x /\ t.policies[y][x] = e[2]) \/ (x \in DOMAIN s.policies[y] /\ t.policies[y][x] = s.policies[y][x])
      <4> HIDE DEF E
      <4>1. x \in DOMAIN Entered(s.policies[y], E)
        BY <1>4, <3>2
      <4> QED BY <3>2, <4>1, EnteredHas
    <3>4. CASE \E e \in E : e[1] = x /\ t.policies[y][x] = e[2]
      <4>1. PICK r \in R : r.type = y /\ PolicyEntry(r)[1] = x /\ t.policies[y][x] = PolicyEntry(r)[2]
        BY <3>4
      <4>2. PolicyEntry(r)[1] = ID(r.type, r.id) /\ PolicyEntry(r)[2].id = r.id
        BY DEF PolicyEntry, PolicyOf
      <4> QED BY <1>2, <4>1, <4>2
    <3>5. CASE x \in DOMAIN s.policies[y] /\ t.policies[y][x] = s.policies[y][x]
      BY <3>5 DEF Linked, s
    <3> QED BY <3>3, <3>4, <3>5
  <2>2. CASE ~(k = 5 /\ R # {})
    <3>1. t.policies = s.policies
      BY <1>1, <2>2
    <3> QED BY <1>4, <3>1 DEF Linked, s
  <2> QED BY <2>1, <2>2
<1>5. ASSUME NEW x \in DOMAIN t.keyGroups PROVE \E r \in ToSet(rs) : x = ID("KeyGroup", r.id) /\ t.keyGroups[x].id = r.id
  <2>1. CASE k = 4
    <3> DEFINE E == {<<ID(r.type, r.id), KeyGroupOf(s, r)>> : r \in R}
    <3>1. t.keyGroups = Entered(s.keyGroups, E)
      BY <1>1, <2>1
    <3>2. (\E e \in E : e[1] = x /\ t.keyGroups[x] = e[2]) \/ (x \in DOMAIN s.keyGroups /\ t.keyGroups[x] = s.keyGroups[x])
      <4> HIDE DEF E
      <4>1. x \in DOMAIN Entered(s.keyGroups, E)
        BY <1>5, <3>1
      <4> QED BY <3>1, <4>1, EnteredHas
    <3>3. CASE \E e \in E : e[1] = x /\ t.keyGroups[x] = e[2]
      <4>1. PICK r \in R : ID(r.type, r.id) = x /\ t.keyGroups[x] = KeyGroupOf(s, r)
        BY <3>3
      <4>2. KeyGroupOf(s, r).id = r.id
        BY DEF KeyGroupOf
      <4> QED BY <1>2, <2>1, <4>1, <4>2
    <3>4. CASE x \in DOMAIN s.keyGroups /\ t.keyGroups[x] = s.keyGroups[x]
      BY <3>4 DEF Linked, s
    <3> QED BY <3>2, <3>3, <3>4
  <2>2. CASE k # 4
    <3>1. t.keyGroups = s.keyGroups
      BY <1>1, <2>2
    <3> QED BY <1>5, <3>1 DEF Linked, s
  <2> QED BY <2>1, <2>2
<1>6. ASSUME NEW x \in DOMAIN t.stores PROVE \E r \in ToSet(rs) : r.type = "KeyValueStore" /\ x = StoreARN(r) /\ t.stores[x].id = r.id
  <2>1. CASE k = 2
    <3> DEFINE E == {<<StoreARN(r), StoreOf(r)>> : r \in R}
    <3>1. t.stores = Entered(s.stores, E)
      BY <1>1, <2>1
    <3>2. (\E e \in E : e[1] = x /\ t.stores[x] = e[2]) \/ (x \in DOMAIN s.stores /\ t.stores[x] = s.stores[x])
      <4> HIDE DEF E
      <4>1. x \in DOMAIN Entered(s.stores, E)
        BY <1>6, <3>1
      <4> QED BY <3>1, <4>1, EnteredHas
    <3>3. CASE \E e \in E : e[1] = x /\ t.stores[x] = e[2]
      <4>1. PICK r \in R : StoreARN(r) = x /\ t.stores[x] = StoreOf(r)
        BY <3>3
      <4>2. StoreOf(r).id = r.id
        BY DEF StoreOf
      <4> QED BY <1>2, <2>1, <4>1, <4>2
    <3>4. CASE x \in DOMAIN s.stores /\ t.stores[x] = s.stores[x]
      BY <3>4 DEF Linked, s
    <3> QED BY <3>2, <3>3, <3>4
  <2>2. CASE k # 2
    <3>1. t.stores = s.stores
      BY <1>1, <2>2
    <3> QED BY <1>6, <3>1 DEF Linked, s
  <2> QED BY <2>1, <2>2
<1>7. Linked(t, rs)
  BY <1>3, <1>4, <1>5, <1>6 DEF Linked
<1> QED BY <1>7 DEF t, s, R

(* A configuration that loads: what its functions and distributions were   *)
(* built from (s, with the stores, and u, with the functions too).         *)
Functions(rs) == Chosen(rs, {"Function"})
Distributions(rs) == Chosen(rs, {"Distribution"})

Bound(c, raw, rs, s, u) ==
  /\ c.raw = raw /\ s.raw = ToSet(raw)
  /\ Linked(s, rs) /\ Linked(u, rs)
  /\ \A r \in Functions(rs) : FunctionIsValid(s, r)
  /\ c.functions = {FunctionOf(s, r) : r \in Functions(rs)}
  /\ \A k \in DOMAIN u.functionsByARN : \E r \in Functions(rs) : k = FunctionEntry(s, r)[1] /\ u.functionsByARN[k] = FunctionOf(s, r)
  /\ \A r \in Distributions(rs) : Valid(u, r)
  /\ ToSet(c.distributions) = {DistributionOf(u, r) : r \in Distributions(rs)}

LEMMA PassesBind ==
  ASSUME NEW raw, NEW rs, Proper(rs), AllPasses(Builder(raw), rs).ok,
         \A x : ToSet(x.raw) = ToSet(raw) => ARNsDiffer(SaidOf(x), Chosen(rs, {"Function"}))
  PROVE  \E s, u : Bound(AllPasses(Builder(raw), rs), raw, rs, s, u)
<1> DEFINE b == Builder(raw)
           c == AllPasses(b, rs)
<1>1. Shaped(b) /\ b.ok = TRUE /\ b.aliasOwner = <<>> /\ b.raw = raw /\ DOMAIN b = DOMAIN Builder(<<>>)
  BY EmptyIsSeq DEF Builder, Shaped
<1>2. PICK f : /\ f[0] = b /\ f[7] = c
               /\ \A k \in 1 .. 7 : f[k - 1].ok /\ f[k].ok /\ Passed(k, f[k - 1], f[k], Chosen(rs, Passes[k]))
  <2>1. AllPasses(b, rs).ok /\ \A x : ToSet(x.raw) = ToSet(b.raw) => ARNsDiffer(SaidOf(x), Chosen(rs, {"Function"}))
    BY <1>1
  <2> HIDE DEF b
  <2> QED BY <1>1, <2>1, PassesDone
<1>3. /\ b.policies = Managed /\ b.keyGroups = <<>> /\ b.stores = <<>> /\ b.functions = {} /\ b.functionsByARN = <<>>
      /\ b.distributions = <<>>
  BY DEF Builder
<1>4. c.raw = raw
  <2> HIDE DEF b
  <2> QED BY <1>1, AllRawKept DEF Proper
<1> HIDE DEF b, c
<1> DEFINE S(k) == SaidOf(f[k])
           R(k) == Chosen(rs, Passes[k])
           Empty1(k) == /\ Linked(S(k), rs) /\ S(k).raw = ToSet(raw)
                        /\ k < 6 => S(k).functions = {} /\ S(k).functionsByARN = <<>>
                        /\ k < 7 => S(k).distributions = {}
           T == {k \in 0 .. 7 : Empty1(k)}
<1>5. \A k \in 1 .. 7 : S(k) = After(k, S(k - 1), R(k)) /\ Passable(k, S(k - 1), R(k))
  BY <1>2 DEF Passed
<1>6. 0 \in T
  <2>1. S(0) = SaidOf(b)
    BY <1>2
  <2>2. /\ S(0).policies = Managed /\ S(0).keyGroups = <<>> /\ S(0).stores = <<>> /\ S(0).functions = {} /\ S(0).functionsByARN = <<>>
        /\ S(0).distributions = {} /\ S(0).raw = ToSet(raw)
    BY <1>1, <1>3, <2>1, EmptyIsSeq DEF SaidOf
  <2> HIDE DEF S
  <2>3. Linked(S(0), rs)
    BY <2>2, ManagedAssumption DEF Linked
  <2> QED BY <2>2, <2>3
<1>7. ASSUME NEW k \in 1 .. 7 PROVE TablesAfter(k, S(k - 1), S(k), R(k))
  <2>1. TablesAfter(k, SaidOf(f[k - 1]), After(k, SaidOf(f[k - 1]), Chosen(rs, Passes[k])), Chosen(rs, Passes[k]))
    BY AfterTables
  <2> QED BY <1>5, <2>1
<1>8. ASSUME NEW k \in 1 .. 7, k - 1 \in T PROVE k \in T
  <2>1. k \in 0 .. 7 /\ Empty1(k - 1) /\ k - 1 < 7 /\ (k < 6 => k - 1 < 6)
    BY <1>8
  <2>2. Linked(S(k), rs)
    <3>1. Linked(SaidOf(f[k - 1]), rs)
      BY <2>1
    <3>2. Linked(After(k, SaidOf(f[k - 1]), Chosen(rs, Passes[k])), rs)
      BY <3>1, PassLinks
    <3> QED BY <1>5, <3>2
  <2> HIDE DEF S, R
  <2>3. /\ S(k).raw = S(k - 1).raw
        /\ k # 6 => S(k).functions = S(k - 1).functions /\ S(k).functionsByARN = S(k - 1).functionsByARN
        /\ k # 7 => S(k).distributions = S(k - 1).distributions
    BY Zenon, <1>7 DEF TablesAfter
  <2> QED BY <2>1, <2>2, <2>3
<1> HIDE DEF T
<1>9. \A k \in 0 .. 7 : k \in T
  BY <1>6, <1>8, UpTo
<1>10. Empty1(5) /\ Empty1(6)
  <2>1. 5 \in 0 .. 7 /\ 6 \in 0 .. 7
    OBVIOUS
  <2> QED BY <1>9, <2>1 DEF T
<1>11. R(6) = Functions(rs) /\ R(7) = Distributions(rs)
  BY DEF Passes, Functions, Distributions
<1>12. 6 \in 1 .. 7 /\ 7 \in 1 .. 7 /\ 6 - 1 = 5 /\ 7 - 1 = 6
  OBVIOUS
<1>13. /\ S(6).functions = {FunctionOf(S(5), r) : r \in Functions(rs)}
       /\ S(6).functionsByARN = Entered(<<>>, {FunctionEntry(S(5), r) : r \in Functions(rs)})
       /\ S(7).functions = S(6).functions /\ S(7).distributions = {DistributionOf(S(6), r) : r \in Distributions(rs)}
  <2> HIDE DEF S, R
  <2>1. TablesAfter(6, S(5), S(6), Functions(rs)) /\ TablesAfter(7, S(6), S(7), Distributions(rs))
    <3>1. TablesAfter(6, S(6 - 1), S(6), R(6)) /\ TablesAfter(7, S(7 - 1), S(7), R(7))
      BY <1>7, <1>12
    <3> QED BY <1>11, <1>12, <3>1
  <2>2. /\ S(6).functions = S(5).functions \cup {FunctionOf(S(5), r) : r \in Functions(rs)}
        /\ S(6).functionsByARN = Entered(S(5).functionsByARN, {FunctionEntry(S(5), r) : r \in Functions(rs)})
    BY Zenon, <2>1 DEF TablesAfter
  <2>3. S(7).functions = S(6).functions /\ S(7).distributions = S(6).distributions \cup {DistributionOf(S(6), r) : r \in Distributions(rs)}
    <3>1. 7 # 6
      OBVIOUS
    <3> QED BY Zenon, <2>1, <3>1 DEF TablesAfter
  <2>4. S(5).functions = {} /\ S(5).functionsByARN = <<>> /\ S(6).distributions = {}
    BY <1>10
  <2> QED BY <2>2, <2>3, <2>4
<1>14. Passable(6, S(5), Functions(rs)) /\ Passable(7, S(6), Distributions(rs))
  <2> HIDE DEF S, R
  <2> QED BY <1>5, <1>11, <1>12
<1>15. S(7).functions = c.functions /\ S(7).distributions = ToSet(c.distributions)
  BY <1>2 DEF SaidOf
<1> HIDE DEF S, R
<1>16. \A r \in Functions(rs) : FunctionIsValid(S(5), r)
  BY <1>14 DEF Passable, Valid, Functions, Chosen
<1>17. \A r \in Distributions(rs) : Valid(S(6), r)
  BY <1>14 DEF Passable
<1>18. ASSUME NEW k \in DOMAIN S(6).functionsByARN
       PROVE  \E r \in Functions(rs) : k = FunctionEntry(S(5), r)[1] /\ S(6).functionsByARN[k] = FunctionOf(S(5), r)
  <2> DEFINE E == {FunctionEntry(S(5), r) : r \in Functions(rs)}
  <2>1. \E e \in E : e[1] = k /\ S(6).functionsByARN[k] = e[2]
    <3> HIDE DEF E
    <3>1. k \in DOMAIN Entered(<<>>, E)
      BY <1>13, <1>18 DEF E
    <3>2. (\E e \in E : e[1] = k /\ Entered(<<>>, E)[k] = e[2]) \/ k \in DOMAIN <<>>
      BY <3>1, EnteredHas
    <3> QED BY <1>13, <3>2 DEF E
  <2>2. \A r : FunctionEntry(S(5), r)[2] = FunctionOf(S(5), r)
    BY DEF FunctionEntry
  <2> QED BY <2>1, <2>2
<1>19. Bound(c, raw, rs, S(5), S(6))
  BY <1>4, <1>10, <1>13, <1>15, <1>16, <1>17, <1>18 DEF Bound
<1> QED BY <1>19 DEF c, b

-----------------------------------------------------------------------------
(* What references stand for: the first token of a text tells them apart.  *)
ArnOf(type) == <<"arn", type, "">>

LEMMA FirstToken ==
  ASSUME NEW s, IsSeq(s), s # <<>>, NEW t, IsSeq(t)
  PROVE  IsSeq(s \o t) /\ s \o t # <<>> /\ (s \o t)[1] = s[1]
<1>1. s \in Seq(ToSet(s))
  BY DEF IsSeq
<1>2. 1 \in 1 .. Len(s) /\ Len(s) \in Nat /\ Len(t) \in Nat
  <2>1. Len(t) \in Nat
    BY ElementsOf
  <2> HIDE DEF ToSet
  <2> QED BY <1>1, <2>1
<1>3. IsSeq(s \o t) /\ Len(s \o t) = Len(s) + Len(t) /\ (s \o t)[1] = s[1]
  BY <1>2, Concatenated
<1>4. s \o t # <<>>
  <2>1. Len(s \o t) # 0
    BY <1>2, <1>3
  <2> DEFINE y == s \o t
  <2> HIDE DEF y
  <2>2. Len(y) # 0 => y # <<>>
    OBVIOUS
  <2> QED BY <2>1, <2>2 DEF y
<1> QED BY <1>3, <1>4

LEMMA OneToken ==
  ASSUME NEW x
  PROVE  IsSeq(<<x>>) /\ <<x>> # <<>> /\ <<x>>[1] = x
<1>1. <<x>> \in Seq({x}) /\ <<x>> # <<>> /\ <<x>>[1] = x
  OBVIOUS
<1> QED BY <1>1, SeqOfSome

Denotes(x, text) ==
  /\ text # <<>> /\ text[1][1] # "managed"
  /\ \A type, id : text[1] = <<"id", type, id>> => type = x.type /\ id = x.id
  /\ text[1] = ArnOf("Function") => x.type = "Function" /\ text = FunctionARN(x)
  /\ text[1] = ArnOf("KeyValueStore") => x.type = "KeyValueStore" /\ text = StoreARN(x)

PlainlyNamed(x) ==
  /\ IsSeq(RawName(x, "Name", Word(x.id))) /\ RawName(x, "Name", Word(x.id))[1][1] \notin Identifying
  /\ IsSeq(BucketName(x)) /\ BucketName(x)[1][1] \notin Identifying

(* A text that is no identifier of the four kinds.                         *)
LEMMA PlainText ==
  ASSUME NEW x, NEW text, text # <<>>, text[1][1] \notin {"id", "arn", "managed"}
  PROVE  Denotes(x, text)
<1>1. \A type, id : <<"id", type, id>>[1] = "id"
  OBVIOUS
<1>2. \A type : ArnOf(type)[1] = "arn"
  BY DEF ArnOf
<1> QED BY <1>1, <1>2 DEF Denotes

LEMMA IDText ==
  ASSUME NEW x
  PROVE  /\ Denotes(x, ID(x.type, x.id)) /\ IsSeq(ID(x.type, x.id)) /\ ID(x.type, x.id) # <<>>
         /\ ID(x.type, x.id)[1] = <<"id", x.type, x.id>>
<1> DEFINE i == ID(x.type, x.id)
           k == <<"id", x.type, x.id>>
<1>1. i = <<k>>
  BY DEF ID
<1>2. k[1] = "id" /\ \A type, id : k = <<"id", type, id>> => type = x.type /\ id = x.id
  OBVIOUS
<1> HIDE DEF k
<1>3. IsSeq(i) /\ i # <<>> /\ i[1] = k
  BY <1>1, OneToken
<1>4. \A type : ArnOf(type)[1] = "arn"
  BY DEF ArnOf
<1> HIDE DEF i
<1>5. Denotes(x, i)
  BY <1>2, <1>3, <1>4 DEF Denotes
<1> QED BY <1>3, <1>5 DEF i, k

LEMMA ARNText ==
  ASSUME NEW type, NEW name, IsSeq(name)
  PROVE  IsSeq(ARN(type, name)) /\ ARN(type, name) # <<>> /\ ARN(type, name)[1] = ArnOf(type)
<1> DEFINE k == ArnOf(type)
<1>1. ARN(type, name) = <<k>> \o name
  BY DEF ARN, ArnOf
<1> HIDE DEF k
<1>2. IsSeq(<<k>>) /\ <<k>> # <<>> /\ <<k>>[1] = k
  BY OneToken
<1>3. IsSeq(<<k>> \o name) /\ <<k>> \o name # <<>> /\ (<<k>> \o name)[1] = <<k>>[1]
  BY <1>2, FirstToken
<1> QED BY <1>1, <1>2, <1>3 DEF k

LEMMA ArnTokens ==
  /\ \A type : ArnOf(type)[1] = "arn" /\ ArnOf(type)[2] = type
  /\ ArnOf("Function") # ArnOf("KeyValueStore") /\ ArnOf("Distribution") # ArnOf("KeyValueStore") /\ ArnOf("Distribution") # ArnOf("Function")
  /\ \A y, type, id : ArnOf(y) # <<"id", type, id>>
<1>1. \A type : ArnOf(type)[1] = "arn" /\ ArnOf(type)[2] = type
  BY DEF ArnOf
<1>2. \A type, id : <<"id", type, id>>[1] = "id"
  OBVIOUS
<1>3. ArnOf("Function")[2] # ArnOf("KeyValueStore")[2] /\ ArnOf("Distribution")[2] # ArnOf("KeyValueStore")[2]
      /\ ArnOf("Distribution")[2] # ArnOf("Function")[2]
  BY <1>1
<1>4. \A y, type, id : ArnOf(y)[1] # <<"id", type, id>>[1]
  BY <1>1, <1>2
<1> QED BY <1>1, <1>3, <1>4

LEMMA NamedText ==
  ASSUME NEW x, PlainlyNamed(x)
  PROVE  /\ Denotes(x, RawName(x, "Name", Word(x.id))) /\ Denotes(x, BucketName(x)) /\ Denotes(x, BucketName(x) \o Word(".s3"))
         /\ x.type = "Function" => Denotes(x, FunctionARN(x))
         /\ x.type \in {"KeyValueStore", "Distribution"} => Denotes(x, ARN(x.type, ID(x.type, x.id)))
         /\ Denotes(x, Word("cloudfront") \o ID(x.type, x.id))
<1> DEFINE name == RawName(x, "Name", Word(x.id))
           bucket == BucketName(x)
           i == ID(x.type, x.id)
<1>1. \A w : Word(w) # <<>> /\ IsSeq(Word(w)) /\ Word(w)[1][1] = "word"
  <2> SUFFICES ASSUME NEW w PROVE Word(w) # <<>> /\ IsSeq(Word(w)) /\ Word(w)[1][1] = "word"
    OBVIOUS
  <2> DEFINE k == <<"word", w, "">>
  <2>1. Word(w) = <<k>> /\ k[1] = "word"
    BY DEF Word
  <2> HIDE DEF k
  <2> QED BY <2>1, OneToken
<1>2. name # <<>> /\ bucket # <<>>
  <2> DEFINE k == <<"bucket", x.id, "">>
  <2>1. <<k>> # <<>>
    OBVIOUS
  <2>2. name # <<>>
    BY <1>1 DEF RawName
  <2> HIDE DEF k
  <2>3. RawName(x, "BucketName", <<k>>) # <<>>
    BY <2>1 DEF RawName
  <2> QED BY <2>2, <2>3 DEF BucketName, k
<1>3. /\ IsSeq(name) /\ name[1][1] \notin {"id", "arn", "managed"}
      /\ IsSeq(bucket) /\ bucket[1][1] \notin {"id", "arn", "managed"}
  BY DEF PlainlyNamed, Identifying
<1> HIDE DEF name, bucket
<1>4. Denotes(x, name) /\ Denotes(x, bucket)
  BY <1>2, <1>3, PlainText
<1>5. bucket \o Word(".s3") # <<>> /\ (bucket \o Word(".s3"))[1] = bucket[1]
  BY <1>1, <1>2, <1>3, FirstToken
<1>6. Denotes(x, bucket \o Word(".s3"))
  <2> DEFINE y == bucket \o Word(".s3")
  <2> HIDE DEF y
  <2>1. y # <<>> /\ y[1][1] \notin {"id", "arn", "managed"}
    BY <1>3, <1>5 DEF y
  <2>2. Denotes(x, y)
    BY <2>1, PlainText
  <2> QED BY <2>2 DEF y
<1>7. IsSeq(i)
  BY IDText
<1> HIDE DEF i
<1>8. Denotes(x, Word("cloudfront") \o i)
  <2>1. Word("cloudfront") \o i # <<>> /\ (Word("cloudfront") \o i)[1] = Word("cloudfront")[1]
    BY <1>1, <1>7, FirstToken
  <2> DEFINE y == Word("cloudfront") \o i
  <2>2. y # <<>> /\ y[1][1] = "word"
    BY <1>1, <2>1
  <2> HIDE DEF y
  <2>3. Denotes(x, y)
    BY <2>2, PlainText
  <2> QED BY <2>3 DEF y
<1>9. ASSUME x.type = "Function" PROVE Denotes(x, FunctionARN(x))
  <2>1. FunctionARN(x) # <<>> /\ FunctionARN(x)[1] = ArnOf("Function")
    BY <1>3, ARNText DEF FunctionARN, name
  <2> DEFINE y == FunctionARN(x)
  <2> HIDE DEF y
  <2>2. Denotes(x, y)
    BY <1>9, <2>1, ArnTokens DEF Denotes, y
  <2> QED BY <2>2 DEF y
<1>10. ASSUME x.type \in {"KeyValueStore", "Distribution"} PROVE Denotes(x, ARN(x.type, i))
  <2> DEFINE y == ARN(x.type, i)
  <2>1. y # <<>> /\ y[1] = ArnOf(x.type)
    BY <1>7, ARNText
  <2>2. x.type = "KeyValueStore" => y = StoreARN(x)
    BY DEF StoreARN, i
  <2> HIDE DEF y
  <2>3. Denotes(x, y)
    BY <1>10, <2>1, <2>2, ArnTokens DEF Denotes
  <2> QED BY <2>3 DEF y
<1> QED BY <1>4, <1>6, <1>8, <1>9, <1>10 DEF name, bucket, i

IsText(x, w) == w = Str(w.text) /\ Denotes(x, w.text)

LEMMA TextOf ==
  ASSUME NEW x, NEW text, Denotes(x, text)
  PROVE  IsText(x, Str(text)) /\ Str(text) # Error
<1>1. Str(text).text = text /\ Str(text).kind = "string" /\ Error.kind = "error"
  BY DEF Str, Error
<1>2. Str(text) # Error
  BY <1>1
<1> QED BY <1>1, <1>2 DEF IsText

LEMMA ReferenceText ==
  ASSUME NEW x, PlainlyNamed(x), NEW attr
  PROVE  /\ RefValue(x) = Error \/ IsText(x, RefValue(x))
         /\ AttValue(x, attr) = Error \/ IsText(x, AttValue(x, attr))
         /\ IsText(x, Placeholder(x.id, attr))
<1> DEFINE name == RawName(x, "Name", Word(x.id))
           i == ID(x.type, x.id)
           k == <<"unresolved", x.id, attr>>
<1>1. /\ Denotes(x, name) /\ Denotes(x, BucketName(x)) /\ Denotes(x, BucketName(x) \o Word(".s3"))
      /\ x.type = "Function" => Denotes(x, FunctionARN(x))
      /\ x.type \in {"KeyValueStore", "Distribution"} => Denotes(x, ARN(x.type, i))
      /\ Denotes(x, Word("cloudfront") \o i) /\ Denotes(x, i)
  BY NamedText, IDText
<1>2. Denotes(x, Word(attr))
  <2> DEFINE y == <<"word", attr, "">>
  <2>1. Word(attr) = <<y>> /\ y[1] = "word"
    BY DEF Word
  <2> HIDE DEF y
  <2>2. <<y>> # <<>> /\ <<y>>[1] = y
    BY OneToken
  <2>3. Word(attr) # <<>> /\ Word(attr)[1][1] \notin {"id", "arn", "managed"}
    BY <2>1, <2>2
  <2> QED BY <2>3, PlainText
<1>3. IsText(x, Placeholder(x.id, attr))
  <2>1. Placeholder(x.id, attr) = Str(<<k>>) /\ k[1] = "unresolved"
    BY DEF Placeholder
  <2> HIDE DEF k
  <2>2. <<k>> # <<>> /\ <<k>>[1] = k
    BY OneToken
  <2>3. Denotes(x, <<k>>)
    <3> DEFINE y == <<k>>
    <3> HIDE DEF y
    <3>1. y # <<>> /\ y[1][1] \notin {"id", "arn", "managed"}
      BY <2>1, <2>2 DEF y
    <3>2. Denotes(x, y)
      BY <3>1, PlainText
    <3> QED BY <3>2 DEF y
  <2> QED BY <2>1, <2>3, TextOf
<1> HIDE DEF i, name
<1>4. RefValue(x) = Error \/ \E text : RefValue(x) = Str(text) /\ Denotes(x, text)
  <2>1. RefValue(x) \in {Str(name), Str(BucketName(x)), Str(i), Error} \/ (x.type = "Function" /\ RefValue(x) = Str(FunctionARN(x)))
    BY DEF RefValue, name, i, SupportedTypes, PolicyTypes
  <2> QED BY <1>1, <2>1
<1>5. AttValue(x, attr) = Error \/ \E text : AttValue(x, attr) = Str(text) /\ Denotes(x, text)
  <2>1. \/ AttValue(x, attr) \in {Str(i), Str(Word("cloudfront") \o i), Str(BucketName(x) \o Word(".s3")), Str(Word(attr)), Error}
        \/ x.type = "Function" /\ AttValue(x, attr) = Str(FunctionARN(x))
        \/ x.type \in {"KeyValueStore", "Distribution"} /\ AttValue(x, attr) = Str(ARN(x.type, i))
    BY DEF AttValue, i, SupportedTypes, PolicyTypes
  <2> QED BY <1>1, <1>2, <2>1
<1> QED BY <1>3, <1>4, <1>5, TextOf

-----------------------------------------------------------------------------
(* What the resolver leaves of what is written out.                        *)
Resolver(env) == \A v \in Written : ResolvesTo(env, v, ValueOf(env, v))

LEMMA Kinds ==
  /\ Error.kind = "error" /\ NoValue.kind = "noValue" /\ Nothing.kind = "ref"
  /\ \A fields : Map(fields).kind = "map" /\ Map(fields).fields = fields
  /\ \A items : Lst(items).kind = "list" /\ Lst(items).items = items
  /\ \A text : Str(text).kind = "string" /\ Str(text).text = text
BY DEF Error, NoValue, Nothing, Map, Lst, Str

LEMMA FieldMade ==
  ASSUME NEW env, Resolver(env), NEW m \in Written, m.kind = "map", NEW w, w = ValueOf(env, m), w # Error, NEW f
  PROVE  /\ Has(w, f) <=> Has(m, f) /\ m.fields[f] # Nothing
         /\ Has(m, f) => m.fields[f] \in Written
         /\ Has(w, f) => w.fields[f] = ValueOf(env, m.fields[f]) /\ w.fields[f] # Error
<1> DEFINE fields == [g \in {h \in DOMAIN m.fields : m.fields[h] # Nothing} |-> ValueOf(env, m.fields[g])]
<1>1. (\A g \in DOMAIN m.fields : ValueOf(env, m.fields[g]) # Error) /\ w = Map(fields)
  BY DEF Resolver, ResolvesTo
<1>2. w.fields = fields
  BY <1>1 DEF Map
<1>3. \A g \in DOMAIN m.fields : m.fields[g] \in Written
  BY ResolverAssumption
<1> QED BY <1>1, <1>2, <1>3 DEF Has

LEMMA MappedSeq ==
  ASSUME NEW s, IsSeq(s), NEW t, t = [i \in DOMAIN s |-> t[i]]
  PROVE  IsSeq(t)
<1>1. Len(s) \in Nat /\ DOMAIN s = 1 .. Len(s)
  BY ElementsOf
<1> DEFINE n == Len(s)
           X == {t[i] : i \in 1 .. n}
<1>2. t \in [1 .. n -> X]
  BY <1>1
<1>3. t \in Seq(X)
  <2> HIDE DEF X, n
  <2>1. n \in Nat
    BY <1>1 DEF n
  <2> QED BY <1>2, <2>1
<1> QED BY <1>3, SeqOfSome

LEMMA ItemsMade ==
  ASSUME NEW env, Resolver(env), NEW m \in Written, m.kind = "map", NEW w, w = ValueOf(env, m), w # Error, NEW f,
         Has(m, f) => m.fields[f].kind = "list" /\ \A i \in DOMAIN m.fields[f].items : m.fields[f].items[i] # Nothing
  PROVE  /\ DOMAIN Maps(w, f) = DOMAIN Maps(m, f) /\ (Has(w, f) <=> Has(m, f)) /\ (Has(w, f) => w.fields[f].kind = "list")
         /\ \A i \in DOMAIN Maps(m, f) : /\ Maps(m, f)[i] \in Written
                                         /\ Maps(w, f)[i] = ValueOf(env, Maps(m, f)[i]) /\ Maps(w, f)[i] # Error
         /\ IsSeq(Maps(m, f)) => IsSeq(Maps(w, f))
<1>1. /\ Has(w, f) <=> Has(m, f) /\ m.fields[f] # Nothing
      /\ Has(m, f) => m.fields[f] \in Written
      /\ Has(w, f) => w.fields[f] = ValueOf(env, m.fields[f]) /\ w.fields[f] # Error
  BY FieldMade
<1>2. CASE ~Has(m, f)
  BY <1>1, <1>2, EmptyIsSeq DEF Maps
<1>3. CASE Has(m, f)
  <2> DEFINE v == m.fields[f]
             x == w.fields[f]
             items == [i \in DOMAIN v.items |-> ValueOf(env, v.items[i])]
  <2>1. v.kind = "list" /\ v \in Written /\ v # Nothing /\ \A i \in DOMAIN v.items : v.items[i] # Nothing
    BY <1>1, <1>3, Kinds
  <2>2. Has(w, f) /\ x = ValueOf(env, v) /\ x # Error
    BY <1>1, <1>3, <2>1
  <2> HIDE DEF v, x
  <2>3. (\A i \in DOMAIN v.items : ValueOf(env, v.items[i]) # Error) /\ x = Lst(items)
    BY <2>1, <2>2 DEF Resolver, ResolvesTo
  <2>4. x.items = items /\ x.kind = "list"
    BY <2>3, Kinds
  <2>5. \A i \in DOMAIN v.items : v.items[i] \in Written
    BY <2>1, ResolverAssumption
  <2>6. Maps(m, f) = v.items /\ Maps(w, f) = x.items
    BY <1>3, <2>2 DEF Maps, v, x
  <2>7. IsSeq(v.items) => IsSeq(items)
    BY MappedSeq
  <2> QED BY <1>3, <2>2, <2>3, <2>4, <2>5, <2>6, <2>7 DEF x
<1> QED BY <1>2, <1>3

LEMMA RecordsMade ==
  ASSUME NEW env, Resolver(env), NEW m \in Written, m.kind = "map", NEW w, w = ValueOf(env, m), w # Error, NEW f, AreMaps(m, f)
  PROVE  /\ DOMAIN Maps(w, f) = DOMAIN Maps(m, f) /\ IsSeq(Maps(m, f)) /\ IsSeq(Maps(w, f))
         /\ \A i \in DOMAIN Maps(m, f) : /\ Maps(m, f)[i] \in Written /\ Maps(m, f)[i].kind = "map"
                                         /\ Maps(w, f)[i] = ValueOf(env, Maps(m, f)[i]) /\ Maps(w, f)[i] # Error
<1>1. Has(m, f) => m.fields[f].kind = "list" /\ \A i \in DOMAIN m.fields[f].items : m.fields[f].items[i] # Nothing
  BY Kinds DEF AreMaps
<1>2. IsSeq(Maps(m, f)) /\ \A i \in DOMAIN Maps(m, f) : Maps(m, f)[i].kind = "map"
  BY EmptyIsSeq DEF AreMaps, Maps
<1>3. /\ DOMAIN Maps(w, f) = DOMAIN Maps(m, f)
      /\ \A i \in DOMAIN Maps(m, f) : /\ Maps(m, f)[i] \in Written
                                      /\ Maps(w, f)[i] = ValueOf(env, Maps(m, f)[i]) /\ Maps(w, f)[i] # Error
      /\ IsSeq(Maps(m, f)) => IsSeq(Maps(w, f))
  BY <1>1, ItemsMade
<1> QED BY <1>2, <1>3

(* A reference to one of the resources of an environment.                  *)
Refers(env, v) == v.kind \in {"ref", "getAtt"} /\ v.to \in Ids(env.parsed.resources)
Faithful(env) == Resolver(env) /\ \A x \in env.parsed.resources : PlainlyNamed(x)

LEMMA Referred ==
  ASSUME NEW env, Faithful(env), NEW v \in Written, Refers(env, v), NEW x, x = Resource(env.parsed.resources, v.to)
  PROVE  /\ x \in env.parsed.resources /\ x.id = v.to /\ v # Nothing
         /\ ValueOf(env, v) = Str(ValueOf(env, v).text) /\ Denotes(x, ValueOf(env, v).text)
<1> DEFINE w == ValueOf(env, v)
           rs == env.parsed.resources
<1>1. x \in rs /\ x.id = v.to
  <2>1. \E r \in rs : r.id = v.to
    BY DEF Refers, Ids
  <2> QED BY <2>1 DEF Resource
<1>2. PlainlyNamed(x) /\ ResolvesTo(env, v, w)
  BY <1>1 DEF Faithful, Resolver
<1>3. CASE v.kind = "ref"
  <2>1. w = IF RefValue(x) = Error THEN Placeholder(v.to, "") ELSE RefValue(x)
    BY <1>2, <1>3 DEF ResolvesTo, Refers
  <2> DEFINE e == ""
  <2>2. w = IF RefValue(x) = Error THEN Placeholder(x.id, e) ELSE RefValue(x)
    BY <1>1, <2>1
  <2> HIDE DEF e, w
  <2>3. IsText(x, w)
    BY <1>2, <2>2, ReferenceText
  <2>4. w # NoValue
    <3>1. w.kind = "string"
      BY <2>3, Kinds DEF IsText
    <3> QED BY <3>1, Kinds
  <2> QED BY <1>1, <1>2, <2>3, <2>4 DEF IsText, ResolvesTo, w
<1>4. CASE v.kind = "getAtt"
  <2>1. w = IF AttValue(x, v.attr) = Error THEN Placeholder(x.id, v.attr) ELSE AttValue(x, v.attr)
    BY <1>1, <1>2, <1>4 DEF ResolvesTo, Refers
  <2> HIDE DEF w
  <2>2. IsText(x, w)
    BY <1>2, <2>1, ReferenceText
  <2>3. v # Nothing
    BY <1>4, Kinds
  <2> QED BY <1>1, <2>2, <2>3 DEF IsText, w
<1> QED BY <1>3, <1>4 DEF Refers

(* ... and the field of an object that is one.                             *)
LEMMA FieldReferred ==
  ASSUME NEW env, Faithful(env), NEW m \in Written, m.kind = "map", NEW w, w = ValueOf(env, m), w # Error, NEW f,
         Refers(env, Field(m, f)), NEW x, x = Resource(env.parsed.resources, Field(m, f).to)
  PROVE  x \in env.parsed.resources /\ x.id = Field(m, f).to /\ Has(w, f) /\ Denotes(x, Text(w, f))
<1> DEFINE v == Field(m, f)
<1>1. Has(m, f) /\ v = m.fields[f]
  <2>1. Empty.kind = "map"
    BY Kinds DEF Empty
  <2> QED BY <2>1 DEF Refers, Field
<1>2. /\ Has(w, f) <=> Has(m, f) /\ m.fields[f] # Nothing
      /\ Has(m, f) => m.fields[f] \in Written
      /\ Has(w, f) => w.fields[f] = ValueOf(env, m.fields[f]) /\ w.fields[f] # Error
  BY FieldMade DEF Faithful
<1> HIDE DEF v
<1>3. v \in Written /\ Refers(env, v) /\ x = Resource(env.parsed.resources, v.to)
  BY <1>1, <1>2 DEF v
<1>4. x \in env.parsed.resources /\ x.id = v.to /\ v # Nothing /\ Denotes(x, ValueOf(env, v).text)
  BY <1>3, Referred
<1> QED BY <1>1, <1>2, <1>4 DEF Text, v

-----------------------------------------------------------------------------
(* A text that is a key of a table, and denotes a resource, has its entry. *)
Setting(env, raw, rs) ==
  /\ IsSeq(raw) /\ DistinctIds(raw) /\ env.parsed.resources = ToSet(raw) /\ Faithful(env)
  /\ rs = [i \in DOMAIN raw |-> ResolvedOne(env, raw[i])]
  /\ \A q, r \in Functions(rs) : FunctionARN(Resource(ToSet(raw), q.id)) = FunctionARN(Resource(ToSet(raw), r.id)) => q = r

LEMMA FromRaw ==
  ASSUME NEW env, NEW raw, NEW rs, Setting(env, raw, rs)
  PROVE  /\ \A x \in ToSet(raw) : Resource(ToSet(raw), x.id) = x /\ PlainlyNamed(x)
         /\ \A r \in ToSet(rs) : \E x \in ToSet(raw) : r = ResolvedOne(env, x) /\ x.id = r.id /\ x.type = r.type
         /\ \A x \in ToSet(raw) : ResolvedOne(env, x) \in ToSet(rs)
         /\ \A q, r \in ToSet(rs) : q.id = r.id => q = r
<1>1. DOMAIN raw = 1 .. Len(raw) /\ ToSet(raw) = {raw[i] : i \in DOMAIN raw} /\ \A i, j \in DOMAIN raw : raw[i].id = raw[j].id => i = j
  BY ElementsOf DEF Setting, DistinctIds
<1>2. ToSet(rs) = {ResolvedOne(env, raw[i]) : i \in DOMAIN raw}
  BY DEF Setting, ToSet
<1>3. \A x : ResolvedOne(env, x).id = x.id /\ ResolvedOne(env, x).type = x.type
  BY DEF ResolvedOne
<1>4. ASSUME NEW x \in ToSet(raw) PROVE Resource(ToSet(raw), x.id) = x
  <2>1. \A y \in ToSet(raw) : y.id = x.id => y = x
    BY <1>1
  <2> QED BY <2>1 DEF Resource
<1>5. \A x \in ToSet(raw) : PlainlyNamed(x)
  BY DEF Setting, Faithful
<1>6. \A r \in ToSet(rs) : \E x \in ToSet(raw) : r = ResolvedOne(env, x) /\ x.id = r.id /\ x.type = r.type
  BY <1>1, <1>2, <1>3
<1>7. \A x \in ToSet(raw) : ResolvedOne(env, x) \in ToSet(rs)
  BY <1>1, <1>2
<1>8. ASSUME NEW q \in ToSet(rs), NEW r \in ToSet(rs), q.id = r.id PROVE q = r
  <2>1. PICK x \in ToSet(raw) : q = ResolvedOne(env, x) /\ x.id = q.id
    BY <1>6
  <2>2. PICK y \in ToSet(raw) : r = ResolvedOne(env, y) /\ y.id = r.id
    BY <1>6
  <2>3. x = y
    BY <1>4, <1>8, <2>1, <2>2
  <2> QED BY <2>1, <2>2, <2>3
<1> QED BY <1>4, <1>5, <1>6, <1>7, <1>8

LEMMA PolicyReferred ==
  ASSUME NEW s, NEW rs, Linked(s, rs), NEW type \in PolicyTypes, NEW key \in DOMAIN s.policies[type], NEW x, Denotes(x, key)
  PROVE  s.policies[type][key].id = x.id
<1>1. key \notin DOMAIN Managed[type]
  BY ManagedAssumption DEF Denotes
<1>2. PICK r \in ToSet(rs) : key = ID(type, r.id) /\ s.policies[type][key].id = r.id
  BY <1>1 DEF Linked
<1>3. ID(type, r.id)[1] = <<"id", type, r.id>>
  BY DEF ID
<1>4. r.id = x.id
  <2>1. key[1] = <<"id", type, r.id>>
    BY <1>2, <1>3
  <2> QED BY <2>1 DEF Denotes
<1> QED BY <1>2, <1>4

LEMMA GroupReferred ==
  ASSUME NEW s, NEW rs, Linked(s, rs), NEW key \in DOMAIN s.keyGroups, NEW x, Denotes(x, key)
  PROVE  s.keyGroups[key].id = x.id
<1>1. PICK r \in ToSet(rs) : key = ID("KeyGroup", r.id) /\ s.keyGroups[key].id = r.id
  BY DEF Linked
<1>2. ID("KeyGroup", r.id)[1] = <<"id", "KeyGroup", r.id>>
  BY DEF ID
<1>3. r.id = x.id
  <2>1. key[1] = <<"id", "KeyGroup", r.id>>
    BY <1>1, <1>2
  <2> QED BY <2>1 DEF Denotes
<1> QED BY <1>1, <1>3

LEMMA StoreReferred ==
  ASSUME NEW s, NEW rs, Linked(s, rs), NEW key \in DOMAIN s.stores, NEW x, Denotes(x, key)
  PROVE  s.stores[key].id = x.id
<1>1. PICK r \in ToSet(rs) : r.type = "KeyValueStore" /\ key = StoreARN(r) /\ s.stores[key].id = r.id
  BY DEF Linked
<1>2. key[1] = ArnOf("KeyValueStore")
  <2>1. IsSeq(ID(r.type, r.id))
    BY IDText
  <2> QED BY <1>1, <2>1, ARNText DEF StoreARN
<1>3. StoreARN(r) = StoreARN(x)
  BY <1>1, <1>2 DEF Denotes
<1>4. r.id = x.id
  BY <1>3, IDsDiffer
<1> QED BY <1>1, <1>4

LEMMA FunctionReferred ==
  ASSUME NEW env, NEW raw, NEW rs, Setting(env, raw, rs), NEW c, NEW s, NEW u, Bound(c, raw, rs, s, u),
         NEW key \in DOMAIN u.functionsByARN, NEW x \in ToSet(raw), Denotes(x, key)
  PROVE  u.functionsByARN[key].id = x.id
<1>1. PICK r \in Functions(rs) : key = FunctionEntry(s, r)[1] /\ u.functionsByARN[key] = FunctionOf(s, r)
  BY DEF Bound
<1>2. /\ \A y \in ToSet(raw) : Resource(ToSet(raw), y.id) = y /\ PlainlyNamed(y)
      /\ \A q \in ToSet(rs) : \E y \in ToSet(raw) : q = ResolvedOne(env, y) /\ y.id = q.id /\ y.type = q.type
      /\ \A y \in ToSet(raw) : ResolvedOne(env, y) \in ToSet(rs)
  BY FromRaw
<1>3. r \in ToSet(rs) /\ r.type = "Function"
  BY DEF Functions, Chosen
<1>4. PICK y \in ToSet(raw) : y.id = r.id
  BY <1>2, <1>3
<1>5. Resource(ToSet(raw), r.id) = y /\ PlainlyNamed(y)
  BY <1>2, <1>4
<1>6. key = FunctionARN(y)
  BY <1>1, <1>5 DEF FunctionEntry, Bound
<1>7. key[1] = ArnOf("Function")
  BY <1>5, <1>6, ARNText DEF FunctionARN, PlainlyNamed
<1>8. x.type = "Function" /\ FunctionARN(y) = FunctionARN(x)
  BY <1>6, <1>7 DEF Denotes
<1> DEFINE q == ResolvedOne(env, x)
<1>9. q \in Functions(rs) /\ q.id = x.id
  <2>1. q.id = x.id /\ q.type = x.type
    BY DEF ResolvedOne
  <2> HIDE DEF q
  <2>2. q \in ToSet(rs)
    BY <1>2 DEF q
  <2> QED BY <1>8, <2>1, <2>2 DEF Functions, Chosen
<1> HIDE DEF q
<1>10. Resource(ToSet(raw), q.id) = x
  BY <1>2, <1>9
<1>11. q = r
  BY <1>5, <1>8, <1>9, <1>10 DEF Setting
<1>12. FunctionOf(s, r).id = r.id
  BY DEF FunctionOf
<1> QED BY <1>1, <1>9, <1>11, <1>12

-----------------------------------------------------------------------------
(* The references of a function and of a behavior.                         *)
LEMMA ToRefers ==
  ASSUME NEW env, NEW raw, NEW rs, Setting(env, raw, rs), NEW c, c.raw = raw, NEW v, NEW id \in To(v, c)
  PROVE  Refers(env, v) /\ id = v.to
BY DEF To, Refers, Setting

LEMMA FunctionBinds ==
  ASSUME NEW env, NEW raw, NEW rs, Setting(env, raw, rs), NEW c, NEW s, NEW u, Bound(c, raw, rs, s, u),
         NEW m \in Written, m.kind = "map", NEW r, r.props = ValueOf(env, m), r.props # Error, FunctionIsValid(s, r),
         Field(m, "FunctionConfig").kind = "map", AreMaps(Field(m, "FunctionConfig"), "KeyValueStoreAssociations")
  PROVE  /\ Field(m, "FunctionCode").kind = "string" => FunctionOf(s, r).code = Text(m, "FunctionCode")
         /\ \A j \in DOMAIN Maps(Field(m, "FunctionConfig"), "KeyValueStoreAssociations") :
              To(Field(Maps(Field(m, "FunctionConfig"), "KeyValueStoreAssociations")[j], "KeyValueStoreARN"), c)
                \subseteq {FunctionOf(s, r).stores[j].id}
<1> DEFINE w == r.props
           f == FunctionOf(s, r)
<1>1. Resolver(env) /\ Faithful(env) /\ c.raw = raw /\ env.parsed.resources = ToSet(raw) /\ Linked(s, rs)
  BY DEF Setting, Faithful, Bound
<1> HIDE DEF w
<1>2. w = ValueOf(env, m) /\ w # Error
  BY DEF w
<1>3. \A g : /\ Has(w, g) <=> Has(m, g) /\ m.fields[g] # Nothing
             /\ Has(m, g) => m.fields[g] \in Written
             /\ Has(w, g) => w.fields[g] = ValueOf(env, m.fields[g]) /\ w.fields[g] # Error
  BY <1>1, <1>2, FieldMade
<1>4. ASSUME Field(m, "FunctionCode").kind = "string" PROVE f.code = Text(m, "FunctionCode")
  <2> DEFINE v == m.fields["FunctionCode"]
  <2>1. Has(m, "FunctionCode") /\ v.kind = "string"
    BY <1>4, Kinds DEF Field, Empty
  <2>2. v \in Written /\ v # Nothing
    BY <1>3, <2>1, Kinds
  <2>3. Has(w, "FunctionCode") /\ w.fields["FunctionCode"] = ValueOf(env, v)
    BY <1>3, <2>1, <2>2
  <2> HIDE DEF v
  <2>4. ValueOf(env, v) = v
    BY <1>1, <2>1, <2>2 DEF Resolver, ResolvesTo
  <2> QED BY <2>1, <2>3, <2>4 DEF FunctionOf, Text, w, v
<1> DEFINE settings == Field(m, "FunctionConfig")
           made == Field(w, "FunctionConfig")
           A == Maps(settings, "KeyValueStoreAssociations")
           B == Maps(made, "KeyValueStoreAssociations")
<1>5. /\ DOMAIN B = DOMAIN A
      /\ \A i \in DOMAIN A : A[i] \in Written /\ A[i].kind = "map" /\ B[i] = ValueOf(env, A[i]) /\ B[i] # Error
  <2>1. CASE ~Has(m, "FunctionConfig")
    <3>1. settings = Empty /\ made = Empty
      BY <1>3, <2>1 DEF Field
    <3>2. A = <<>> /\ B = <<>>
      BY <3>1, Kinds DEF Maps, Has, Empty
    <3> QED BY <3>2
  <2>2. CASE Has(m, "FunctionConfig")
    <3>1. settings = m.fields["FunctionConfig"] /\ settings.kind = "map"
      BY <2>2 DEF Field
    <3>2. settings \in Written /\ settings # Nothing
      BY <1>3, <2>2, <3>1, Kinds
    <3>3. Has(w, "FunctionConfig") /\ made = ValueOf(env, settings) /\ made # Error
      BY <1>3, <2>2, <3>1, <3>2 DEF Field
    <3> HIDE DEF settings, made
    <3>4. AreMaps(settings, "KeyValueStoreAssociations")
      BY DEF settings
    <3> QED BY <1>1, <3>1, <3>2, <3>3, <3>4, RecordsMade
  <2> QED BY <2>1, <2>2
<1>6. /\ Known(StoreARNs(r), s.stores) /\ f.stores = Found(StoreARNs(r), s.stores)
      /\ StoreARNs(r) = [i \in DOMAIN B |-> Text(B[i], "KeyValueStoreARN")]
  BY DEF FunctionIsValid, FunctionOf, StoreARNs, w
<1> HIDE DEF A, B, settings, made, f
<1>7. ASSUME NEW j \in DOMAIN A, NEW id \in To(Field(A[j], "KeyValueStoreARN"), c)
      PROVE  id = f.stores[j].id
  <2> DEFINE v == Field(A[j], "KeyValueStoreARN")
             x == Resource(ToSet(raw), v.to)
             key == Text(B[j], "KeyValueStoreARN")
  <2>1. Refers(env, v) /\ id = v.to
    BY <1>1, <1>7, ToRefers
  <2>2. x.id = v.to /\ Denotes(x, key)
    BY <1>1, <1>5, <1>7, <2>1, FieldReferred
  <2>3. j \in DOMAIN StoreARNs(r) /\ StoreARNs(r)[j] = key
    BY <1>5, <1>6, <1>7
  <2> HIDE DEF key, x
  <2>4. key \in DOMAIN s.stores /\ f.stores[j] = s.stores[key]
    BY <1>6, <2>3 DEF Known, Found
  <2>5. s.stores[key].id = x.id
    BY <1>1, <2>2, <2>4, StoreReferred
  <2> QED BY <2>1, <2>2, <2>4, <2>5
<1> QED BY <1>4, <1>7 DEF A, settings, f

LEMMA OptionalReferred ==
  ASSUME NEW s, NEW rs, Linked(s, rs), NEW type \in PolicyTypes, NEW x, NEW text, Denotes(x, text), OptionallyKnown(text, s.policies[type])
  PROVE  text # <<>> /\ s.policies[type][text].id = x.id /\ IfAny(text, s.policies[type]) = {s.policies[type][text]}
<1>1. text # <<>>
  BY DEF Denotes
<1>2. text \in DOMAIN s.policies[type]
  BY <1>1 DEF OptionallyKnown, Known
<1>3. s.policies[type][text].id = x.id
  BY <1>2, PolicyReferred
<1> QED BY <1>1, <1>3 DEF IfAny

LEMMA IdOfOne == ASSUME NEW y PROVE y.id \in Ids({y})
BY DEF Ids

(* What the references of a behavior as written, m, are in the one made.   *)
BehaviorBinds(m, b, c) ==
  /\ To(Field(m, "CachePolicyId"), c) \subseteq {b.cache.id}
  /\ To(Field(m, "OriginRequestPolicyId"), c) \subseteq Ids(b.orp)
  /\ To(Field(m, "ResponseHeadersPolicyId"), c) \subseteq Ids(b.rhp)
  /\ \A j \in DOMAIN Maps(m, "TrustedKeyGroups") : To(Maps(m, "TrustedKeyGroups")[j], c) \subseteq {b.keyGroups[j].id}
  /\ \A j \in DOMAIN Maps(m, "FunctionAssociations") :
       \A f \in To(Field(Maps(m, "FunctionAssociations")[j], "FunctionARN"), c) : j \in DOMAIN b.functions /\ b.functions[j].id = f

LEMMA BehaviorReferred ==
  ASSUME NEW env, NEW raw, NEW rs, Setting(env, raw, rs), NEW c, NEW s, NEW u, Bound(c, raw, rs, s, u),
         NEW m \in Written, m.kind = "map", BehaviorIsWritten(m), NEW w, w = ValueOf(env, m), w # Error,
         NEW origins, NEW isDefault, BehaviorIsValid(u, w, origins, isDefault)
  PROVE  BehaviorBinds(m, BehaviorOf(u, w), c)
<1> DEFINE b == BehaviorOf(u, w)
           Ref(f) == Resource(ToSet(raw), Field(m, f).to)
<1>1. Resolver(env) /\ Faithful(env) /\ c.raw = raw /\ env.parsed.resources = ToSet(raw) /\ Linked(u, rs)
  BY DEF Setting, Faithful, Bound
<1>2. ASSUME NEW f, NEW id \in To(Field(m, f), c)
      PROVE  Ref(f).id = id /\ Has(w, f) /\ Denotes(Ref(f), Text(w, f))
  <2>1. Refers(env, Field(m, f)) /\ id = Field(m, f).to
    BY <1>1, <1>2, ToRefers
  <2> QED BY <1>1, <2>1, FieldReferred
<1> HIDE DEF Ref
<1>3. /\ (Text(w, "CachePolicyId") # <<>>) # Has(w, "ForwardedValues")
      /\ OptionallyKnown(Text(w, "CachePolicyId"), u.policies["CachePolicy"])
      /\ OptionallyKnown(Text(w, "OriginRequestPolicyId"), u.policies["OriginRequestPolicy"])
      /\ OptionallyKnown(Text(w, "ResponseHeadersPolicyId"), u.policies["ResponseHeadersPolicy"])
      /\ Known(Texts(w, "TrustedKeyGroups"), u.keyGroups)
      /\ Known(ARNs(Maps(w, "FunctionAssociations")), u.functionsByARN)
  BY DEF BehaviorIsValid, AssociationsAreValid
<1>4. /\ ~Has(w, "ForwardedValues") => b.cache = u.policies["CachePolicy"][Text(w, "CachePolicyId")]
      /\ b.orp = IfAny(Text(w, "OriginRequestPolicyId"), u.policies["OriginRequestPolicy"])
      /\ b.rhp = IfAny(Text(w, "ResponseHeadersPolicyId"), u.policies["ResponseHeadersPolicy"])
      /\ b.keyGroups = Found(Texts(w, "TrustedKeyGroups"), u.keyGroups)
      /\ b.functions = Found(ARNs(Maps(w, "FunctionAssociations")), u.functionsByARN)
  BY DEF BehaviorOf
<1>5. "CachePolicy" \in PolicyTypes /\ "OriginRequestPolicy" \in PolicyTypes /\ "ResponseHeadersPolicy" \in PolicyTypes
  BY DEF PolicyTypes
<1> HIDE DEF b
<1>6. ASSUME NEW id \in To(Field(m, "CachePolicyId"), c) PROVE id = b.cache.id
  <2> DEFINE text == Text(w, "CachePolicyId")
             x == Ref("CachePolicyId")
  <2>1. x.id = id /\ Denotes(x, text)
    BY <1>2, <1>6
  <2>2. OptionallyKnown(text, u.policies["CachePolicy"])
    BY <1>3
  <2> HIDE DEF x, text
  <2>3. text # <<>> /\ u.policies["CachePolicy"][text].id = x.id
    BY <1>1, <1>5, <2>1, <2>2, OptionalReferred
  <2>4. ~Has(w, "ForwardedValues")
    BY <1>3, <2>3 DEF text, Has
  <2> QED BY <1>4, <2>1, <2>3, <2>4 DEF text
<1>7. ASSUME NEW id \in To(Field(m, "OriginRequestPolicyId"), c) PROVE id \in Ids(b.orp)
  <2> DEFINE text == Text(w, "OriginRequestPolicyId")
             x == Ref("OriginRequestPolicyId")
  <2>1. x.id = id /\ Denotes(x, text)
    BY <1>2, <1>7
  <2>2. OptionallyKnown(text, u.policies["OriginRequestPolicy"]) /\ b.orp = IfAny(text, u.policies["OriginRequestPolicy"])
    BY <1>3, <1>4
  <2> HIDE DEF x, text
  <2>3. /\ text # <<>> /\ u.policies["OriginRequestPolicy"][text].id = x.id
        /\ IfAny(text, u.policies["OriginRequestPolicy"]) = {u.policies["OriginRequestPolicy"][text]}
    BY <1>1, <1>5, <2>1, <2>2, OptionalReferred, SMTT(60)
  <2> DEFINE y == u.policies["OriginRequestPolicy"][text]
  <2>4. b.orp = {y} /\ y.id = id
    BY <2>1, <2>2, <2>3
  <2> HIDE DEF y
  <2>5. y.id \in Ids({y})
    BY IdOfOne
  <2> QED BY <2>4, <2>5
<1>8. ASSUME NEW id \in To(Field(m, "ResponseHeadersPolicyId"), c) PROVE id \in Ids(b.rhp)
  <2> DEFINE text == Text(w, "ResponseHeadersPolicyId")
             x == Ref("ResponseHeadersPolicyId")
  <2>1. x.id = id /\ Denotes(x, text)
    BY <1>2, <1>8
  <2>2. OptionallyKnown(text, u.policies["ResponseHeadersPolicy"]) /\ b.rhp = IfAny(text, u.policies["ResponseHeadersPolicy"])
    BY <1>3, <1>4
  <2> HIDE DEF x, text
  <2>3. /\ text # <<>> /\ u.policies["ResponseHeadersPolicy"][text].id = x.id
        /\ IfAny(text, u.policies["ResponseHeadersPolicy"]) = {u.policies["ResponseHeadersPolicy"][text]}
    BY <1>1, <1>5, <2>1, <2>2, OptionalReferred, SMTT(60)
  <2> DEFINE y == u.policies["ResponseHeadersPolicy"][text]
  <2>4. b.rhp = {y} /\ y.id = id
    BY <2>1, <2>2, <2>3
  <2> HIDE DEF y
  <2>5. y.id \in Ids({y})
    BY IdOfOne
  <2> QED BY <2>4, <2>5
<1>9. ASSUME NEW j \in DOMAIN Maps(m, "TrustedKeyGroups"), NEW id \in To(Maps(m, "TrustedKeyGroups")[j], c)
      PROVE  id = b.keyGroups[j].id
  <2> DEFINE v == Maps(m, "TrustedKeyGroups")[j]
             x == Resource(ToSet(raw), v.to)
             groups == Maps(w, "TrustedKeyGroups")
  <2>1. Has(m, "TrustedKeyGroups") => m.fields["TrustedKeyGroups"].kind = "list"
                                        /\ \A i \in DOMAIN m.fields["TrustedKeyGroups"].items : m.fields["TrustedKeyGroups"].items[i] # Nothing
    BY DEF BehaviorIsWritten
  <2>2. /\ DOMAIN groups = DOMAIN Maps(m, "TrustedKeyGroups") /\ (Has(w, "TrustedKeyGroups") <=> Has(m, "TrustedKeyGroups"))
        /\ Has(w, "TrustedKeyGroups") => w.fields["TrustedKeyGroups"].kind = "list"
        /\ v \in Written /\ groups[j] = ValueOf(env, v)
    BY <1>1, <1>9, <2>1, ItemsMade
  <2>3. Has(m, "TrustedKeyGroups")
    BY <1>9 DEF Maps
  <2> HIDE DEF v
  <2>4. Refers(env, v) /\ id = v.to
    BY <1>1, <1>9, ToRefers DEF v
  <2>5. x.id = v.to /\ Denotes(x, groups[j].text)
    BY <1>1, <2>2, <2>4, Referred
  <2>6. Texts(w, "TrustedKeyGroups") = [i \in DOMAIN groups |-> groups[i].text]
    BY <2>2, <2>3 DEF Texts, Field, Maps
  <2> HIDE DEF groups, x
  <2> DEFINE key == groups[j].text
  <2>7. j \in DOMAIN Texts(w, "TrustedKeyGroups") /\ Texts(w, "TrustedKeyGroups")[j] = key
    BY <1>9, <2>2, <2>6
  <2> HIDE DEF key
  <2>8. key \in DOMAIN u.keyGroups /\ b.keyGroups[j] = u.keyGroups[key]
    BY <1>3, <1>4, <2>7 DEF Known, Found
  <2>9. u.keyGroups[key].id = x.id
    BY <1>1, <2>5, <2>8, GroupReferred DEF key
  <2> QED BY <2>4, <2>5, <2>8, <2>9
<1>10. ASSUME NEW j \in DOMAIN Maps(m, "FunctionAssociations"),
              NEW id \in To(Field(Maps(m, "FunctionAssociations")[j], "FunctionARN"), c)
       PROVE  j \in DOMAIN b.functions /\ b.functions[j].id = id
  <2> DEFINE A == Maps(m, "FunctionAssociations")
             B == Maps(w, "FunctionAssociations")
             v == Field(A[j], "FunctionARN")
             x == Resource(ToSet(raw), v.to)
             key == Text(B[j], "FunctionARN")
  <2>1. /\ DOMAIN B = DOMAIN A
        /\ A[j] \in Written /\ A[j].kind = "map" /\ B[j] = ValueOf(env, A[j]) /\ B[j] # Error
    BY <1>1, <1>10, RecordsMade DEF BehaviorIsWritten
  <2>2. Refers(env, v) /\ id = v.to
    BY <1>1, <1>10, ToRefers
  <2> HIDE DEF A, B
  <2>3. x.id = v.to /\ Denotes(x, key) /\ x \in ToSet(raw)
    BY <1>1, <2>1, <2>2, FieldReferred
  <2>4. ARNs(B) = [i \in DOMAIN B |-> Text(B[i], "FunctionARN")]
    BY DEF ARNs
  <2>5. j \in DOMAIN ARNs(B) /\ ARNs(B)[j] = key
    BY <1>10, <2>1, <2>4 DEF A
  <2> HIDE DEF key, x
  <2>6. key \in DOMAIN u.functionsByARN /\ j \in DOMAIN b.functions /\ b.functions[j] = u.functionsByARN[key]
    BY <1>3, <1>4, <2>5 DEF Known, Found, B
  <2>7. u.functionsByARN[key].id = x.id
    BY <2>3, <2>6, FunctionReferred
  <2> QED BY <2>2, <2>3, <2>6, <2>7
<1>11. BehaviorBinds(m, b, c)
  BY <1>6, <1>7, <1>8, <1>9, <1>10 DEF BehaviorBinds
<1> QED BY <1>11 DEF b

(* The behaviors of a distribution, one by one.                            *)
LEMMA FirstAndOthers ==
  ASSUME NEW x, NEW s, IsSeq(s)
  PROVE  /\ DOMAIN (<<x>> \o s) = 1 .. Len(s) + 1 /\ Len(s) \in Nat
         /\ (<<x>> \o s)[1] = x /\ \A i \in 1 .. Len(s) : (<<x>> \o s)[1 + i] = s[i]
<1> DEFINE a == <<x>>
<1>1. a \in Seq({x}) /\ Len(a) = 1 /\ a[1] = x
  OBVIOUS
<1> HIDE DEF a
<1>2. IsSeq(a)
  BY <1>1, SeqOfSome
<1>3. /\ Len(a \o s) = Len(a) + Len(s) /\ IsSeq(a \o s)
      /\ (\A i \in 1 .. Len(a) : (a \o s)[i] = a[i]) /\ \A i \in 1 .. Len(s) : (a \o s)[Len(a) + i] = s[i]
  BY <1>2, Concatenated
<1>4. Len(s) \in Nat /\ DOMAIN (a \o s) = 1 .. Len(a \o s)
  BY <1>3, ElementsOf
<1>5. 1 \in 1 .. Len(a)
  BY <1>1
<1> QED BY <1>1, <1>3, <1>4, <1>5 DEF a

LEMMA DistributionReferred ==
  ASSUME NEW env, NEW raw, NEW rs, Setting(env, raw, rs), NEW c, NEW s, NEW u, Bound(c, raw, rs, s, u),
         NEW m \in Written, m.kind = "map", NEW r, r.props = ValueOf(env, m), r.props # Error,
         r.type = "Distribution", Valid(u, r), NEW x, x.type = "Distribution", x.props = m, IsWrittenOut(x),
         NEW j \in DOMAIN DistributionOf(u, r).behaviors
  PROVE  BehaviorBinds(BehaviorsOf(Field(m, "DistributionConfig"))[j], DistributionOf(u, r).behaviors[j], c)
<1> DEFINE w == r.props
           settings == Field(m, "DistributionConfig")
           made == Field(w, "DistributionConfig")
           A == Maps(settings, "CacheBehaviors")
           B == Maps(made, "CacheBehaviors")
<1>1. Resolver(env) /\ Faithful(env) /\ c.raw = raw
  BY DEF Setting, Faithful, Bound
<1>2. /\ settings.kind = "map" /\ Field(settings, "DefaultCacheBehavior").kind = "map"
      /\ BehaviorIsWritten(Field(settings, "DefaultCacheBehavior")) /\ AreMaps(settings, "CacheBehaviors")
      /\ \A i \in DOMAIN A : BehaviorIsWritten(A[i])
  BY DEF IsWrittenOut
<1>3. Has(w, "DistributionConfig") /\ DistributionIsValid(u, r, made)
  BY DEF Valid
<1>4. settings \in Written /\ made = ValueOf(env, settings) /\ made # Error
  <2>1. /\ Has(w, "DistributionConfig") <=> Has(m, "DistributionConfig") /\ m.fields["DistributionConfig"] # Nothing
        /\ Has(m, "DistributionConfig") => m.fields["DistributionConfig"] \in Written
        /\ Has(w, "DistributionConfig") => w.fields["DistributionConfig"] = ValueOf(env, m.fields["DistributionConfig"])
                                           /\ w.fields["DistributionConfig"] # Error
    BY <1>1, FieldMade
  <2> QED BY <1>3, <2>1 DEF Field
<1>5. DistributionOf(u, r).behaviors = [i \in DOMAIN BehaviorsOf(made) |-> BehaviorOf(u, BehaviorsOf(made)[i])]
  BY DEF DistributionOf
<1>6. /\ Has(made, "DefaultCacheBehavior")
      /\ \A i \in DOMAIN BehaviorsOf(made) : BehaviorIsValid(u, BehaviorsOf(made)[i], Maps(made, "Origins"), i = 1)
  BY <1>3 DEF DistributionIsValid
<1> HIDE DEF settings, made, w
<1>7. /\ DOMAIN B = DOMAIN A /\ IsSeq(A) /\ IsSeq(B)
      /\ \A i \in DOMAIN A : A[i] \in Written /\ A[i].kind = "map" /\ B[i] = ValueOf(env, A[i]) /\ B[i] # Error
  BY <1>1, <1>2, <1>4, RecordsMade
<1> DEFINE a == Field(settings, "DefaultCacheBehavior")
           b == Field(made, "DefaultCacheBehavior")
<1>8. a \in Written /\ b = ValueOf(env, a) /\ b # Error
  <2>1. /\ Has(made, "DefaultCacheBehavior") => Has(settings, "DefaultCacheBehavior")
        /\ Has(settings, "DefaultCacheBehavior") => settings.fields["DefaultCacheBehavior"] \in Written
        /\ Has(made, "DefaultCacheBehavior")
             => made.fields["DefaultCacheBehavior"] = ValueOf(env, settings.fields["DefaultCacheBehavior"])
                /\ made.fields["DefaultCacheBehavior"] # Error
    BY <1>1, <1>2, <1>4, FieldMade
  <2> QED BY <1>6, <2>1 DEF Field
<1>9. BehaviorsOf(settings) = <<a>> \o A /\ BehaviorsOf(made) = <<b>> \o B
  BY DEF BehaviorsOf
<1>10. a.kind = "map" /\ BehaviorIsWritten(a)
  BY <1>2
<1> DEFINE v == BehaviorsOf(settings)[j]
           x2 == BehaviorsOf(made)[j]
<1>11. v \in Written /\ v.kind = "map" /\ BehaviorIsWritten(v) /\ x2 = ValueOf(env, v) /\ x2 # Error
  <2> HIDE DEF a, b, A, B
  <2>1. Len(A) = Len(B) /\ Len(A) \in Nat /\ DOMAIN A = 1 .. Len(A)
    BY <1>7, ElementsOf
  <2>2. /\ (<<a>> \o A)[1] = a /\ \A i \in 1 .. Len(A) : (<<a>> \o A)[1 + i] = A[i]
    BY <1>7, FirstAndOthers
  <2>3. /\ DOMAIN (<<b>> \o B) = 1 .. Len(B) + 1
        /\ (<<b>> \o B)[1] = b /\ \A i \in 1 .. Len(B) : (<<b>> \o B)[1 + i] = B[i]
    BY <1>7, FirstAndOthers
  <2>4. j \in 1 .. Len(A) + 1
    BY <1>5, <1>9, <2>1, <2>3
  <2>5. CASE j = 1
    <3>1. v = a /\ x2 = b
      BY <1>9, <2>2, <2>3, <2>5
    <3> QED BY <1>8, <1>10, <3>1
  <2>6. CASE j # 1
    <3>1. j - 1 \in 1 .. Len(A) /\ j = 1 + (j - 1)
      BY <2>1, <2>4, <2>6
    <3>2. v = A[j - 1] /\ x2 = B[j - 1]
      BY <1>9, <2>1, <2>2, <2>3, <3>1
    <3> QED BY <1>2, <1>7, <2>1, <3>1, <3>2 DEF A
  <2> QED BY <2>5, <2>6
<1>12. BehaviorIsValid(u, x2, Maps(made, "Origins"), j = 1) /\ DistributionOf(u, r).behaviors[j] = BehaviorOf(u, x2)
  BY <1>5, <1>6
<1> HIDE DEF v, x2
<1>13. BehaviorBinds(v, BehaviorOf(u, x2), c)
  BY <1>11, <1>12, BehaviorReferred
<1> QED BY <1>12, <1>13 DEF v, settings

-----------------------------------------------------------------------------
(* A configuration that loads.                                             *)
WhatWasWritten(env, raw) ==
  \A x \in ToSet(raw) : x.type \in {"Distribution", "Function"} =>
    /\ x.props \in Written /\ x.props.kind = "map" /\ IsWrittenOut(x)
    /\ ResolvedOne(env, x).props = ValueOf(env, x.props) /\ ResolvedOne(env, x).props # Error

LEMMA LoadBound ==
  ASSUME NEW fs \in Templates, NEW ps \in ParameterOptions, NEW c, c = Load(fs, ps), c.ok, NamesAreDistinct(c)
  PROVE  \E env, raw, rs, s, u : Setting(env, raw, rs) /\ Bound(c, raw, rs, s, u) /\ WhatWasWritten(env, raw)
<1> DEFINE p == Parse(fs)
           resolved == Resolved(p, ps)
           env == Environment(p, ps)
           raw == p.resources
           rs == resolved.resources
<1>1. FilesAreProper(fs)
  BY TemplatesAreProper
<1>2. ParsedIsProper(p) /\ (p.ok => ToSet(raw) = UNION {ToSet(f.resources) : f \in {fs[i] : i \in 1 .. Len(fs)}})
  BY <1>1, ParseIs DEF ParsedIs
<1>3. c = IF resolved.ok THEN AllPasses(Builder(raw), rs) ELSE Fail(Builder(<<>>))
  BY DEF Load
<1>4. Fail(Builder(<<>>)).ok = FALSE
  BY DEF Fail, Builder
<1>5. resolved.ok => /\ p.ok /\ \A i \in DOMAIN raw : Resolves(env, raw[i])
                     /\ rs = [i \in DOMAIN raw |-> ResolvedOne(env, raw[i])]
  BY DEF Resolved
<1>6. env.parsed.resources = ToSet(raw)
  <2>1. p = [ok |-> p.ok, parameters |-> p.parameters, mappings |-> p.mappings, resources |-> p.resources]
    BY <1>2 DEF ParsedIsProper
  <2>2. [p EXCEPT !.resources = ToSet(raw)].resources = ToSet(raw)
    <3> HIDE DEF p
    <3> QED BY <2>1
  <2> QED BY <2>2 DEF Environment
<1>7. p.ok => Resolver(env)
  <2> SUFFICES ASSUME p.ok PROVE Resolver(env)
    OBVIOUS
  <2>1. \A v \in Written : ResolvesTo(Environment(Parse(fs), ps), v, ValueOf(Environment(Parse(fs), ps), v))
    BY ResolverAssumption
  <2> QED BY <2>1 DEF Resolver
<1> HIDE DEF p, resolved, env, rs
<1>8. resolved.ok /\ c = AllPasses(Builder(raw), rs)
  BY <1>3, <1>4
<1>9. p.ok /\ (\A i \in DOMAIN raw : Resolves(env, raw[i])) /\ rs = [i \in DOMAIN raw |-> ResolvedOne(env, raw[i])] /\ Resolver(env)
  BY <1>5, <1>7, <1>8
<1>10. ASSUME NEW x \in ToSet(raw)
       PROVE  PlainlyNamed(x) /\ (x.type \in {"Distribution", "Function"} => x.props \in Written) /\ IsWrittenOut(x)
  <2>1. PICK i \in 1 .. Len(fs) : x \in ToSet(fs[i].resources)
    BY <1>2, <1>9
  <2>2. i \in DOMAIN fs
    BY <1>1 DEF FilesAreProper
  <2>3. PlainlyNamed(x)
    BY <2>1, <2>2, TemplatesAssumption DEF PlainlyNamed
  <2>4. x.type \in {"Distribution", "Function"} => x.props \in Written
    BY <2>1, <2>2, ResolverAssumption
  <2>5. IsWrittenOut(x)
    BY <2>1, <2>2, WrittenOutAssumption
  <2> QED BY <2>3, <2>4, <2>5
<1>11. Faithful(env)
  BY <1>6, <1>9, <1>10 DEF Faithful
<1>12. IsSeq(raw) /\ DistinctIds(raw)
  BY <1>2 DEF ParsedIsProper
<1>13. Proper(rs)
  BY <1>2, <1>9, ResolvedIsProper
<1>14. c.raw = raw
  <2> DEFINE b == Builder(raw)
  <2>1. b.raw = raw /\ DOMAIN b = DOMAIN Builder(<<>>)
    BY NewAlike
  <2> HIDE DEF b
  <2>2. AllPasses(b, rs).raw = raw
    BY <1>13, <2>1, AllRawKept DEF Proper
  <2> QED BY <1>8, <2>2 DEF b
<1>15. ASSUME NEW x, ToSet(x.raw) = ToSet(raw) PROVE ARNsDiffer(SaidOf(x), Chosen(rs, {"Function"}))
  <2>1. \A r \in ToSet(p.resources) : IsSeq(RawName(r, "Name", Word(r.id)))
    BY <1>10 DEF PlainlyNamed
  <2> QED BY <1>2, <1>9, <1>14, <1>15, <2>1, NamesGiveARNs
<1>16. Setting(env, raw, rs)
  <2>1. Builder(raw).raw = raw
    BY NewAlike
  <2>2. ARNsDiffer(SaidOf(Builder(raw)), Functions(rs))
    BY <1>15, <2>1 DEF Functions
  <2>3. SaidOf(Builder(raw)).raw = ToSet(raw)
    BY <2>1 DEF SaidOf
  <2>4. \A q, r \in Functions(rs) : FunctionARN(Resource(ToSet(raw), q.id)) = FunctionARN(Resource(ToSet(raw), r.id)) => q = r
    BY <2>2, <2>3 DEF ARNsDiffer
  <2> HIDE DEF raw
  <2> QED BY <1>6, <1>9, <1>11, <1>12, <2>4 DEF Setting
<1>17. \E s, u : Bound(c, raw, rs, s, u)
  <2>1. AllPasses(Builder(raw), rs).ok
    BY <1>8
  <2> HIDE DEF raw
  <2>2. \E s, u : Bound(AllPasses(Builder(raw), rs), raw, rs, s, u)
    BY <1>13, <1>15, <2>1, PassesBind
  <2> QED BY <1>8, <2>2
<1>18. WhatWasWritten(env, raw)
  <2> SUFFICES ASSUME NEW x \in ToSet(raw), x.type \in {"Distribution", "Function"}
               PROVE  /\ x.props \in Written /\ x.props.kind = "map" /\ IsWrittenOut(x)
                      /\ ResolvedOne(env, x).props = ValueOf(env, x.props) /\ ResolvedOne(env, x).props # Error
    BY DEF WhatWasWritten
  <2>1. x.props \in Written /\ IsWrittenOut(x) /\ x.props.kind = "map"
    BY <1>10 DEF IsWrittenOut
  <2>2. x.type \in SupportedTypes
    BY DEF SupportedTypes
  <2>3. ValueOf(env, x.props).kind \in {"map", "noValue"}
    <3>1. \E i \in DOMAIN raw : x = raw[i]
      BY DEF ToSet
    <3> QED BY <1>9, <2>2, <3>1 DEF Resolves, Props
  <2>4. x.props # Nothing
    BY <2>1, Kinds
  <2>5. ValueOf(env, x.props) # NoValue
    BY <1>9, <2>1, <2>4 DEF Resolver, ResolvesTo
  <2>6. ResolvedOne(env, x).props = ValueOf(env, x.props)
    BY <2>2, <2>5 DEF ResolvedOne, Props
  <2> QED BY <2>1, <2>3, <2>6, Kinds
<1> QED BY <1>16, <1>17, <1>18

(* The references of a configuration.                                      *)
FunctionReferences(c, f) ==
  LET m == Resource(ToSet(c.raw), f.id).props
      associations == Maps(Field(m, "FunctionConfig"), "KeyValueStoreAssociations")
  IN  /\ Field(m, "FunctionCode").kind = "string" => f.code = Text(m, "FunctionCode")
      /\ \A j \in DOMAIN associations : To(Field(associations[j], "KeyValueStoreARN"), c) \subseteq {f.stores[j].id}

ConfigBinds(c) ==
  /\ IsSeq(c.raw)
  /\ \A d \in ToSet(c.distributions) : \A j \in DOMAIN d.behaviors :
       BehaviorBinds(BehaviorsOf(Field(Resource(ToSet(c.raw), d.id).props, "DistributionConfig"))[j], d.behaviors[j], c)
  /\ \A f \in c.functions : f.id \in Ids(ToSet(c.raw)) /\ FunctionReferences(c, f)

LEMMA LoadBinds ==
  ASSUME NEW fs \in Templates, NEW ps \in ParameterOptions, NEW c, c = Load(fs, ps), c.ok, NamesAreDistinct(c)
  PROVE  ConfigBinds(c)
<1>1. PICK env, raw, rs, s, u : Setting(env, raw, rs) /\ Bound(c, raw, rs, s, u) /\ WhatWasWritten(env, raw)
  BY LoadBound
<1>2. /\ \A x \in ToSet(raw) : Resource(ToSet(raw), x.id) = x /\ PlainlyNamed(x)
      /\ \A r \in ToSet(rs) : \E x \in ToSet(raw) : r = ResolvedOne(env, x) /\ x.id = r.id /\ x.type = r.type
  BY <1>1, FromRaw
<1>3. c.raw = raw /\ IsSeq(raw)
  BY <1>1 DEF Bound, Setting
<1>4. ASSUME NEW d \in ToSet(c.distributions), NEW j \in DOMAIN d.behaviors
      PROVE  BehaviorBinds(BehaviorsOf(Field(Resource(ToSet(c.raw), d.id).props, "DistributionConfig"))[j], d.behaviors[j], c)
  <2>1. PICK r \in Distributions(rs) : d = DistributionOf(u, r)
    BY <1>1 DEF Bound
  <2>2. r \in ToSet(rs) /\ r.type = "Distribution" /\ Valid(u, r)
    BY <1>1 DEF Distributions, Chosen, Bound
  <2>3. PICK x \in ToSet(raw) : r = ResolvedOne(env, x) /\ x.id = r.id /\ x.type = r.type
    BY <1>2, <2>2
  <2>4. d.id = r.id
    BY <2>1 DEF DistributionOf
  <2>5. Resource(ToSet(c.raw), d.id) = x
    BY <1>2, <1>3, <2>3, <2>4
  <2> DEFINE m == x.props
  <2>6. m \in Written /\ m.kind = "map" /\ IsWrittenOut(x) /\ r.props = ValueOf(env, m) /\ r.props # Error
    BY <1>1, <2>2, <2>3 DEF WhatWasWritten
  <2> HIDE DEF m
  <2>7. x.props = m /\ x.type = "Distribution"
    BY <2>2, <2>3 DEF m
  <2>8. BehaviorBinds(BehaviorsOf(Field(m, "DistributionConfig"))[j], DistributionOf(u, r).behaviors[j], c)
    BY <1>1, <1>4, <2>1, <2>2, <2>6, <2>7, DistributionReferred
  <2> QED BY <2>1, <2>5, <2>8 DEF m
<1>5. ASSUME NEW f \in c.functions PROVE f.id \in Ids(ToSet(c.raw)) /\ FunctionReferences(c, f)
  <2>1. PICK r \in Functions(rs) : f = FunctionOf(s, r)
    BY <1>1 DEF Bound
  <2>2. r \in ToSet(rs) /\ r.type = "Function" /\ FunctionIsValid(s, r)
    BY <1>1 DEF Functions, Chosen, Bound
  <2>3. PICK x \in ToSet(raw) : r = ResolvedOne(env, x) /\ x.id = r.id /\ x.type = r.type
    BY <1>2, <2>2
  <2>4. f.id = r.id
    BY <2>1 DEF FunctionOf
  <2>5. Resource(ToSet(c.raw), f.id) = x
    BY <1>2, <1>3, <2>3, <2>4
  <2> DEFINE m == x.props
  <2>6. m \in Written /\ m.kind = "map" /\ IsWrittenOut(x) /\ r.props = ValueOf(env, m) /\ r.props # Error
    BY <1>1, <2>2, <2>3 DEF WhatWasWritten
  <2>7. Field(m, "FunctionConfig").kind = "map" /\ AreMaps(Field(m, "FunctionConfig"), "KeyValueStoreAssociations")
    BY <2>2, <2>3, <2>6 DEF IsWrittenOut
  <2> HIDE DEF m
  <2>8. /\ Field(m, "FunctionCode").kind = "string" => FunctionOf(s, r).code = Text(m, "FunctionCode")
        /\ \A j \in DOMAIN Maps(Field(m, "FunctionConfig"), "KeyValueStoreAssociations") :
             To(Field(Maps(Field(m, "FunctionConfig"), "KeyValueStoreAssociations")[j], "KeyValueStoreARN"), c)
               \subseteq {FunctionOf(s, r).stores[j].id}
    BY <1>1, <2>2, <2>6, <2>7, FunctionBinds
  <2>9. FunctionReferences(c, f)
    BY <2>1, <2>5, <2>8 DEF FunctionReferences, m
  <2>10. f.id \in Ids(ToSet(c.raw))
    BY <1>3, <2>3, <2>4 DEF Ids
  <2> QED BY <2>9, <2>10
<1> QED BY <1>3, <1>4, <1>5 DEF ConfigBinds

-----------------------------------------------------------------------------
(* What is being loaded, and what is served, was made of some templates;   *)
(* what is compiled are functions of the configuration.                    *)
Loaded(c) == c.ok /\ \E fs \in Templates : c = Load(fs, parameters)
CompiledFrom(c, functions) ==
  NamesAreDistinct(c) => \A id \in DOMAIN functions : \E f \in c.functions : f.id = id /\ functions[id].code = f.code

LinkInv ==
  /\ templates \in Templates /\ parameters \in ParameterOptions
  /\ stage \in {"check", "stores", "functions"} => Loaded(config) /\ CompiledFrom(config, compiled)
  /\ live = Nobody \/ /\ Loaded(live.config) /\ CompiledFrom(live.config, live.functions)
                      /\ \A f \in ReachableFunctions(live.config) : f.id \in DOMAIN live.functions

LEMMA FirstIsOne ==
  ASSUME IsSeq(config.raw), NEW functions, functions # {}, Ids(functions) \subseteq Ids(ToSet(config.raw))
  PROVE  First(functions) \in functions
<1> DEFINE raw == config.raw
           S == {i \in DOMAIN raw : raw[i].id \in Ids(functions)}
<1>1. Len(raw) \in Nat /\ DOMAIN raw = 1 .. Len(raw) /\ ToSet(raw) = {raw[i] : i \in 1 .. Len(raw)}
  BY ElementsOf
<1>2. S # {} /\ S \subseteq Nat
  <2>1. PICK f \in functions : TRUE
    OBVIOUS
  <2>2. f.id \in Ids(ToSet(raw))
    BY DEF Ids
  <2>3. PICK i \in 1 .. Len(raw) : raw[i].id = f.id
    BY <1>1, <2>2 DEF Ids
  <2> QED BY <1>1, <2>3 DEF Ids
<1>3. IsWellFoundedOn(Below, Nat)
  BY NatLessThanWellFounded DEF OpToRel, Below
<1>4. PICK m \in S : \A k \in S : ~(<<k, m>> \in Below)
  <2> HIDE DEF S
  <2> QED BY <1>2, <1>3, WFMin
<1>5. m \in DOMAIN raw /\ raw[m].id \in Ids(functions) /\ \A j \in 1 .. m - 1 : raw[j].id \notin Ids(functions)
  <2>1. m \in 1 .. Len(raw) /\ raw[m].id \in Ids(functions)
    BY <1>1
  <2>2. ASSUME NEW j \in 1 .. m - 1 PROVE raw[j].id \notin Ids(functions)
    <3>1. j \in DOMAIN raw /\ <<j, m>> \in Below
      BY <1>1, <2>1 DEF Below
    <3> QED BY <1>4, <3>1
  <2> QED BY <1>1, <2>1, <2>2
<1>6. PICK f \in functions : raw[m].id = f.id
  BY <1>5 DEF Ids
<1>7. \E g \in functions : \E i \in DOMAIN config.raw : /\ config.raw[i].id = g.id
                                                        /\ \A j \in 1 .. i - 1 : config.raw[j].id \notin Ids(functions)
  BY <1>5, <1>6
<1> QED BY <1>7 DEF First

LEMMA CompiledMore ==
  ASSUME NEW c, NEW functions, CompiledFrom(c, functions), NEW f, NamesAreDistinct(c) => f \in c.functions, NEW y, y.code = f.code
  PROVE  CompiledFrom(c, WithEntry(functions, f.id, y))
<1> DEFINE t == WithEntry(functions, f.id, y)
<1>1. DOMAIN t = DOMAIN functions \cup {f.id} /\ \A id \in DOMAIN t : t[id] = IF id = f.id THEN y ELSE functions[id]
  BY DEF WithEntry, With
<1> HIDE DEF t
<1>2. CompiledFrom(c, t)
  BY <1>1 DEF CompiledFrom
<1> QED BY <1>2 DEF t

LEMMA LinkInit == Init => LinkInv
BY DEF Init, LinkInv, Nobody

LEMMA LinkStep == LoadingInv /\ LinkInv /\ [Next]_vars => LinkInv'
<1> SUFFICES ASSUME LoadingInv, LinkInv, [Next]_vars PROVE LinkInv'
  OBVIOUS
<1> USE DEF options, files
<1>k. parameters' = parameters /\ templates' \in Templates
  <2>1. templates' = templates \/ templates' \in Templates
    BY DEF Next, vars, LoadConfig, Check, BuildKVSStore, StoresBuilt, Compile, Serve, Save, Reload
  <2>2. parameters' = parameters
    BY DEF Next, vars, LoadConfig, Check, BuildKVSStore, StoresBuilt, Compile, Serve, Save, Reload
  <2> QED BY <2>1, <2>2 DEF LinkInv
<1>a. ASSUME UNCHANGED live
      PROVE  (live = Nobody \/ /\ Loaded(live.config) /\ CompiledFrom(live.config, live.functions)
                               /\ \A f \in ReachableFunctions(live.config) : f.id \in DOMAIN live.functions)'
  BY <1>a, <1>k DEF LinkInv, Loaded, CompiledFrom
<1>b. ASSUME UNCHANGED <<config, compiled>>, stage \in {"check", "stores", "functions"}
      PROVE  (Loaded(config) /\ CompiledFrom(config, compiled))'
  BY <1>b, <1>k DEF LinkInv, Loaded, CompiledFrom
<1>1. CASE LoadConfig
  <2>1. UNCHANGED live /\ compiled' = <<>> /\ config' = Load(templates, parameters)
        /\ (stage' \in {"check", "stores", "functions"} => config'.ok)
    BY <1>1 DEF LoadConfig, Fails
  <2>2. CompiledFrom(config, compiled)'
    BY <2>1 DEF CompiledFrom
  <2>3. config'.ok => Loaded(config)'
    BY <1>k, <2>1 DEF Loaded, LinkInv
  <2> QED BY <1>a, <1>k, <2>1, <2>2, <2>3 DEF LinkInv
<1>2. CASE Check
  <2>1. UNCHANGED <<config, compiled, live>> /\ stage = "check"
    BY <1>2 DEF Check
  <2> QED BY <1>a, <1>b, <1>k, <2>1 DEF LinkInv
<1>3. CASE BuildKVSStore
  <2>1. UNCHANGED <<config, compiled, live>> /\ stage = "stores"
    BY <1>3 DEF BuildKVSStore
  <2> QED BY <1>a, <1>b, <1>k, <2>1 DEF LinkInv
<1>4. CASE StoresBuilt
  <2>1. UNCHANGED <<config, compiled, live>> /\ stage = "stores"
    BY <1>4 DEF StoresBuilt
  <2> QED BY <1>a, <1>b, <1>k, <2>1 DEF LinkInv
<1>5. CASE Compile
  <2> DEFINE f == First(ToCompile)
             y == [code |-> f.code, kvs |-> IF f.stores = <<>> THEN <<>> ELSE <<stores[f.stores[1].id]>>]
  <2>1. /\ UNCHANGED <<config, live>> /\ stage = "functions" /\ ToCompile # {}
        /\ (compiled' = WithEntry(compiled, f.id, y) /\ stage' = "functions") \/ stage' \in {"serving", "exited"}
    BY <1>5 DEF Compile, Fails
  <2>2. Loaded(config) /\ CompiledFrom(config, compiled)
    BY <2>1 DEF LinkInv
  <2>3. ASSUME NamesAreDistinct(config) PROVE f \in config.functions
    <3>1. PICK fs \in Templates : config = Load(fs, parameters)
      BY <2>2 DEF Loaded
    <3>2. ConfigBinds(config)
      BY <2>2, <2>3, <3>1, LoadBinds DEF Loaded, LinkInv
    <3>3. ToCompile \subseteq config.functions
      <4>1. Sound(config)
        BY DEF LoadingInv
      <4> QED BY <4>1 DEF Sound, ToCompile, ReachableFunctions, Enabled, ToSet
    <3>4. Ids(ToCompile) \subseteq Ids(ToSet(config.raw))
      BY <3>2, <3>3 DEF ConfigBinds, Ids
    <3>5. First(ToCompile) \in ToCompile
      BY <2>1, <3>2, <3>4, FirstIsOne DEF ConfigBinds
    <3> QED BY <3>3, <3>5
  <2>4. y.code = f.code
    OBVIOUS
  <2> HIDE DEF f, y
  <2>5. CompiledFrom(config, WithEntry(compiled, f.id, y))
    BY <2>2, <2>3, <2>4, CompiledMore
  <2>6. stage' = "functions" => compiled' = WithEntry(compiled, f.id, y)
    BY <2>1
  <2>7. stage' = "functions" => CompiledFrom(config, compiled)'
    BY <2>1, <2>5, <2>6 DEF CompiledFrom
  <2>8. Loaded(config)'
    BY <1>k, <2>1, <2>2 DEF Loaded
  <2> QED BY <1>a, <1>k, <2>1, <2>7, <2>8 DEF LinkInv
<1>6. CASE Serve
  <2>1. /\ UNCHANGED <<config, compiled>> /\ stage = "functions" /\ ToCompile = {} /\ stage' = "serving"
        /\ live' = [config |-> config, functions |-> compiled]
    BY <1>6 DEF Serve
  <2>2. live'.config = config /\ live'.functions = compiled
    BY <2>1
  <2>3. Loaded(config) /\ CompiledFrom(config, compiled)
    BY <2>1 DEF LinkInv
  <2>4. Loaded(live.config)' /\ CompiledFrom(live.config, live.functions)'
    BY <1>k, <2>2, <2>3 DEF Loaded, CompiledFrom
  <2>5. \A f \in ReachableFunctions(config) : f.id \in DOMAIN compiled
    BY <2>1 DEF ToCompile
  <2>6. (\A f \in ReachableFunctions(live.config) : f.id \in DOMAIN live.functions)'
    BY <2>2, <2>5 DEF ReachableFunctions, Enabled
  <2> QED BY <1>k, <2>1, <2>4, <2>6 DEF LinkInv
<1>7. CASE Save
  <2>1. UNCHANGED <<config, compiled, live, stage>>
    BY <1>7 DEF Save
  <2> QED BY <1>a, <1>b, <1>k, <2>1 DEF LinkInv
<1>8. CASE Reload
  <2>1. UNCHANGED live /\ stage' = "load"
    BY <1>8 DEF Reload
  <2> QED BY <1>a, <1>k, <2>1 DEF LinkInv
<1>9. CASE UNCHANGED vars
  <2>1. UNCHANGED <<config, compiled, live, stage>>
    BY <1>9 DEF vars
  <2> QED BY <1>a, <1>b, <1>k, <2>1 DEF LinkInv
<1> QED BY <1>1, <1>2, <1>3, <1>4, <1>5, <1>6, <1>7, <1>8, <1>9 DEF Next

LEMMA NobodyBinds ==
  ASSUME live = Nobody
  PROVE  ReferencesBind
<1>1. live.config.distributions = <<>> /\ live.config.functions = {} /\ DOMAIN <<>> = {}
  BY DEF Nobody, Builder
<1> QED BY <1>1 DEF ReferencesBind

LEMMA LinkedBinds ==
  ASSUME LoadingInv, LinkInv, live # Nobody, NamesAreDistinct(live.config)
  PROVE  ReferencesBind
<1> DEFINE c == live.config
           Raw(id) == Resource(ToSet(c.raw), id).props
<1>1. Loaded(c) /\ CompiledFrom(c, live.functions) /\ \A f \in ReachableFunctions(c) : f.id \in DOMAIN live.functions
  BY DEF LinkInv
<1>2. ConfigBinds(c)
  <2>1. PICK fs \in Templates : c = Load(fs, parameters)
    BY <1>1 DEF Loaded
  <2> HIDE DEF c
  <2>2. parameters \in ParameterOptions /\ c.ok /\ NamesAreDistinct(c)
    BY <1>1 DEF LinkInv, Loaded, c
  <2> QED BY <2>1, <2>2, LoadBinds
<1>3. Sound(c)
  BY DEF LoadingInv
<1>4. ASSUME NEW k \in DOMAIN c.distributions, NEW i \in DOMAIN c.distributions[k].behaviors
      PROVE  LET d == c.distributions[k]
                 m == BehaviorsOf(Field(Raw(d.id), "DistributionConfig"))[i]
                 b == d.behaviors[i]
                 associations == Maps(m, "FunctionAssociations")
                 groups == Maps(m, "TrustedKeyGroups")
             IN  /\ To(Field(m, "CachePolicyId"), c) \subseteq {b.cache.id}
                 /\ To(Field(m, "OriginRequestPolicyId"), c) \subseteq Ids(b.orp)
                 /\ To(Field(m, "ResponseHeadersPolicyId"), c) \subseteq Ids(b.rhp)
                 /\ \A j \in DOMAIN groups : To(groups[j], c) \subseteq {b.keyGroups[j].id}
                 /\ \A j \in DOMAIN associations : \A f \in To(Field(associations[j], "FunctionARN"), c) :
                      /\ b.functions[j].id = f
                      /\ d.enabled =>
                           /\ f \in DOMAIN live.functions
                           /\ Field(Raw(f), "FunctionCode").kind = "string"
                                => live.functions[f].code = Text(Raw(f), "FunctionCode")
  <2> DEFINE d == c.distributions[k]
             m == BehaviorsOf(Field(Raw(d.id), "DistributionConfig"))[i]
             b == d.behaviors[i]
             associations == Maps(m, "FunctionAssociations")
  <2>1. d \in ToSet(c.distributions) /\ b \in ToSet(d.behaviors)
    BY DEF ToSet
  <2>2. BehaviorBinds(m, b, c)
    BY <1>2, <1>4, <2>1 DEF ConfigBinds
  <2>3. ASSUME NEW j \in DOMAIN associations, NEW f \in To(Field(associations[j], "FunctionARN"), c), d.enabled
        PROVE  f \in DOMAIN live.functions
                 /\ (Field(Raw(f), "FunctionCode").kind = "string" => live.functions[f].code = Text(Raw(f), "FunctionCode"))
    <3> HIDE DEF d, b
    <3>1. j \in DOMAIN b.functions /\ b.functions[j].id = f
      BY <2>2, <2>3 DEF BehaviorBinds
    <3>2. b.functions[j] \in ReachableFunctions(c)
      <4>1. d \in Enabled(c)
        BY <2>1, <2>3 DEF Enabled
      <4>2. b.functions[j] \in ToSet(b.functions)
        BY <3>1 DEF ToSet
      <4> QED BY <2>1, <4>1, <4>2 DEF ReachableFunctions
    <3>3. f \in DOMAIN live.functions
      BY <1>1, <3>1, <3>2
    <3>4. PICK g \in c.functions : g.id = f /\ live.functions[f].code = g.code
      BY <1>1, <3>3 DEF CompiledFrom
    <3>5. FunctionReferences(c, g)
      BY <1>2 DEF ConfigBinds
    <3> QED BY <3>3, <3>4, <3>5 DEF FunctionReferences
  <2> HIDE DEF d, m, b, c
  <2>4. /\ To(Field(m, "CachePolicyId"), c) \subseteq {b.cache.id}
        /\ To(Field(m, "OriginRequestPolicyId"), c) \subseteq Ids(b.orp)
        /\ To(Field(m, "ResponseHeadersPolicyId"), c) \subseteq Ids(b.rhp)
        /\ \A j \in DOMAIN Maps(m, "TrustedKeyGroups") : To(Maps(m, "TrustedKeyGroups")[j], c) \subseteq {b.keyGroups[j].id}
        /\ \A j \in DOMAIN associations : \A f \in To(Field(associations[j], "FunctionARN"), c) : b.functions[j].id = f
    BY <2>2 DEF BehaviorBinds
  <2> QED BY Zenon, <2>3, <2>4 DEF d, m, b, c
<1>5. ASSUME NEW f \in c.functions
      PROVE  LET associations == Maps(Field(Raw(f.id), "FunctionConfig"), "KeyValueStoreAssociations")
             IN  \A j \in DOMAIN associations : To(Field(associations[j], "KeyValueStoreARN"), c) \subseteq {f.stores[j].id}
  <2>1. FunctionReferences(c, f)
    BY <1>2 DEF ConfigBinds
  <2> QED BY <2>1 DEF FunctionReferences
<1> QED BY Zenon, <1>4, <1>5 DEF ReferencesBind

(* What is served runs what the templates wrote: the references of its     *)
(* distributions, behaviors and functions are to the resources that the    *)
(* templates name, through every identifier that is made and looked up.    *)
THEOREM ReferencesHold == Spec => []ReferencesBind
<1>1. Init => LoadingInv /\ LinkInv
  BY LoadingInit, LinkInit
<1>2. (LoadingInv /\ LinkInv) /\ [Next]_vars => (LoadingInv /\ LinkInv)'
  BY LoadingStep, LinkStep
<1>3. LoadingInv /\ LinkInv => ReferencesBind
  <2>1. ~NamesAreDistinct(live.config) => ReferencesBind
    BY DEF ReferencesBind
  <2> QED BY <2>1, NobodyBinds, LinkedBinds
<1> QED BY <1>1, <1>2, <1>3, PTL DEF Spec
=============================================================================
