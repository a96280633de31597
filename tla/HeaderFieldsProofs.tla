-------------------------- MODULE HeaderFieldsProofs --------------------------
(***************************************************************************)
(* Proofs about HeaderFields, with the assertions of http_unsetat or       *)
(* without: whatever system calls a guest makes, and whatever its callback *)
(* does during a foreach, the array is not overrun, fields keep their      *)
(* order and http_unset_re removes exactly what matches.  Unless the guest *)
(* strays, proto fields stay.  Unless it rewrites indices, the removals    *)
(* after a foreach meet the assertions and hit only fields that were       *)
(* marked.  All of it for any number of fields and calls.                  *)
(*                                                                         *)
(* The loops of the code are recursive functions in the model.  What they  *)
(* compute is shown by induction over their rounds.  The provers have no   *)
(* induction over predicates, so lemma Rounds does it over sets of rounds, *)
(* from the fact that the naturals are well ordered.                       *)
(***************************************************************************)
EXTENDS HeaderFields, TLAPS, WellFoundedInduction

\* A leaf is left to Zenon, unless it names another prover.
USE ZenonT(60)

-----------------------------------------------------------------------------
(* Sequences.                                                              *)

LEMMA SeqFacts ==
    ASSUME NEW S, NEW s \in Seq(S)
    PROVE  /\ Len(s) \in Nat /\ s \in [1 .. Len(s) -> S] /\ DOMAIN s = 1 .. Len(s)
           /\ \A i \in 1 .. Len(s) : s[i] \in S
BY SMTT(60)

LEMMA EmptyFacts ==
    ASSUME NEW S
    PROVE  /\ <<>> \in Seq(S) /\ Len(<<>>) = 0
           /\ \A s \in Seq(S) : Len(s) = 0 => s = <<>>
BY SMTT(60)

LEMMA AppendFacts ==
    ASSUME NEW S, NEW s \in Seq(S), NEW x \in S
    PROVE  /\ Append(s, x) \in Seq(S) /\ Len(Append(s, x)) = Len(s) + 1
           /\ Append(s, x)[Len(s) + 1] = x
           /\ \A i \in 1 .. Len(s) : Append(s, x)[i] = s[i]
BY SMTT(60)

LEMMA MakesSeq ==
    ASSUME NEW S, NEW n \in Nat, NEW f \in [1 .. n -> S]
    PROVE  f \in Seq(S) /\ Len(f) = n
BY SMTT(60)

-----------------------------------------------------------------------------
(* Loops.                                                                  *)

LEMMA Rounds ==
    ASSUME NEW n \in Nat, NEW G, 0 \in G, \A k \in 1 .. n : k - 1 \in G => k \in G
    PROVE  \A k \in 0 .. n : k \in G
<1> DEFINE Bad == {k \in 0 .. n : k \notin G}
<1> SUFFICES ASSUME Bad # {} PROVE FALSE
  OBVIOUS
<1>1. IsWellFoundedOn(OpToRel(<, Nat), Nat)
  BY NatLessThanWellFounded
<1>2. Bad \subseteq Nat
  BY SMTT(60)
<1>3. PICK k \in Bad : \A y \in Bad : ~(<<y, k>> \in OpToRel(<, Nat))
  BY <1>1, <1>2, WFMin
<1>4. k \in 1 .. n /\ k - 1 \in 0 .. n /\ k - 1 < k /\ k - 1 \in Nat /\ k \in Nat
  BY SMTT(60)
<1>5. k - 1 \notin Bad
  BY <1>3, <1>4 DEF OpToRel
<1> QED BY <1>4, <1>5

\* A loop of n rounds that starts with b and whose round k is the function F.
Loop(g, n, b, F) == g = [k \in 0 .. n |-> IF k = 0 THEN b ELSE F[k, g[k - 1]]]

LEMMA LoopExists ==
    ASSUME NEW n \in Nat, NEW S, NEW b \in S, NEW F \in [(1 .. n) \X S -> S]
    PROVE  \E g \in [0 .. n -> S] : Loop(g, n, b, F)
<1> DEFINE G == {k \in 0 .. n : \E g \in [0 .. k -> S] : Loop(g, k, b, F)}
<1>1. 0 \in G
  <2>1. Loop([i \in 0 .. 0 |-> b], 0, b, F)
    BY SMTT(60) DEF Loop
  <2> QED BY SMTT(60), <2>1
<1>2. ASSUME NEW k \in 1 .. n, k - 1 \in G PROVE k \in G
  <2>1. PICK g \in [0 .. k - 1 -> S] : Loop(g, k - 1, b, F)
    BY <1>2
  <2>2. k - 1 \in 0 .. k - 1 /\ k \in Nat /\ k > 0
    BY SMTT(60)
  <2>3. PICK v \in S : v = F[k, g[k - 1]]
    BY <2>2
  <2>4. PICK h : h = [i \in 0 .. k |-> IF i < k THEN g[i] ELSE v]
    OBVIOUS
  <2> HIDE DEF G
  <2>5. h \in [0 .. k -> S]
    BY SMTT(60), <2>2, <2>4
  <2>6. h[k] = v /\ \A i \in 0 .. k - 1 : h[i] = g[i]
    BY SMTT(60), <2>2, <2>4
  <2>7. \A i \in 0 .. k : h[i] = IF i = 0 THEN b ELSE F[i, h[i - 1]]
    <3> SUFFICES ASSUME NEW i \in 0 .. k
                 PROVE  h[i] = IF i = 0 THEN b ELSE F[i, h[i - 1]]
      OBVIOUS
    <3>1. CASE i = k
      <4>1. h[k - 1] = g[k - 1]
        BY <2>2, <2>6
      <4>2. i # 0 /\ F[i, h[i - 1]] = F[k, g[k - 1]]
        BY SMTT(60), <3>1, <4>1, <2>2
      <4>3. h[i] = F[k, g[k - 1]]
        BY <3>1, <2>3, <2>6
      <4> QED BY <4>2, <4>3
    <3>2. CASE i # k
      <4>1. i \in 0 .. k - 1 /\ (i # 0 => i - 1 \in 0 .. k - 1)
        BY SMTT(60), <3>2
      <4>2. g[i] = IF i = 0 THEN b ELSE F[i, g[i - 1]]
        BY <4>1, <2>1 DEF Loop
      <4> QED BY <4>1, <4>2, <2>6
    <3> QED BY <3>1, <3>2
  <2>8. h = [i \in 0 .. k |-> h[i]]
    BY <2>4
  <2>9. Loop(h, k, b, F)
    BY <2>7, <2>8 DEF Loop
  <2> QED BY SMTT(60), <2>5, <2>9 DEF G
<1>3. n \in G
  <2> HIDE DEF G
  <2>1. \A k \in 0 .. n : k \in G
    BY <1>1, <1>2, Rounds
  <2> QED BY SMTT(60), <2>1
<1> QED BY <1>3

-----------------------------------------------------------------------------
(* One removal.                                                            *)

LEMMA ClosedIs ==
    ASSUME NEW f \in Seq(Field), NEW i \in 1 .. Len(f)
    PROVE  /\ Closed(f, i) \in Seq(Field) /\ Len(Closed(f, i)) = Len(f) - 1
           /\ \A k \in 1 .. Len(f) - 1 : Closed(f, i)[k] = IF k < i THEN f[k] ELSE f[k + 1]
<1>1. Len(f) \in Nat /\ f \in [1 .. Len(f) -> Field]
  BY SeqFacts
<1>2. Len(f) - 1 \in Nat
  BY SMTT(60), <1>1
<1>3. \A k \in 1 .. Len(f) - 1 : (IF k < i THEN f[k] ELSE f[k + 1]) \in Field
  BY SMTT(60), <1>1
<1> DEFINE c == [k \in 1 .. Len(f) - 1 |-> IF k < i THEN f[k] ELSE f[k + 1]]
<1>4. c \in Seq(Field) /\ Len(c) = Len(f) - 1
  <2>1. c \in [1 .. Len(f) - 1 -> Field]
    BY <1>3
  <2>2. c \in Seq(Field)
    BY SMTT(60), <2>1, <1>2, MakesSeq
  <2> QED BY SMTT(60), <2>1, <2>2, <1>2, SeqFacts
<1> QED BY <1>4 DEF Closed

Vals(f) == {f[k] : k \in 1 .. Len(f)}

LEMMA ClosedKeeps ==
    ASSUME NEW f \in Seq(Field), NEW i \in 1 .. Len(f), InOrder(f)
    PROVE  InOrder(Closed(f, i)) /\ Vals(Closed(f, i)) = Vals(f) \ {f[i]}
<1> DEFINE c == Closed(f, i)
<1>1. Len(f) \in Nat /\ \A k \in 1 .. Len(f) : f[k] \in Field /\ f[k].slot \in Nat
  <2>1. Len(f) \in Nat /\ \A k \in 1 .. Len(f) : f[k] \in Field
    BY SeqFacts
  <2> QED BY SMTT(60), <2>1 DEF Field
<1>2. /\ Len(c) = Len(f) - 1
      /\ \A k \in 1 .. Len(f) - 1 : c[k] = IF k < i THEN f[k] ELSE f[k + 1]
  BY ClosedIs
<1> HIDE DEF c
<1>3. InOrder(c)
  <2> SUFFICES ASSUME NEW j \in 1 .. Len(c), NEW k \in 1 .. Len(c), j < k
               PROVE  c[j].slot < c[k].slot
    BY DEF InOrder
  <2>1. PICK a \in 1 .. Len(f) : c[j] = f[a] /\ a = IF j < i THEN j ELSE j + 1
    BY SMTT(60), <1>1, <1>2
  <2>2. PICK b \in 1 .. Len(f) : c[k] = f[b] /\ b = IF k < i THEN k ELSE k + 1
    BY SMTT(60), <1>1, <1>2
  <2>3. a < b
    BY SMTT(60), <2>1, <2>2, <1>1, <1>2
  <2> QED BY <2>1, <2>2, <2>3 DEF InOrder
<1>4. \A k \in 1 .. Len(c) : \E a \in 1 .. Len(f) : a # i /\ c[k] = f[a]
  <2> SUFFICES ASSUME NEW k \in 1 .. Len(c)
               PROVE  \E a \in 1 .. Len(f) : a # i /\ c[k] = f[a]
    OBVIOUS
  <2>1. CASE k < i
    BY SMTT(60), <2>1, <1>1, <1>2
  <2>2. CASE ~(k < i)
    <3>1. k + 1 \in 1 .. Len(f) /\ k + 1 # i /\ c[k] = f[k + 1]
      BY SMTT(60), <2>2, <1>1, <1>2
    <3> QED BY <3>1
  <2> QED BY <2>1, <2>2
<1>5. \A a \in 1 .. Len(f) : a # i => \E k \in 1 .. Len(c) : c[k] = f[a]
  <2> SUFFICES ASSUME NEW a \in 1 .. Len(f), a # i
               PROVE  \E k \in 1 .. Len(c) : c[k] = f[a]
    OBVIOUS
  <2>1. CASE a < i
    BY SMTT(60), <2>1, <1>1, <1>2
  <2>2. CASE a > i
    <3>1. a - 1 \in 1 .. Len(c) /\ ~(a - 1 < i) /\ (a - 1) + 1 = a
      BY SMTT(60), <2>2, <1>1, <1>2
    <3> QED BY <3>1, <1>2
  <2> QED BY SMTT(60), <2>1, <2>2
<1>6. \A a \in 1 .. Len(f) : a # i => f[a] # f[i]
  <2> SUFFICES ASSUME NEW a \in 1 .. Len(f), a # i PROVE f[a].slot # f[i].slot
    OBVIOUS
  <2>1. f[a].slot \in Nat /\ f[i].slot \in Nat
    BY <1>1
  <2>2. a < i \/ i < a
    BY SMTT(60), <1>1
  <2>3. f[a].slot < f[i].slot \/ f[i].slot < f[a].slot
    BY <2>2 DEF InOrder
  <2> QED BY SMTT(60), <2>1, <2>3
<1>7. Vals(c) = Vals(f) \ {f[i]}
  <2>1. \A x \in Vals(c) : x \in Vals(f) /\ x # f[i]
    BY SMTT(60), <1>4, <1>6 DEF Vals
  <2>2. \A x \in Vals(f) : x # f[i] => x \in Vals(c)
    BY <1>5 DEF Vals
  <2> QED BY <2>1, <2>2
<1> QED BY <1>3, <1>7 DEF c

-----------------------------------------------------------------------------
(* http_unset_re.                                                          *)

\* The rounds of its loop.
ReCount(f) == IF Len(f) > HdrFirst THEN Len(f) - HdrFirst ELSE 0

LEMMA ReCountIs ==
    ASSUME NEW f \in Seq(Field)
    PROVE  /\ ReCount(f) \in Nat /\ ReCount(f) <= Len(f) /\ Len(f) \in Nat
           /\ \A k \in 1 .. ReCount(f) : k \in 1 .. Len(f) - HdrFirst
           /\ \A j \in 1 .. Len(f) : (j <= Len(f) - ReCount(f)) <=> (j <= HdrFirst)
BY SMTT(60), SeqFacts, FieldsAssumption DEF ReCount

IsUnsetRe(g, f, M) ==
    g = [k \in 0 .. ReCount(f) |->
           IF k = 0 THEN f ELSE ReRound(g[k - 1], RePlaces(Len(f))[k], M)]

LEMMA ReRoundType ==
    ASSUME NEW f \in Seq(Field), NEW i \in Nat \ {0}, NEW M
    PROVE  ReRound(f, i, M) \in Seq(Field)
<1>1. CASE i \in 1 .. Len(f)
  BY <1>1, ClosedIs DEF ReRound
<1>2. CASE i \notin 1 .. Len(f)
  <2>1. ~(i <= Len(f))
    BY SMTT(60), <1>2, SeqFacts
  <2> QED BY <2>1 DEF ReRound
<1> QED BY <1>1, <1>2

LEMMA UnsetReLoop ==
    ASSUME NEW f \in Seq(Field), NEW M
    PROVE  \E g : IsUnsetRe(g, f, M) /\ UnsetRe(f, M) = g[ReCount(f)]
<1>1. PICK n : /\ n = ReCount(f) /\ n \in Nat /\ Len(f) \in Nat
               /\ \A k \in 1 .. n : k \in 1 .. Len(f) - HdrFirst
  BY ReCountIs
<1> DEFINE F == [p \in (1 .. n) \X Seq(Field) |-> ReRound(p[2], RePlaces(Len(f))[p[1]], M)]
<1>2. \A k \in 1 .. n : RePlaces(Len(f))[k] \in Nat \ {0}
  BY SMTT(60), <1>1, FieldsAssumption DEF RePlaces
<1>3. F \in [(1 .. n) \X Seq(Field) -> Seq(Field)]
  <2>1. \A p \in (1 .. n) \X Seq(Field) :
          ReRound(p[2], RePlaces(Len(f))[p[1]], M) \in Seq(Field)
    BY <1>2, ReRoundType
  <2> QED BY <2>1
<1>4. \A k \in 1 .. n, x \in Seq(Field) : F[k, x] = ReRound(x, RePlaces(Len(f))[k], M)
  OBVIOUS
<1>5. PICK g \in [0 .. n -> Seq(Field)] : Loop(g, n, f, F)
  <2> HIDE DEF F
  <2> QED BY <1>1, <1>3, LoopExists
<1> HIDE DEF F
<1>6. IsUnsetRe(g, f, M)
  <2>1. \A k \in 0 .. n :
          g[k] = IF k = 0 THEN f ELSE ReRound(g[k - 1], RePlaces(Len(f))[k], M)
    <3> SUFFICES ASSUME NEW k \in 0 .. n
                 PROVE  g[k] = IF k = 0 THEN f ELSE ReRound(g[k - 1], RePlaces(Len(f))[k], M)
      OBVIOUS
    <3>1. g[k] = IF k = 0 THEN f ELSE F[k, g[k - 1]]
      BY <1>5 DEF Loop
    <3>2. k # 0 => k \in 1 .. n /\ g[k - 1] \in Seq(Field)
      BY SMTT(60), <1>1
    <3> QED BY <3>1, <3>2, <1>4
  <2>2. g = [k \in 0 .. n |-> g[k]]
    OBVIOUS
  <2> QED BY <1>1, <2>1, <2>2 DEF IsUnsetRe
<1> QED BY <1>1, <1>6 DEF IsUnsetRe, UnsetRe, ReCount

\* What http_unset_re keeps once it has visited the last k places.
Kept(f, k, M) == {f[j] : j \in {j \in 1 .. Len(f) : j <= Len(f) - k \/ f[j].slot \notin M}}

\* What it has done by then.
ReDone(g, f, k, M) ==
    /\ g \in Seq(Field) /\ InOrder(g)
    /\ Len(f) - k <= Len(g) /\ Len(g) <= Len(f)
    /\ \A j \in 1 .. Len(f) - k : g[j] = f[j]
    /\ Vals(g) = Kept(f, k, M)

LEMMA KeptNext ==
    ASSUME NEW f \in Seq(Field), InOrder(f), NEW M, NEW k \in 1 .. Len(f),
           NEW i \in 1 .. Len(f), i = Len(f) + 1 - k
    PROVE  /\ f[i].slot \in M => Kept(f, k, M) = Kept(f, k - 1, M) \ {f[i]}
           /\ f[i].slot \notin M => Kept(f, k, M) = Kept(f, k - 1, M)
<1>1. Len(f) \in Nat /\ \A j \in 1 .. Len(f) : f[j].slot \in Nat
  <2>1. Len(f) \in Nat /\ \A j \in 1 .. Len(f) : f[j] \in Field
    BY SeqFacts
  <2> QED BY SMTT(60), <2>1 DEF Field
<1>2. \A j \in 1 .. Len(f) : j # i => f[j] # f[i]
  <2> SUFFICES ASSUME NEW j \in 1 .. Len(f), j # i PROVE f[j].slot # f[i].slot
    OBVIOUS
  <2>1. j < i \/ i < j
    BY SMTT(60), <1>1
  <2>2. f[j].slot < f[i].slot \/ f[i].slot < f[j].slot
    BY <2>1 DEF InOrder
  <2> QED BY SMTT(60), <2>2, <1>1
<1>3. \A j \in 1 .. Len(f) : (j <= Len(f) - (k - 1)) <=> (j <= Len(f) - k \/ j = i)
  BY SMTT(60), <1>1
<1>4. ~(i <= Len(f) - k)
  BY SMTT(60), <1>1
<1> DEFINE P(j, m) == j <= Len(f) - m \/ f[j].slot \notin M
<1>5. \A j \in 1 .. Len(f) : P(j, k - 1) <=> P(j, k) \/ j = i
  BY <1>3
<1>6. f[i].slot \in M => ~P(i, k)
  BY <1>4
<1>7. f[i].slot \notin M => P(i, k)
  OBVIOUS
<1>8. \A m : Kept(f, m, M) = {f[j] : j \in {j \in 1 .. Len(f) : P(j, m)}}
  BY DEF Kept
<1> HIDE DEF P
<1>9. ASSUME f[i].slot \in M PROVE Kept(f, k, M) = Kept(f, k - 1, M) \ {f[i]}
  BY SMTT(60), <1>2, <1>5, <1>6, <1>8, <1>9
<1>10. ASSUME f[i].slot \notin M PROVE Kept(f, k, M) = Kept(f, k - 1, M)
  BY <1>5, <1>7, <1>8, <1>10
<1> QED BY <1>9, <1>10

LEMMA ReRoundDone ==
    ASSUME NEW f \in Seq(Field), InOrder(f), NEW M, NEW k \in 1 .. Len(f),
           NEW g, ReDone(g, f, k - 1, M)
    PROVE  ReDone(ReRound(g, Len(f) + 1 - k, M), f, k, M)
<1>1. PICK i : i = Len(f) + 1 - k /\ i \in 1 .. Len(f) /\ Len(f) \in Nat
  BY SMTT(60), SeqFacts
<1>2. g \in Seq(Field) /\ Len(g) \in Nat /\ InOrder(g) /\ i \in 1 .. Len(g) /\ g[i] = f[i]
  BY SMTT(60), <1>1, SeqFacts DEF ReDone
<1>3. CASE f[i].slot \in M
  <2>1. ReRound(g, i, M) = Closed(g, i)
    BY SMTT(60), <1>2, <1>3 DEF ReRound
  <2>2. InOrder(Closed(g, i)) /\ Vals(Closed(g, i)) = Vals(g) \ {g[i]}
    BY <1>2, ClosedKeeps
  <2>3. Vals(g) = Kept(f, k - 1, M)
    BY DEF ReDone
  <2>4. Kept(f, k, M) = Kept(f, k - 1, M) \ {f[i]}
    BY SMTT(60), <1>1, <1>3, KeptNext
  <2>5. Vals(Closed(g, i)) = Kept(f, k, M)
    BY <1>2, <2>2, <2>3, <2>4
  <2>6. /\ Closed(g, i) \in Seq(Field) /\ Len(Closed(g, i)) = Len(g) - 1
        /\ \A j \in 1 .. Len(g) - 1 : Closed(g, i)[j] = IF j < i THEN g[j] ELSE g[j + 1]
    BY <1>2, ClosedIs
  <2>7. Len(f) - (k - 1) <= Len(g) /\ Len(g) <= Len(f) /\ \A j \in 1 .. i : g[j] = f[j]
    BY SMTT(60), <1>1 DEF ReDone
  <2>8. Len(f) - k <= Len(Closed(g, i)) /\ Len(Closed(g, i)) <= Len(f)
    BY SMTT(60), <1>1, <1>2, <2>6, <2>7
  <2>9. \A j \in 1 .. Len(f) - k : Closed(g, i)[j] = f[j]
    BY SMTT(60), <1>1, <1>2, <2>6, <2>7
  <2> QED BY <1>1, <2>1, <2>2, <2>5, <2>6, <2>8, <2>9 DEF ReDone
<1>4. CASE f[i].slot \notin M
  <2>1. ReRound(g, i, M) = g
    BY <1>2, <1>4 DEF ReRound
  <2>2. Vals(g) = Kept(f, k, M)
    BY SMTT(60), <1>1, <1>4, KeptNext DEF ReDone
  <2>3. Len(f) - k <= Len(g) /\ \A j \in 1 .. Len(f) - k : g[j] = f[j]
    BY SMTT(60), <1>1, <1>2 DEF ReDone
  <2> QED BY <1>1, <2>1, <2>2, <2>3 DEF ReDone
<1> QED BY <1>3, <1>4

LEMMA UnsetReDone ==
    ASSUME NEW f \in Seq(Field), InOrder(f), NEW M
    PROVE  ReDone(UnsetRe(f, M), f, ReCount(f), M)
<1>1. PICK n : /\ n = ReCount(f) /\ n \in Nat /\ n <= Len(f) /\ Len(f) \in Nat
               /\ \A k \in 1 .. n : k \in 1 .. Len(f) - HdrFirst
  BY ReCountIs
<1>2. PICK g : IsUnsetRe(g, f, M) /\ UnsetRe(f, M) = g[n]
  BY <1>1, UnsetReLoop
<1> DEFINE G == {k \in 0 .. n : ReDone(g[k], f, k, M)}
<1>3. 0 \in G
  <2>1. g[0] = f
    BY SMTT(60), <1>1, <1>2 DEF IsUnsetRe
  <2>2. Kept(f, 0, M) = Vals(f)
    BY SMTT(60), <1>1 DEF Kept, Vals
  <2>3. ReDone(f, f, 0, M)
    BY SMTT(60), <1>1, <2>2 DEF ReDone
  <2> QED BY SMTT(60), <1>1, <2>1, <2>3
<1>4. ASSUME NEW k \in 1 .. n, k - 1 \in G PROVE k \in G
  <2>1. g[k] = ReRound(g[k - 1], Len(f) + 1 - k, M)
    <3>1. g[k] = ReRound(g[k - 1], RePlaces(Len(f))[k], M)
      BY SMTT(60), <1>1, <1>2 DEF IsUnsetRe
    <3>2. RePlaces(Len(f))[k] = Len(f) + 1 - k
      BY <1>1 DEF RePlaces
    <3> QED BY <3>1, <3>2
  <2>2. k \in 1 .. Len(f)
    BY SMTT(60), <1>1
  <2>3. ReDone(g[k], f, k, M)
    BY <1>4, <2>1, <2>2, ReRoundDone
  <2> QED BY SMTT(60), <2>3
<1>5. n \in G
  <2> HIDE DEF G
  <2>1. \A k \in 0 .. n : k \in G
    BY <1>1, <1>3, <1>4, Rounds
  <2> QED BY SMTT(60), <1>1, <2>1
<1> QED BY <1>1, <1>2, <1>5

-----------------------------------------------------------------------------
(* foreach_header_field: the list for the guest.                           *)

Entry(f, i) == [index |-> i, slot |-> f[i].slot, deleted |-> FALSE]

IsListed(g, f) ==
    g = [i \in 0 .. Len(f) |->
           IF i <= HdrFirst THEN <<>>
           ELSE IF f[i].blank THEN g[i - 1]
           ELSE Append(g[i - 1], [index |-> i, slot |-> f[i].slot, deleted |-> FALSE])]

LEMMA EntryType ==
    ASSUME NEW f \in Seq(Field), Len(f) <= FieldsMax, NEW i \in 1 .. Len(f), i > HdrFirst
    PROVE  Entry(f, i) \in GuestField
<1>1. Len(f) \in Nat /\ f[i] \in Field
  BY SeqFacts
<1>2. f[i].slot \in 1 .. MaxSlot
  BY <1>1 DEF Field
<1>3. i \in 1 .. HdrInvalid
  BY SMTT(60), <1>1, FieldsAssumption DEF HdrInvalid
<1> QED BY <1>2, <1>3 DEF Entry, GuestField

LEMMA ListedLoop ==
    ASSUME NEW f \in Seq(Field), Len(f) <= FieldsMax
    PROVE  \E g : IsListed(g, f) /\ Listed(f) = g[Len(f)]
<1>1. PICK n : n = Len(f) /\ n \in Nat
  BY SeqFacts
<1> DEFINE Step(k, l) == IF k <= HdrFirst THEN <<>>
                         ELSE IF f[k].blank THEN l ELSE Append(l, Entry(f, k))
           F == [p \in (1 .. n) \X Seq(GuestField) |-> Step(p[1], p[2])]
<1>2. \A k \in 1 .. n, l \in Seq(GuestField) : Step(k, l) \in Seq(GuestField)
  <2> SUFFICES ASSUME NEW k \in 1 .. n, NEW l \in Seq(GuestField)
               PROVE  Step(k, l) \in Seq(GuestField)
    OBVIOUS
  <2>1. <<>> \in Seq(GuestField)
    BY EmptyFacts
  <2>2. ASSUME ~(k <= HdrFirst) PROVE Append(l, Entry(f, k)) \in Seq(GuestField)
    <3>1. Entry(f, k) \in GuestField
      BY SMTT(60), <1>1, <2>2, EntryType, FieldsAssumption
    <3> QED BY <3>1, AppendFacts
  <2> QED BY <2>1, <2>2
<1> HIDE DEF Step
<1>3. F \in [(1 .. n) \X Seq(GuestField) -> Seq(GuestField)]
  BY <1>2
<1>4. \A k \in 1 .. n, x \in Seq(GuestField) : F[k, x] = Step(k, x)
  OBVIOUS
<1>5. PICK g \in [0 .. n -> Seq(GuestField)] : Loop(g, n, <<>>, F)
  <2> HIDE DEF F
  <2>1. <<>> \in Seq(GuestField)
    BY EmptyFacts
  <2> QED BY <1>1, <1>3, <2>1, LoopExists
<1> HIDE DEF F
<1>6. IsListed(g, f)
  <2>1. \A k \in 0 .. n : g[k] = IF k <= HdrFirst THEN <<>>
                                 ELSE IF f[k].blank THEN g[k - 1]
                                 ELSE Append(g[k - 1], Entry(f, k))
    <3> SUFFICES ASSUME NEW k \in 0 .. n
                 PROVE  g[k] = IF k <= HdrFirst THEN <<>>
                               ELSE IF f[k].blank THEN g[k - 1]
                               ELSE Append(g[k - 1], Entry(f, k))
      OBVIOUS
    <3>1. g[k] = IF k = 0 THEN <<>> ELSE F[k, g[k - 1]]
      BY <1>5 DEF Loop
    <3>2. CASE k = 0
      BY SMTT(60), <3>1, <3>2, FieldsAssumption
    <3>3. CASE k # 0
      <4>1. k \in 1 .. n /\ g[k - 1] \in Seq(GuestField)
        BY SMTT(60), <1>1, <3>3
      <4>2. g[k] = Step(k, g[k - 1])
        BY <3>1, <3>3, <4>1, <1>4
      <4> QED BY <4>2 DEF Step
    <3> QED BY <3>2, <3>3
  <2>2. g = [k \in 0 .. n |-> g[k]]
    OBVIOUS
  <2> QED BY <1>1, <2>1, <2>2 DEF IsListed, Entry
<1> QED BY <1>1, <1>6 DEF IsListed, Listed

\* The list of the fields up to index i.
ListDone(e, f, i) ==
    /\ e \in Seq(GuestField)
    /\ Len(e) = 0 \/ HdrFirst + Len(e) <= i
    /\ \A k \in 1 .. Len(e) : /\ HdrFirst + k <= e[k].index /\ e[k].index <= i
                              /\ f[e[k].index].slot = e[k].slot
    /\ \A j, k \in 1 .. Len(e) : j < k => e[j].index < e[k].index

LEMMA ListNext ==
    ASSUME NEW f \in Seq(Field), Len(f) <= FieldsMax, NEW i \in 1 .. Len(f),
           i > HdrFirst, NEW e, ListDone(e, f, i - 1)
    PROVE  ListDone(e, f, i) /\ ListDone(Append(e, Entry(f, i)), f, i)
<1>1. /\ Len(f) \in Nat /\ i \in Nat /\ HdrFirst \in Nat
      /\ e \in Seq(GuestField) /\ Len(e) \in Nat
  BY SMTT(60), SeqFacts, FieldsAssumption DEF ListDone
<1>2. \A k \in 1 .. Len(e) : e[k].index \in Nat
  <2>1. \A k \in 1 .. Len(e) : e[k] \in GuestField
    BY <1>1, SeqFacts
  <2> QED BY SMTT(60), <2>1, <1>1 DEF GuestField
<1>3. ListDone(e, f, i)
  <2>1. Len(e) = 0 \/ HdrFirst + Len(e) <= i - 1
    BY DEF ListDone
  <2>2. Len(e) = 0 \/ HdrFirst + Len(e) <= i
    BY SMTT(60), <2>1, <1>1
  <2>3. ASSUME NEW k \in 1 .. Len(e)
        PROVE  HdrFirst + k <= e[k].index /\ e[k].index <= i
    <3>1. HdrFirst + k <= e[k].index /\ e[k].index <= i - 1 /\ e[k].index \in Nat
      BY <1>2 DEF ListDone
    <3>2. PICK x : x = e[k].index
      OBVIOUS
    <3>3. HdrFirst + k <= x /\ x <= i - 1 /\ x \in Nat
      BY <3>1, <3>2
    <3>4. HdrFirst + k <= x /\ x <= i
      BY SMTT(60), <3>3, <1>1
    <3> QED BY <3>2, <3>4
  <2> QED BY <1>1, <2>2, <2>3 DEF ListDone
<1>4. PICK a : a = Append(e, Entry(f, i))
  OBVIOUS
<1>5. /\ a \in Seq(GuestField) /\ Len(a) = Len(e) + 1
      /\ a[Len(e) + 1] = Entry(f, i) /\ \A k \in 1 .. Len(e) : a[k] = e[k]
  <2>1. Entry(f, i) \in GuestField
    BY EntryType
  <2> QED BY SMTT(60), <1>1, <1>4, <2>1, AppendFacts
<1>6. Entry(f, i).index = i /\ Entry(f, i).slot = f[i].slot
  BY DEF Entry
<1>7. HdrFirst + Len(a) <= i
  BY SMTT(60), <1>1, <1>5 DEF ListDone
<1>8. ASSUME NEW k \in 1 .. Len(a)
      PROVE  HdrFirst + k <= a[k].index /\ a[k].index <= i /\ f[a[k].index].slot = a[k].slot
  <2>1. CASE k = Len(e) + 1
    BY SMTT(60), <2>1, <1>1, <1>5, <1>6, <1>7
  <2>2. CASE k \in 1 .. Len(e)
    BY <2>2, <1>3, <1>5 DEF ListDone
  <2> QED BY SMTT(60), <2>1, <2>2, <1>1, <1>5
<1>9. ASSUME NEW j \in 1 .. Len(a), NEW k \in 1 .. Len(a), j < k
      PROVE  a[j].index < a[k].index
  <2>1. j \in 1 .. Len(e)
    BY SMTT(60), <1>1, <1>5, <1>9
  <2>2. CASE k = Len(e) + 1
    <3>1. e[j].index <= i - 1
      BY <2>1 DEF ListDone
    <3> QED BY SMTT(60), <3>1, <2>1, <2>2, <1>1, <1>2, <1>5, <1>6
  <2>3. CASE k \in 1 .. Len(e)
    BY <2>1, <2>3, <1>5, <1>9 DEF ListDone
  <2> QED BY SMTT(60), <2>2, <2>3, <1>1, <1>5
<1>10. ListDone(a, f, i)
  BY <1>5, <1>7, <1>8, <1>9 DEF ListDone
<1> QED BY <1>3, <1>4, <1>10

LEMMA ListedIs ==
    ASSUME NEW f \in Seq(Field), Len(f) <= FieldsMax
    PROVE  ListDone(Listed(f), f, Len(f))
<1>1. PICK n : n = Len(f) /\ n \in Nat
  BY SeqFacts
<1>2. PICK g : IsListed(g, f) /\ Listed(f) = g[n]
  BY <1>1, ListedLoop
<1> DEFINE G == {i \in 0 .. n : ListDone(g[i], f, i)}
<1>3. \A i \in 0 .. n : g[i] = IF i <= HdrFirst THEN <<>>
                               ELSE IF f[i].blank THEN g[i - 1]
                               ELSE Append(g[i - 1], Entry(f, i))
  BY <1>1, <1>2 DEF IsListed, Entry
<1>4. \A i \in 0 .. n : i <= HdrFirst => i \in G
  <2> SUFFICES ASSUME NEW i \in 0 .. n, i <= HdrFirst PROVE i \in G
    OBVIOUS
  <2>1. g[i] = <<>>
    BY <1>3
  <2>2. <<>> \in Seq(GuestField) /\ Len(<<>>) = 0
    BY EmptyFacts
  <2>3. ListDone(<<>>, f, i)
    BY SMTT(60), <2>2 DEF ListDone
  <2> QED BY <2>1, <2>3
<1>5. 0 \in G
  BY SMTT(60), <1>1, <1>4, FieldsAssumption
<1>6. ASSUME NEW i \in 1 .. n, i - 1 \in G PROVE i \in G
  <2>1. CASE i <= HdrFirst
    BY SMTT(60), <1>4, <2>1
  <2>2. CASE ~(i <= HdrFirst)
    <3>1. g[i] = IF f[i].blank THEN g[i - 1] ELSE Append(g[i - 1], Entry(f, i))
      BY SMTT(60), <1>1, <1>3, <2>2
    <3>2. i \in 1 .. Len(f) /\ i > HdrFirst /\ ListDone(g[i - 1], f, i - 1)
      BY SMTT(60), <1>1, <1>6, <2>2, FieldsAssumption
    <3>3. ListDone(g[i - 1], f, i) /\ ListDone(Append(g[i - 1], Entry(f, i)), f, i)
      BY <3>2, ListNext
    <3>4. ListDone(g[i], f, i)
      BY <3>1, <3>3
    <3> QED BY SMTT(60), <3>4
  <2> QED BY <2>1, <2>2
<1>7. n \in G
  <2> HIDE DEF G
  <2>1. \A k \in 0 .. n : k \in G
    BY <1>1, <1>5, <1>6, Rounds
  <2> QED BY SMTT(60), <1>1, <2>1
<1> QED BY <1>1, <1>2, <1>7

-----------------------------------------------------------------------------
(* foreach_header_field: the removals after the callback.                  *)

RState == [fields : Seq(Field), dcount : Nat, ok : BOOLEAN, fatal : BOOLEAN]
RStart(f) == [fields |-> f, dcount |-> 0, ok |-> TRUE, fatal |-> FALSE]

IsRemovals(g, f, e) ==
    g = [k \in 0 .. Len(e) |->
           IF k = 0 THEN [fields |-> f, dcount |-> 0, ok |-> TRUE, fatal |-> FALSE]
           ELSE Removal(g[k - 1], e[k])]

\* The place that a round removes, and whether it gets to remove one.
Place(st, e) == e.index - st.dcount
Removes(st, e) == ~st.fatal /\ e.deleted /\ e.index <= Len(st.fields)

LEMMA FatalIs ==
    ASSUME NEW f \in Seq(Field), NEW i \in Int
    PROVE  /\ Fatal(f, i) \in BOOLEAN /\ Asserted(f, i) \in BOOLEAN
           /\ ~Fatal(f, i) => i \in 1 .. Len(f)
           /\ Asserted(f, i) => ~Fatal(f, i)
<1>1. Len(f) \in Nat /\ HdrFirst \in Nat \ {0}
  BY SeqFacts, FieldsAssumption
<1>2. Asserted(f, i) \in BOOLEAN /\ (Asserted(f, i) => i \in 1 .. Len(f))
  BY SMTT(60), <1>1 DEF Asserted
<1> QED BY <1>2, FieldsAssumption DEF Fatal

LEMMA RemovalIs ==
    ASSUME NEW st \in RState, NEW e \in GuestField
    PROVE  /\ st.fields \in Seq(Field) /\ Len(st.fields) \in Nat /\ st.dcount \in Nat
           /\ e.index \in Nat /\ Place(st, e) \in Int
           /\ Removal(st, e) \in RState
           /\ ~Removes(st, e) => Removal(st, e) = st
           /\ Removes(st, e) =>
                /\ Removal(st, e).fields = IF Fatal(st.fields, Place(st, e)) THEN st.fields
                                           ELSE Closed(st.fields, Place(st, e))
                /\ Removal(st, e).dcount = st.dcount + 1
                /\ Removal(st, e).ok = (st.ok /\ Asserted(st.fields, Place(st, e)))
                /\ Removal(st, e).fatal = Fatal(st.fields, Place(st, e))
<1>1. st.fields \in Seq(Field) /\ st.dcount \in Nat /\ st.ok \in BOOLEAN
  BY DEF RState
<1>2. Len(st.fields) \in Nat
  BY <1>1, SeqFacts
<1>3. e.index \in Nat
  BY SMTT(60), FieldsAssumption DEF GuestField, HdrInvalid
<1>4. Place(st, e) \in Int
  BY SMTT(60), <1>1, <1>3 DEF Place
<1>5. ASSUME ~Removes(st, e) PROVE Removal(st, e) = st
  BY <1>5 DEF Removal, IsValidIndex, Removes
<1>6. ASSUME Removes(st, e)
      PROVE  /\ Removal(st, e) \in RState
             /\ Removal(st, e).fields = IF Fatal(st.fields, Place(st, e)) THEN st.fields
                                        ELSE Closed(st.fields, Place(st, e))
             /\ Removal(st, e).dcount = st.dcount + 1
             /\ Removal(st, e).ok = (st.ok /\ Asserted(st.fields, Place(st, e)))
             /\ Removal(st, e).fatal = Fatal(st.fields, Place(st, e))
  <2>1. PICK c, d, o, x : /\ c = IF Fatal(st.fields, Place(st, e)) THEN st.fields
                                 ELSE Closed(st.fields, Place(st, e))
                          /\ d = st.dcount + 1
                          /\ o = (st.ok /\ Asserted(st.fields, Place(st, e)))
                          /\ x = Fatal(st.fields, Place(st, e))
    OBVIOUS
  <2>2. Removal(st, e) = [fields |-> c, dcount |-> d, ok |-> o, fatal |-> x]
    BY <1>6, <2>1 DEF Removal, IsValidIndex, Place, Removes
  <2>3. c \in Seq(Field)
    BY <1>1, <1>4, <2>1, FatalIs, ClosedIs
  <2>4. d \in Nat
    BY SMTT(60), <1>1, <2>1
  <2>5. o \in BOOLEAN /\ x \in BOOLEAN
    BY <1>1, <1>4, <2>1, FatalIs
  <2>6. Removal(st, e) \in RState
    BY SMTT(60), <2>2, <2>3, <2>4, <2>5 DEF RState
  <2>7. /\ Removal(st, e).fields = c /\ Removal(st, e).dcount = d
        /\ Removal(st, e).ok = o /\ Removal(st, e).fatal = x
    BY SMTT(60), <2>2
  <2> QED BY <2>1, <2>6, <2>7
<1> QED BY <1>1, <1>2, <1>3, <1>4, <1>5, <1>6

LEMMA RemovalsLoop ==
    ASSUME NEW f \in Seq(Field), NEW e \in Seq(GuestField)
    PROVE  \E g : IsRemovals(g, f, e) /\ Removals(f, e) = g[Len(e)]
<1>1. PICK n : n = Len(e) /\ n \in Nat
  BY SeqFacts
<1> DEFINE F == [p \in (1 .. n) \X RState |-> Removal(p[2], e[p[1]])]
<1>2. \A k \in 1 .. n : e[k] \in GuestField
  BY <1>1, SeqFacts
<1>3. F \in [(1 .. n) \X RState -> RState]
  <2>1. \A p \in (1 .. n) \X RState : Removal(p[2], e[p[1]]) \in RState
    BY <1>2, RemovalIs
  <2> QED BY <2>1
<1>4. \A k \in 1 .. n, x \in RState : F[k, x] = Removal(x, e[k])
  OBVIOUS
<1>5. RStart(f) \in RState
  BY DEF RStart, RState
<1>6. PICK g \in [0 .. n -> RState] : Loop(g, n, RStart(f), F)
  <2> HIDE DEF F
  <2> QED BY <1>1, <1>3, <1>5, LoopExists
<1> HIDE DEF F
<1>7. IsRemovals(g, f, e)
  <2>1. \A k \in 0 .. n : g[k] = IF k = 0 THEN RStart(f) ELSE Removal(g[k - 1], e[k])
    <3> SUFFICES ASSUME NEW k \in 0 .. n
                 PROVE  g[k] = IF k = 0 THEN RStart(f) ELSE Removal(g[k - 1], e[k])
      OBVIOUS
    <3>1. g[k] = IF k = 0 THEN RStart(f) ELSE F[k, g[k - 1]]
      BY <1>6 DEF Loop
    <3>2. k # 0 => k \in 1 .. n /\ g[k - 1] \in RState
      BY SMTT(60), <1>1
    <3> QED BY <3>1, <3>2, <1>4
  <2>2. g = [k \in 0 .. n |-> g[k]]
    OBVIOUS
  <2> QED BY <1>1, <2>1, <2>2 DEF IsRemovals, RStart
<1> QED BY <1>1, <1>7 DEF IsRemovals, Removals

\* What any rounds leave, whatever indices they are given.
RKept(st, f) ==
    /\ st \in RState /\ Len(st.fields) <= Len(f)
    /\ InOrder(st.fields) /\ Vals(st.fields) \subseteq Vals(f)

LEMMA RKeptNext ==
    ASSUME NEW f \in Seq(Field), NEW e \in GuestField, NEW st, RKept(st, f)
    PROVE  RKept(Removal(st, e), f)
<1>1. st \in RState
  BY DEF RKept
<1>2. PICK i, s, t : i = Place(st, e) /\ s = st.fields /\ t = Removal(st, e)
  OBVIOUS
<1>3. /\ s \in Seq(Field) /\ Len(s) \in Nat /\ i \in Int /\ t \in RState
      /\ t.fields = s \/ (~Fatal(s, i) /\ t.fields = Closed(s, i))
  BY <1>1, <1>2, RemovalIs
<1>4. InOrder(s) /\ Vals(s) \subseteq Vals(f) /\ Len(s) <= Len(f) /\ Len(f) \in Nat
  BY <1>2, SeqFacts DEF RKept
<1>5. CASE t.fields = s
  BY <1>2, <1>3, <1>4, <1>5 DEF RKept
<1>6. CASE ~Fatal(s, i) /\ t.fields = Closed(s, i)
  <2>1. i \in 1 .. Len(s)
    BY <1>3, <1>6, FatalIs
  <2>2. InOrder(Closed(s, i)) /\ Vals(Closed(s, i)) \subseteq Vals(s)
    BY <1>3, <1>4, <2>1, ClosedKeeps
  <2>3. Len(Closed(s, i)) = Len(s) - 1
    BY <1>3, <2>1, ClosedIs
  <2>4. Len(Closed(s, i)) <= Len(f)
    BY SMTT(60), <1>3, <1>4, <2>3
  <2>5. RKept(t, f)
    BY <1>3, <1>4, <1>6, <2>2, <2>4 DEF RKept
  <2> QED BY <1>2, <2>5
<1> QED BY <1>3, <1>5, <1>6

\* What k rounds have done with the indices of foreach, stale or not.
RDone(st, f, k) ==
    /\ RKept(st, f) /\ st.ok = TRUE /\ st.fatal = FALSE
    /\ st.dcount <= k /\ Len(st.fields) + st.dcount = Len(f)
    /\ HdrFirst <= Len(f) =>
         HdrFirst <= Len(st.fields) /\ \A j \in 1 .. HdrFirst : st.fields[j] = f[j]

LEMMA RNext ==
    ASSUME NEW f \in Seq(Field), NEW k \in Nat \ {0}, NEW e \in GuestField,
           HdrFirst + k <= e.index, NEW st, RDone(st, f, k - 1)
    PROVE  RDone(Removal(st, e), f, k)
<1>1. st \in RState /\ Len(f) \in Nat /\ HdrFirst \in Nat \ {0} /\ RKept(st, f)
  BY SeqFacts, FieldsAssumption DEF RDone, RKept
<1>2. CASE ~Removes(st, e)
  <2>1. Removal(st, e) = st /\ st.dcount \in Nat
    BY <1>1, <1>2, RemovalIs
  <2>2. st.dcount <= k - 1
    BY DEF RDone
  <2>3. st.dcount <= k
    BY SMTT(60), <2>1, <2>2
  <2> QED BY <2>1, <2>3 DEF RDone
<1>3. CASE Removes(st, e)
  <2>1. PICK i, s, d, t : i = Place(st, e) /\ s = st.fields /\ d = st.dcount
                          /\ t = Removal(st, e)
    OBVIOUS
  <2>2. /\ s \in Seq(Field) /\ Len(s) \in Nat /\ d \in Nat /\ e.index \in Nat
        /\ i \in Int /\ i = e.index - d
    BY <1>1, <2>1, RemovalIs DEF Place
  <2>3. d <= k - 1 /\ Len(s) + d = Len(f) /\ e.index <= Len(s)
    BY <1>3, <2>1 DEF RDone, Removes
  <2>4. i > HdrFirst /\ i <= Len(s) /\ i \in 1 .. Len(s)
    BY SMTT(60), <1>1, <2>2, <2>3
  <2>5. Asserted(s, i) /\ ~Fatal(s, i) /\ Fatal(s, i) = FALSE
    BY <2>2, <2>4, FatalIs DEF Asserted
  <2>6. t.fields = Closed(s, i) /\ t.dcount = d + 1 /\ t.ok = TRUE /\ t.fatal = FALSE
    <3>1. st.ok = TRUE
      BY DEF RDone
    <3> QED BY <1>1, <1>3, <2>1, <2>5, <3>1, RemovalIs
  <2>7. RKept(t, f)
    BY <1>1, <2>1, RKeptNext
  <2>8. /\ Len(Closed(s, i)) = Len(s) - 1
        /\ \A j \in 1 .. Len(s) - 1 : Closed(s, i)[j] = IF j < i THEN s[j] ELSE s[j + 1]
    BY <2>2, <2>4, ClosedIs
  <2>9. HdrFirst <= Len(Closed(s, i)) /\ d + 1 <= k /\ Len(Closed(s, i)) + (d + 1) = Len(f)
    <3>1. PICK x, h, n, c, l : x = e.index /\ h = HdrFirst /\ n = Len(s)
                               /\ c = Len(Closed(s, i)) /\ l = Len(f)
      OBVIOUS
    <3>2. /\ h \in Nat /\ n \in Nat /\ d \in Nat /\ l \in Nat /\ i \in Int /\ c = n - 1
          /\ i > h /\ i <= n /\ d <= k - 1 /\ n + d = l
      BY <1>1, <2>2, <2>3, <2>4, <2>8, <3>1
    <3>3. h <= c /\ d + 1 <= k /\ c + (d + 1) = l
      BY SMTT(60), <3>2
    <3> QED BY <3>1, <3>3
  <2>10. ASSUME HdrFirst <= Len(f), NEW j \in 1 .. HdrFirst PROVE Closed(s, i)[j] = f[j]
    <3>1. j \in 1 .. Len(s) - 1 /\ j < i
      BY SMTT(60), <1>1, <2>2, <2>4
    <3>2. s[j] = f[j]
      BY <2>1, <2>10 DEF RDone
    <3> QED BY <3>1, <3>2, <2>8
  <2>11. RDone(t, f, k)
    BY <2>6, <2>7, <2>9, <2>10 DEF RDone
  <2> QED BY <2>1, <2>11
<1> QED BY <1>2, <1>3

\* Every entry lies far enough from the proto fields (EntriesInv).
Spaced(e) == \A k \in 1 .. Len(e) : HdrFirst + k <= e[k].index

\* The indices that were not given up grow, and are those of their fields.
Exact(e, f) ==
    /\ \A j, k \in 1 .. Len(e) : j < k /\ e[j].index # HdrInvalid => e[j].index < e[k].index
    /\ \A k \in 1 .. Len(e) : e[k].index # HdrInvalid =>
         e[k].index <= Len(f) /\ f[e[k].index].slot = e[k].slot

\* A place that no entry up to k has reached yet.
Ahead(p, e, k) == \A j \in 1 .. k : e[j].index # HdrInvalid => e[j].index < p

\* What k rounds have done when the indices are exact: what lies ahead has moved
\* back dcount places, and what is gone was marked.
RMarked(st, f, e, k) ==
    /\ \A p \in 1 .. Len(f) : Ahead(p, e, k) =>
         p - st.dcount \in 1 .. Len(st.fields) /\ st.fields[p - st.dcount] = f[p]
    /\ \A x \in Vals(f) \ Vals(st.fields) : \E j \in 1 .. k : e[j].deleted /\ x.slot = e[j].slot

LEMMA RMarkedNext ==
    ASSUME NEW f \in Seq(Field), Len(f) <= FieldsMax, NEW e \in Seq(GuestField),
           Spaced(e), Exact(e, f), NEW k \in 1 .. Len(e),
           NEW st, RDone(st, f, k - 1), RMarked(st, f, e, k - 1)
    PROVE  RMarked(Removal(st, e[k]), f, e, k)
<1>1. /\ st \in RState /\ Len(f) \in Nat /\ HdrFirst \in Nat \ {0} /\ k \in Nat \ {0}
      /\ e[k] \in GuestField /\ HdrFirst + k <= e[k].index /\ Len(e) \in Nat
  BY SMTT(60), SeqFacts, FieldsAssumption DEF RDone, RKept, Spaced
<1>2. \A p : Ahead(p, e, k) => Ahead(p, e, k - 1)
  BY SMTT(60), <1>1 DEF Ahead
<1>3. \A j \in 1 .. k - 1 : j \in 1 .. k
  BY SMTT(60), <1>1
<1>4. CASE ~Removes(st, e[k])
  <2>1. Removal(st, e[k]) = st
    BY <1>1, <1>4, RemovalIs
  <2>2. RMarked(st, f, e, k)
    <3>1. \A p \in 1 .. Len(f) : Ahead(p, e, k) =>
            p - st.dcount \in 1 .. Len(st.fields) /\ st.fields[p - st.dcount] = f[p]
      BY <1>2 DEF RMarked
    <3>2. \A x \in Vals(f) \ Vals(st.fields) :
            \E j \in 1 .. k : e[j].deleted /\ x.slot = e[j].slot
      BY <1>3 DEF RMarked
    <3> QED BY <3>1, <3>2 DEF RMarked
  <2> QED BY <2>1, <2>2
<1>5. CASE Removes(st, e[k])
  <2>1. PICK i, s, d, t : i = Place(st, e[k]) /\ s = st.fields /\ d = st.dcount
                          /\ t = Removal(st, e[k])
    OBVIOUS
  <2>2. /\ s \in Seq(Field) /\ Len(s) \in Nat /\ d \in Nat /\ e[k].index \in Nat
        /\ i = e[k].index - d /\ i \in Int
    BY <1>1, <2>1, RemovalIs DEF Place
  <2>3. /\ d <= k - 1 /\ Len(s) + d = Len(f) /\ InOrder(s)
        /\ e[k].deleted /\ e[k].index <= Len(s)
    BY <1>5, <2>1 DEF RDone, RKept, Removes
  <2>4. i > HdrFirst /\ i <= Len(s) /\ i \in 1 .. Len(s)
    <3>1. PICK x, h, n : x = e[k].index /\ h = HdrFirst /\ n = Len(s)
      OBVIOUS
    <3>2. /\ x \in Nat /\ h \in Nat \ {0} /\ n \in Nat /\ d \in Nat /\ d <= k - 1
          /\ h + k <= x /\ x <= n /\ i = x - d /\ k \in Nat
      BY <1>1, <2>2, <2>3, <3>1
    <3>3. i > h /\ i <= n /\ i \in 1 .. n
      BY SMTT(60), <3>2
    <3> QED BY <3>1, <3>3
  <2>5. ~Fatal(s, i)
    BY <2>2, <2>4, FatalIs DEF Asserted
  <2>6. t.fields = Closed(s, i) /\ t.dcount = d + 1
    BY <1>1, <1>5, <2>1, <2>5, RemovalIs
  <2>7. /\ Len(Closed(s, i)) = Len(s) - 1
        /\ \A j \in 1 .. Len(s) - 1 : Closed(s, i)[j] = IF j < i THEN s[j] ELSE s[j + 1]
    BY <2>2, <2>4, ClosedIs
  <2>8. e[k].index # HdrInvalid /\ e[k].index \in 1 .. Len(f)
    BY SMTT(60), <1>1, <2>2, <2>3, FieldsAssumption DEF HdrInvalid
  <2>9. ASSUME NEW p \in 1 .. Len(f), Ahead(p, e, k)
        PROVE  p - t.dcount \in 1 .. Len(t.fields) /\ t.fields[p - t.dcount] = f[p]
    <3>1. e[k].index < p
      BY SMTT(60), <1>1, <2>8, <2>9 DEF Ahead
    <3>2. p - d \in 1 .. Len(s) /\ s[p - d] = f[p]
      BY <1>2, <2>1, <2>9 DEF RMarked
    <3>3. PICK q : q = p - d - 1
      OBVIOUS
    <3>4. q \in 1 .. Len(s) - 1 /\ ~(q < i) /\ q + 1 = p - d /\ q = p - (d + 1)
      BY SMTT(60), <1>1, <2>2, <2>4, <3>1, <3>2, <3>3
    <3>5. Closed(s, i)[q] = f[p]
      BY <3>2, <3>4, <2>7
    <3> QED BY <3>4, <3>5, <2>6, <2>7
  <2>10. s[i] = f[e[k].index]
    <3>1. Ahead(e[k].index, e, k - 1)
      <4> SUFFICES ASSUME NEW j \in 1 .. k - 1, e[j].index # HdrInvalid
                   PROVE  e[j].index < e[k].index
        BY DEF Ahead
      <4>1. j \in 1 .. Len(e) /\ j < k
        BY SMTT(60), <1>1
      <4> QED BY <4>1 DEF Exact
    <3> QED BY <3>1, <2>1, <2>2, <2>8 DEF RMarked
  <2>11. s[i].slot = e[k].slot
    BY <2>8, <2>10 DEF Exact
  <2>12. Vals(Closed(s, i)) = Vals(s) \ {s[i]}
    BY <2>2, <2>3, <2>4, ClosedKeeps
  <2>13. ASSUME NEW x \in Vals(f) \ Vals(t.fields)
         PROVE  \E j \in 1 .. k : e[j].deleted /\ x.slot = e[j].slot
    <3>1. CASE x = s[i]
      <4>1. k \in 1 .. k
        BY SMTT(60), <1>1
      <4> QED BY <2>3, <2>11, <3>1, <4>1
    <3>2. CASE x # s[i]
      <4>1. x \in Vals(f) \ Vals(s)
        BY <2>6, <2>12, <2>13, <3>2
      <4>2. PICK j \in 1 .. k - 1 : e[j].deleted /\ x.slot = e[j].slot
        BY <2>1, <4>1 DEF RMarked
      <4> QED BY <1>3, <4>2
    <3> QED BY <3>1, <3>2
  <2>14. RMarked(t, f, e, k)
    BY <2>9, <2>13 DEF RMarked
  <2> QED BY <2>1, <2>14
<1> QED BY <1>4, <1>5

LEMMA RemovalsDone ==
    ASSUME NEW f \in Seq(Field), InOrder(f), NEW e \in Seq(GuestField)
    PROVE  /\ RKept(Removals(f, e), f)
           /\ Spaced(e) => RDone(Removals(f, e), f, Len(e))
           /\ Spaced(e) /\ Exact(e, f) /\ Len(f) <= FieldsMax =>
                RMarked(Removals(f, e), f, e, Len(e))
<1>1. PICK n : n = Len(e) /\ n \in Nat /\ Len(f) \in Nat
  BY SeqFacts
<1>2. PICK g : IsRemovals(g, f, e) /\ Removals(f, e) = g[n]
  BY <1>1, RemovalsLoop
<1>3. g[0] = RStart(f) /\ \A k \in 1 .. n : g[k] = Removal(g[k - 1], e[k])
  <2>1. \A k \in 0 .. n : g[k] = IF k = 0 THEN RStart(f) ELSE Removal(g[k - 1], e[k])
    BY <1>1, <1>2 DEF IsRemovals, RStart
  <2>2. 0 \in 0 .. n /\ \A k \in 1 .. n : k \in 0 .. n /\ k # 0
    BY SMTT(60), <1>1
  <2> QED BY <2>1, <2>2
<1>4. RKept(RStart(f), f) /\ RDone(RStart(f), f, 0)
  <2>1. /\ RStart(f) \in RState /\ RStart(f).ok = TRUE /\ RStart(f).dcount = 0
        /\ RStart(f).fields = f /\ RStart(f).fatal = FALSE
    BY DEF RStart, RState
  <2>2. Len(f) <= Len(f) /\ 0 <= 0 /\ Len(f) + 0 = Len(f)
    BY SMTT(60), <1>1
  <2>3. RKept(RStart(f), f)
    BY <2>1, <2>2 DEF RKept
  <2> QED BY <2>1, <2>2, <2>3 DEF RDone
<1>5. RKept(g[n], f)
  <2> DEFINE K == {k \in 0 .. n : RKept(g[k], f)}
  <2>1. 0 \in K
    BY SMTT(60), <1>1, <1>3, <1>4
  <2>2. ASSUME NEW k \in 1 .. n, k - 1 \in K PROVE k \in K
    <3>1. e[k] \in GuestField
      BY <1>1, SeqFacts
    <3>2. RKept(Removal(g[k - 1], e[k]), f)
      BY <2>2, <3>1, RKeptNext
    <3> QED BY SMTT(60), <1>3, <3>2
  <2>3. n \in K
    <3> HIDE DEF K
    <3>1. \A k \in 0 .. n : k \in K
      BY <1>1, <2>1, <2>2, Rounds
    <3> QED BY SMTT(60), <1>1, <3>1
  <2> QED BY <2>3
<1>6. ASSUME Spaced(e) PROVE \A k \in 0 .. n : RDone(g[k], f, k)
  <2> DEFINE G == {k \in 0 .. n : RDone(g[k], f, k)}
  <2>1. 0 \in G
    BY SMTT(60), <1>1, <1>3, <1>4
  <2>2. ASSUME NEW k \in 1 .. n, k - 1 \in G PROVE k \in G
    <3>1. k \in Nat \ {0} /\ e[k] \in GuestField /\ HdrFirst + k <= e[k].index
      BY SMTT(60), <1>1, <1>6, SeqFacts DEF Spaced
    <3>2. RDone(Removal(g[k - 1], e[k]), f, k)
      BY <2>2, <3>1, RNext
    <3> QED BY SMTT(60), <1>3, <3>2
  <2>3. \A k \in 0 .. n : k \in G
    <3> HIDE DEF G
    <3> QED BY <1>1, <2>1, <2>2, Rounds
  <2> QED BY <2>3
<1>9. ASSUME Spaced(e), Exact(e, f), Len(f) <= FieldsMax PROVE RMarked(g[n], f, e, n)
  <2> DEFINE H == {k \in 0 .. n : RMarked(g[k], f, e, k)}
  <2>1. 0 \in H
    <3>1. RStart(f).dcount = 0 /\ RStart(f).fields = f
      BY DEF RStart
    <3>2. \A p \in 1 .. Len(f) : p - 0 = p
      BY SMTT(60), <1>1
    <3>3. RMarked(RStart(f), f, e, 0)
      BY <3>1, <3>2 DEF RMarked
    <3> QED BY SMTT(60), <1>1, <1>3, <3>3
  <2>2. ASSUME NEW k \in 1 .. n, k - 1 \in H PROVE k \in H
    <3>1. RDone(g[k - 1], f, k - 1)
      BY SMTT(60), <1>1, <1>6, <1>9
    <3>2. RMarked(Removal(g[k - 1], e[k]), f, e, k)
      BY <1>1, <1>9, <2>2, <3>1, RMarkedNext
    <3> QED BY SMTT(60), <1>3, <3>2
  <2>3. n \in H
    <3> HIDE DEF H
    <3>1. \A k \in 0 .. n : k \in H
      BY <1>1, <2>1, <2>2, Rounds
    <3> QED BY SMTT(60), <1>1, <3>1
  <2> QED BY <2>3
<1>10. ASSUME Spaced(e) PROVE RDone(g[n], f, n)
  BY SMTT(60), <1>1, <1>6, <1>10
<1> QED BY <1>1, <1>2, <1>5, <1>9, <1>10

-----------------------------------------------------------------------------
(* The fields of an object of which a slots were given out.                *)

Sound(f, a) ==
    /\ f \in Seq(Field) /\ Len(f) <= FieldsMax
    /\ InOrder(f)
    /\ \A i \in 1 .. Len(f) : f[i].slot <= a

\* The proto fields are in their places.
Proto(f) == HdrFirst <= Len(f) /\ \A i \in 1 .. HdrFirst : f[i].slot = i

LEMMA SoundLen ==
    ASSUME NEW f, NEW a, Sound(f, a)
    PROVE  /\ Len(f) \in Nat /\ HdrFirst \in Nat \ {0} /\ FieldsMax \in Nat
           /\ \A i \in 1 .. Len(f) : f[i] \in Field /\ f[i].slot \in Nat /\ f[i].blank \in BOOLEAN
           /\ Proto(f) => \A i \in 1 .. HdrFirst : i \in 1 .. Len(f)
<1>1. Len(f) \in Nat /\ \A i \in 1 .. Len(f) : f[i] \in Field
  BY SeqFacts DEF Sound
<1>2. Proto(f) => \A i \in 1 .. HdrFirst : i \in 1 .. Len(f)
  BY SMTT(60), <1>1, FieldsAssumption DEF Proto
<1> QED BY SMTT(60), <1>1, <1>2, FieldsAssumption DEF Field

LEMMA ReceivedSound ==
    ASSUME NEW n \in HdrFirst .. FieldsMax, NEW a \in Nat, n <= a
    PROVE  Sound(Received(n), a) /\ Proto(Received(n))
<1>1. HdrFirst \in Nat \ {0} /\ n \in Nat /\ FieldsMax \in Nat /\ MaxSlot \in Nat
      /\ FieldsMax <= MaxSlot
  BY SMTT(60), FieldsAssumption
<1>2. PICK f : f = [i \in 1 .. n |-> [slot |-> i, blank |-> FALSE]]
  OBVIOUS
<1>3. \A i \in 1 .. n : f[i].slot = i /\ f[i] \in Field
  BY SMTT(60), <1>1, <1>2 DEF Field
<1>4. f \in [1 .. n -> Field]
  BY <1>2, <1>3
<1>5. f \in Seq(Field) /\ Len(f) = n
  BY <1>1, <1>4, MakesSeq, SeqFacts
<1>6. InOrder(f)
  BY <1>3, <1>5 DEF InOrder
<1>7. Sound(f, a)
  BY SMTT(60), <1>1, <1>3, <1>5, <1>6 DEF Sound
<1>8. Proto(f)
  BY SMTT(60), <1>1, <1>3, <1>5 DEF Proto
<1> QED BY <1>2, <1>7, <1>8 DEF Received

LEMMA ClosedSound ==
    ASSUME NEW f, NEW a \in Nat, Sound(f, a), NEW i \in 1 .. Len(f)
    PROVE  /\ Sound(Closed(f, i), a)
           /\ Proto(f) /\ i > HdrFirst => Proto(Closed(f, i))
<1>1. /\ Len(f) \in Nat /\ HdrFirst \in Nat \ {0} /\ FieldsMax \in Nat /\ f \in Seq(Field)
      /\ Len(f) <= FieldsMax
  BY SoundLen DEF Sound
<1>2. PICK c : c = Closed(f, i)
  OBVIOUS
<1>3. /\ c \in Seq(Field) /\ Len(c) = Len(f) - 1
      /\ \A k \in 1 .. Len(f) - 1 : c[k] = IF k < i THEN f[k] ELSE f[k + 1]
  BY <1>1, <1>2, ClosedIs
<1>4. InOrder(c)
  BY <1>1, <1>2, ClosedKeeps DEF Sound
<1>5. ASSUME Proto(f), i > HdrFirst PROVE Proto(c)
  BY SMTT(60), <1>1, <1>3, <1>5 DEF Proto
<1>6. \A k \in 1 .. Len(c) : c[k].slot <= a
  <2> SUFFICES ASSUME NEW k \in 1 .. Len(c) PROVE c[k].slot <= a
    OBVIOUS
  <2>1. k \in 1 .. Len(f) /\ k + 1 \in 1 .. Len(f)
    BY SMTT(60), <1>1, <1>3
  <2>2. c[k] = f[k] \/ c[k] = f[k + 1]
    BY <1>3
  <2> QED BY <2>1, <2>2 DEF Sound
<1>7. Len(c) <= FieldsMax
  BY SMTT(60), <1>1, <1>3
<1> QED BY <1>2, <1>3, <1>4, <1>5, <1>6, <1>7 DEF Sound

LEMMA AppendSound ==
    ASSUME NEW f, NEW a \in Nat, Sound(f, a), a < MaxSlot, Len(f) < FieldsMax,
           NEW b \in BOOLEAN
    PROVE  LET g == Append(f, [slot |-> a + 1, blank |-> b])
           IN  /\ Sound(g, a + 1) /\ Len(g) = Len(f) + 1
               /\ \A k \in 1 .. Len(f) : g[k] = f[k]
               /\ Proto(f) => Proto(g)
<1>1. /\ Len(f) \in Nat /\ HdrFirst \in Nat \ {0} /\ FieldsMax \in Nat /\ f \in Seq(Field)
      /\ \A k \in 1 .. Len(f) : f[k].slot \in Nat
      /\ MaxSlot \in Nat
  BY SoundLen, FieldsAssumption DEF Sound
<1>2. PICK x : x = [slot |-> a + 1, blank |-> b]
  OBVIOUS
<1>3. x \in Field /\ x.slot = a + 1
  BY SMTT(60), <1>1, <1>2 DEF Field
<1>4. PICK g : g = Append(f, x)
  OBVIOUS
<1>5. /\ g \in Seq(Field) /\ Len(g) = Len(f) + 1 /\ g[Len(f) + 1] = x
      /\ \A k \in 1 .. Len(f) : g[k] = f[k]
  BY SMTT(60), <1>1, <1>3, <1>4, AppendFacts
<1>6. \A k \in 1 .. Len(g) : k \in 1 .. Len(f) \/ k = Len(f) + 1
  BY SMTT(60), <1>1, <1>5
<1>7. \A k \in 1 .. Len(g) : g[k].slot <= a + 1
  <2>1. \A k \in 1 .. Len(f) : f[k].slot <= a
    BY DEF Sound
  <2> QED BY SMTT(60), <1>1, <1>3, <1>5, <1>6, <2>1
<1>8. InOrder(g)
  <2> SUFFICES ASSUME NEW j \in 1 .. Len(g), NEW k \in 1 .. Len(g), j < k
               PROVE  g[j].slot < g[k].slot
    BY DEF InOrder
  <2>1. j \in 1 .. Len(f) /\ g[j] = f[j] /\ f[j].slot <= a /\ f[j].slot \in Nat
    BY SMTT(60), <1>1, <1>5 DEF Sound
  <2>2. CASE k = Len(f) + 1
    BY SMTT(60), <1>3, <1>5, <2>1, <2>2
  <2>3. CASE k \in 1 .. Len(f)
    BY <1>5, <2>1, <2>3 DEF InOrder, Sound
  <2> QED BY <1>6, <2>2, <2>3
<1>9. ASSUME Proto(f) PROVE Proto(g)
  BY SMTT(60), <1>1, <1>5, <1>9 DEF Proto
<1>10. Sound(g, a + 1)
  BY SMTT(60), <1>1, <1>5, <1>7, <1>8 DEF Sound
<1> QED BY <1>2, <1>4, <1>5, <1>9, <1>10

LEMMA SetSound ==
    ASSUME NEW f, NEW a \in Nat, Sound(f, a), NEW i \in 1 .. Len(f),
           NEW x \in Field, x.slot = f[i].slot,
           NEW g, g = [k \in 1 .. Len(f) |-> IF k = i THEN x ELSE f[k]]
    PROVE  /\ Sound(g, a) /\ Len(g) = Len(f) /\ \A k \in 1 .. Len(f) : g[k].slot = f[k].slot
           /\ Proto(f) => Proto(g)
<1>1. /\ Len(f) \in Nat /\ HdrFirst \in Nat \ {0} /\ f \in Seq(Field)
      /\ \A k \in 1 .. Len(f) : f[k] \in Field
      /\ Proto(f) => \A k \in 1 .. HdrFirst : k \in 1 .. Len(f)
  BY SoundLen DEF Sound
<1>7. g \in [1 .. Len(f) -> Field]
  BY <1>1
<1>8. g \in Seq(Field) /\ Len(g) = Len(f)
  BY SMTT(60), <1>1, <1>7, MakesSeq, SeqFacts
<1>9. \A k \in 1 .. Len(f) : g[k].slot = f[k].slot
  OBVIOUS
<1>10. InOrder(g)
  BY <1>8, <1>9 DEF InOrder, Sound
<1>11. Sound(g, a)
  BY <1>1, <1>8, <1>9, <1>10 DEF Sound
<1>12. Proto(f) => Proto(g)
  BY <1>1, <1>8, <1>9 DEF Proto
<1> QED BY <1>8, <1>9, <1>11, <1>12

LEMMA FewerSound ==
    ASSUME NEW f, NEW a \in Nat, Sound(f, a),
           NEW g \in Seq(Field), InOrder(g), Vals(g) \subseteq Vals(f), Len(g) <= Len(f)
    PROVE  Sound(g, a)
<1>1. \A x \in Vals(f) : x.slot <= a
  BY DEF Sound, Vals
<1>2. \A k \in 1 .. Len(g) : g[k].slot <= a
  BY <1>1 DEF Vals
<1>3. Len(g) <= FieldsMax
  <2>1. Len(g) \in Nat /\ Len(f) \in Nat /\ FieldsMax \in Nat
    BY SoundLen, SeqFacts
  <2>2. Len(f) <= FieldsMax
    BY DEF Sound
  <2> QED BY SMTT(60), <2>1, <2>2
<1> QED BY <1>2, <1>3 DEF Sound

LEMMA UnsetReSound ==
    ASSUME NEW f, NEW a \in Nat, Sound(f, a), NEW M
    PROVE  /\ Sound(UnsetRe(f, M), a)
           /\ Proto(f) => Proto(UnsetRe(f, M))
<1>1. PICK g : g = UnsetRe(f, M)
  OBVIOUS
<1>2. f \in Seq(Field) /\ InOrder(f) /\ Len(f) \in Nat /\ HdrFirst \in Nat
  BY SoundLen DEF Sound
<1>3. ReDone(g, f, ReCount(f), M)
  BY <1>1, <1>2, UnsetReDone
<1>4. Vals(g) \subseteq Vals(f)
  BY <1>3 DEF ReDone, Kept, Vals
<1>5. g \in Seq(Field) /\ InOrder(g) /\ Len(g) <= Len(f)
  BY <1>3 DEF ReDone
<1>6. ASSUME Proto(f) PROVE Proto(g)
  <2>1. Len(f) - ReCount(f) = HdrFirst
    BY SMTT(60), <1>2, <1>6 DEF Proto, ReCount
  <2>2. HdrFirst <= Len(g) /\ \A j \in 1 .. HdrFirst : g[j] = f[j]
    BY <1>3, <2>1 DEF ReDone
  <2> QED BY <1>6, <2>2 DEF Proto
<1> QED BY <1>1, <1>4, <1>5, <1>6, FewerSound

LEMMA RemovalsSound ==
    ASSUME NEW f, NEW a \in Nat, Sound(f, a), NEW e \in Seq(GuestField)
    PROVE  /\ Sound(Removals(f, e).fields, a) /\ Removals(f, e).fatal \in BOOLEAN
           /\ Spaced(e) => Removals(f, e).ok = TRUE
           /\ Spaced(e) /\ Proto(f) => Proto(Removals(f, e).fields)
<1>1. PICK t, g : t = Removals(f, e) /\ g = t.fields
  OBVIOUS
<1>2. f \in Seq(Field) /\ InOrder(f) /\ Len(f) \in Nat
  BY SoundLen DEF Sound
<1>3. RKept(t, f) /\ (Spaced(e) => RDone(t, f, Len(e)))
  BY <1>1, <1>2, RemovalsDone
<1>4. /\ g \in Seq(Field) /\ t.fatal \in BOOLEAN /\ Len(g) <= Len(f)
      /\ InOrder(g) /\ Vals(g) \subseteq Vals(f)
  BY <1>1, <1>3 DEF RKept, RState
<1>5. Sound(g, a)
  BY <1>4, FewerSound
<1>6. ASSUME Spaced(e) PROVE t.ok = TRUE /\ (Proto(f) => Proto(g))
  BY <1>1, <1>3, <1>6 DEF RDone, Proto
<1> QED BY <1>1, <1>4, <1>5, <1>6

-----------------------------------------------------------------------------
(* The inductive invariant.                                                *)

IInv == TypeOK /\ FieldsInv

Rest ==
    /\ received \in HdrFirst .. FieldsMax /\ arrived \in HdrFirst .. MaxSlot
    /\ entries \in Seq(GuestField)
    /\ {iterating, moved, rewritten, strayed, halted} \subseteq BOOLEAN
    /\ received <= arrived /\ EntriesInv /\ IndicesInv

LEMMA Parts == IInv <=> Sound(fields, arrived) /\ (~strayed => Proto(fields)) /\ Rest
<1>1. IInv => Sound(fields, arrived) /\ (~strayed => Proto(fields))
  BY DEF IInv, TypeOK, FieldsInv, ProtoKept, ProtoInPlace, OrderKept, SlotsInv, Sound, Proto
<1>2. IInv => Rest
  BY DEF IInv, TypeOK, FieldsInv, SlotsInv, Rest
<1>3. Sound(fields, arrived) /\ (~strayed => Proto(fields)) /\ Rest => IInv
  BY DEF IInv, TypeOK, FieldsInv, ProtoKept, ProtoInPlace, OrderKept, SlotsInv, Sound, Proto,
         Rest
<1> QED BY <1>1, <1>2, <1>3

LEMMA PartsNext == Sound(fields', arrived') /\ (~strayed' => Proto(fields')) /\ Rest' => IInv'
BY DEF IInv, TypeOK, FieldsInv, ProtoKept, ProtoInPlace, OrderKept, SlotsInv, Sound, Proto, Rest

LEMMA InitIInv == Init => IInv
<1> SUFFICES ASSUME Init PROVE IInv
  OBVIOUS
<1>1. /\ received \in Nat /\ HdrFirst \in Nat /\ FieldsMax \in Nat /\ MaxSlot \in Nat
      /\ HdrFirst <= FieldsMax /\ FieldsMax <= MaxSlot /\ received \in HdrFirst .. FieldsMax
      /\ arrived = received
  BY SMTT(60), FieldsAssumption DEF Init
<1>2. Sound(fields, arrived) /\ Proto(fields)
  BY SMTT(60), <1>1, ReceivedSound DEF Init
<1>3. entries = <<>> /\ entries \in Seq(GuestField) /\ Len(entries) = 0
  BY EmptyFacts DEF Init
<1>4. EntriesInv /\ IndicesInv
  BY SMTT(60), <1>3 DEF Init, EntriesInv, IndicesInv
<1>5. arrived \in HdrFirst .. MaxSlot /\ received <= arrived
  BY SMTT(60), <1>1
<1>6. {iterating, moved, rewritten, strayed, halted} \subseteq BOOLEAN
  BY DEF Init
<1>7. Rest
  BY <1>1, <1>3, <1>4, <1>5, <1>6 DEF Rest
<1> QED BY <1>2, <1>7, Parts

\* A call leaves the guest's entries alone.  It keeps all places, or says that
\* it has moved fields.
LEMMA CallIInv ==
    ASSUME IInv, UNCHANGED <<received, entries, iterating, rewritten>>,
           arrived' \in Nat, arrived <= arrived', arrived' <= MaxSlot,
           Sound(fields', arrived'), ~strayed' => Proto(fields'),
           {moved', strayed', halted'} \subseteq BOOLEAN,
           \/ moved' = iterating
           \/ /\ moved' = moved /\ Len(fields) <= Len(fields')
              /\ \A k \in 1 .. Len(fields) : fields'[k].slot = fields[k].slot
    PROVE  IInv'
<1>1. Rest /\ Sound(fields, arrived)
  BY Parts
<1>2. /\ HdrFirst \in Nat /\ FieldsMax \in Nat /\ MaxSlot \in Nat
      /\ received \in Nat /\ arrived \in Nat
  BY SMTT(60), <1>1, FieldsAssumption DEF Rest
<1>3. received' <= arrived' /\ arrived' \in HdrFirst .. MaxSlot
  BY SMTT(60), <1>1, <1>2 DEF Rest
<1>4. EntriesInv'
  <2>1. ~iterating => entries = <<>> /\ ~moved /\ ~rewritten
    BY <1>1 DEF Rest, EntriesInv
  <2>2. ~iterating' => entries' = <<>> /\ ~moved' /\ ~rewritten'
    BY <2>1
  <2> QED BY <1>1, <2>2 DEF Rest, EntriesInv
<1>5. IndicesInv'
  <2> SUFFICES ASSUME ~moved', ~rewritten, NEW k \in 1 .. Len(entries),
                      entries[k].index # HdrInvalid
               PROVE  /\ entries[k].index <= Len(fields')
                      /\ fields'[entries[k].index].slot = entries[k].slot
    BY DEF IndicesInv
  <2>1. CASE moved' = iterating
    <3>1. entries = <<>>
      BY <1>1, <2>1 DEF Rest, EntriesInv
    <3>2. Len(entries) = 0
      BY <3>1, EmptyFacts
    <3> QED BY SMTT(60), <3>2
  <2>2. CASE moved' # iterating
    <3>1. ~moved /\ Len(fields) <= Len(fields')
          /\ \A j \in 1 .. Len(fields) : fields'[j].slot = fields[j].slot
      BY SMTT(60), <2>2
    <3>2. entries[k].index <= Len(fields) /\ fields[entries[k].index].slot = entries[k].slot
      BY <1>1, <3>1 DEF Rest, IndicesInv
    <3>3. entries[k].index \in Nat \ {0}
      <4>1. entries[k] \in GuestField
        BY <1>1, SeqFacts DEF Rest
      <4> QED BY SMTT(60), <1>2, <4>1 DEF GuestField, HdrInvalid
    <3>4. Len(fields) \in Nat /\ Len(fields') \in Nat
      BY <1>1, SoundLen
    <3>5. entries[k].index \in 1 .. Len(fields)
      BY SMTT(60), <3>2, <3>3, <3>4
    <3> QED BY SMTT(60), <3>1, <3>2, <3>3, <3>4, <3>5
  <2> QED BY <2>1, <2>2
<1>6. Rest'
  BY <1>1, <1>3, <1>4, <1>5 DEF Rest
<1> QED BY <1>6, PartsNext

LEMMA CallFacts ==
    ASSUME IInv
    PROVE  /\ Sound(fields, arrived) /\ arrived \in Nat /\ arrived <= MaxSlot
           /\ MaxSlot \in Nat
           /\ {moved, iterating, rewritten, strayed, halted} \subseteq BOOLEAN
           /\ received \in HdrFirst .. FieldsMax /\ received <= arrived
           /\ ~strayed => Proto(fields)
           /\ entries \in Seq(GuestField) /\ (~rewritten => Spaced(entries))
           /\ ~iterating => entries = <<>> /\ ~moved
           /\ FieldsMax \in Nat /\ HdrFirst \in Nat \ {0} /\ Len(fields) \in Nat
<1>1. Sound(fields, arrived) /\ Rest /\ (~strayed => Proto(fields))
  BY Parts
<1>2. Len(fields) \in Nat
  BY <1>1, SoundLen
<1>3. ~rewritten => Spaced(entries)
  <2>1. \A k \in 1 .. Len(entries) : entries[k].index \in Nat
    <3>1. \A k \in 1 .. Len(entries) : entries[k] \in GuestField
      BY <1>1, SeqFacts DEF Rest
    <3> QED BY SMTT(60), <3>1, FieldsAssumption DEF GuestField, HdrInvalid
  <2> QED BY <1>1, <2>1, FieldsAssumption DEF Rest, EntriesInv, Spaced
<1> QED BY SMTT(60), <1>1, <1>2, <1>3, FieldsAssumption DEF Rest, EntriesInv

LEMMA StoredIInv ==
    ASSUME IInv, NEW b \in BOOLEAN, Stored(b),
           UNCHANGED <<received, entries, iterating, moved, rewritten, strayed, halted>>
    PROVE  IInv'
<1>1. /\ Sound(fields, arrived) /\ arrived \in Nat /\ arrived < MaxSlot /\ MaxSlot \in Nat
      /\ {moved, strayed, halted} \subseteq BOOLEAN /\ Len(fields) \in Nat
      /\ ~strayed => Proto(fields)
  BY CallFacts DEF Stored
<1>2. CASE HasRoom(fields)
  <2>1. arrived' = arrived + 1 /\ fields' = Append(fields, [slot |-> arrived + 1, blank |-> b])
    BY <1>2 DEF Stored
  <2>2. /\ Sound(fields', arrived') /\ Len(fields') = Len(fields) + 1
        /\ \A k \in 1 .. Len(fields) : fields'[k] = fields[k]
        /\ Proto(fields) => Proto(fields')
    BY SMTT(60), <1>1, <1>2, <2>1, AppendSound DEF HasRoom
  <2>3. arrived' \in Nat /\ arrived <= arrived' /\ arrived' <= MaxSlot
        /\ Len(fields) <= Len(fields')
    BY SMTT(60), <1>1, <2>1, <2>2
  <2> QED BY <1>1, <2>2, <2>3, CallIInv
<1>3. CASE ~HasRoom(fields)
  <2>1. fields' = fields /\ arrived' = arrived
    BY <1>3 DEF Stored
  <2>2. arrived' \in Nat /\ arrived <= arrived' /\ arrived' <= MaxSlot
        /\ Len(fields) <= Len(fields')
    BY SMTT(60), <1>1, <2>1
  <2> QED BY <1>1, <2>1, <2>2, CallIInv
<1> QED BY <1>2, <1>3

LEMMA SetIInv ==
    ASSUME IInv, NEW i \in 1 .. FieldsMax, NEW b \in BOOLEAN,
           HeaderFieldSet(i, b) \/ HeaderFieldCopy(i, b)
    PROVE  IInv'
<1>1. /\ Sound(fields, arrived) /\ arrived \in Nat /\ arrived <= MaxSlot
      /\ {moved, strayed, halted} \subseteq BOOLEAN /\ Len(fields) \in Nat
      /\ FieldsMax \in Nat /\ (~strayed => Proto(fields))
  BY CallFacts
<1>2. /\ i \in 1 .. Len(fields) /\ fields' = [fields EXCEPT ![i].blank = b]
      /\ UNCHANGED <<received, arrived, entries, iterating, moved, rewritten, strayed, halted>>
  BY SMTT(60), <1>1 DEF HeaderFieldSet, HeaderFieldCopy, IsValidIndex
<1>3. /\ Sound(fields', arrived') /\ Len(fields') = Len(fields)
      /\ \A k \in 1 .. Len(fields) : fields'[k].slot = fields[k].slot
      /\ Proto(fields) => Proto(fields')
  <2>1. PICK g : g = [fields EXCEPT ![i].blank = b]
    OBVIOUS
  <2>2. PICK x : x = [fields[i] EXCEPT !.blank = b]
    OBVIOUS
  <2>3. x \in Field /\ x.slot = fields[i].slot
    <3>1. fields[i] \in Field
      BY <1>1, <1>2, SoundLen
    <3> QED BY <3>1, <2>2 DEF Field
  <2>4. g = [k \in 1 .. Len(fields) |-> IF k = i THEN x ELSE fields[k]]
    <3>1. fields \in [1 .. Len(fields) -> Field]
      BY <1>1, SeqFacts DEF Sound
    <3> QED BY <3>1, <2>1, <2>2
  <2>5. /\ Sound(g, arrived) /\ Len(g) = Len(fields)
        /\ \A k \in 1 .. Len(fields) : g[k].slot = fields[k].slot
        /\ Proto(fields) => Proto(g)
    BY SMTT(60), <1>1, <1>2, <2>3, <2>4, SetSound
  <2> QED BY SMTT(60), <1>2, <2>1, <2>5
<1>4. arrived' \in Nat /\ arrived <= arrived' /\ Len(fields) <= Len(fields')
  BY SMTT(60), <1>1, <1>2, <1>3
<1> QED BY <1>1, <1>2, <1>3, <1>4, CallIInv

LEMMA UnsetIInv ==
    ASSUME IInv, NEW i \in 1 .. FieldsMax, HeaderFieldUnset(i) \/ HeaderFieldCopyInvalid(i)
    PROVE  IInv'
<1>1. /\ Sound(fields, arrived) /\ arrived \in Nat /\ arrived <= MaxSlot
      /\ {iterating, strayed} \subseteq BOOLEAN /\ Len(fields) \in Nat /\ FieldsMax \in Nat
      /\ (~strayed => Proto(fields)) /\ HdrFirst \in Nat
  BY CallFacts
<1>2. /\ HttpUnsetAt(i) /\ i \in 1 .. Len(fields)
      /\ UNCHANGED <<received, arrived, entries, iterating, rewritten>>
      /\ strayed' \in BOOLEAN /\ (~strayed' => ~strayed /\ i > HdrFirst)
  <2>1. CASE HeaderFieldUnset(i)
    BY SMTT(60), <1>1, <2>1 DEF HeaderFieldUnset, IsValidIndex
  <2>2. CASE HeaderFieldCopyInvalid(i)
    <3>1. HttpUnsetAt(i) /\ i <= Len(fields) /\ strayed' = (strayed \/ i <= HdrFirst)
          /\ UNCHANGED <<received, arrived, entries, iterating, rewritten>>
      BY <2>2 DEF HeaderFieldCopyInvalid, IsValidIndex
    <3>2. i \in 1 .. Len(fields) /\ (~(i <= HdrFirst) => i > HdrFirst)
      BY SMTT(60), <1>1, <3>1
    <3> QED BY <3>1, <3>2
  <2> QED BY <2>1, <2>2
<1>3. moved' = iterating /\ halted' \in BOOLEAN
  <2>1. i \in Int /\ fields \in Seq(Field)
    BY SMTT(60), <1>1 DEF Sound
  <2>2. Fatal(fields, i) \in BOOLEAN
    BY <2>1, FatalIs
  <2> QED BY <1>2, <2>2 DEF HttpUnsetAt
<1>4. Sound(fields', arrived') /\ (~strayed' => Proto(fields'))
  <2>1. fields' = fields \/ fields' = Closed(fields, i)
    BY <1>2 DEF HttpUnsetAt
  <2>2. CASE fields' = Closed(fields, i)
    BY <1>1, <1>2, <2>2, ClosedSound
  <2>3. CASE fields' = fields
    BY <1>1, <1>2, <2>3
  <2> QED BY <2>1, <2>2, <2>3
<1>5. arrived' \in Nat /\ arrived <= arrived'
  BY SMTT(60), <1>1, <1>2
<1> QED BY <1>1, <1>2, <1>3, <1>4, <1>5, CallIInv

LEMMA UnsetReIInv ==
    ASSUME IInv, NEW M, HttpUnsetRe(M)
    PROVE  IInv'
<1>1. /\ Sound(fields, arrived) /\ arrived \in Nat /\ arrived <= MaxSlot
      /\ {iterating, moved, strayed, halted} \subseteq BOOLEAN /\ Len(fields) \in Nat
      /\ (~iterating => ~moved) /\ (~strayed => Proto(fields))
  BY CallFacts
<1>2. /\ fields' = UnsetRe(fields, M) /\ moved' = (iterating /\ (moved \/ fields' # fields))
      /\ UNCHANGED <<received, arrived, entries, iterating, rewritten, strayed, halted>>
  BY DEF HttpUnsetRe
<1>3. Sound(fields', arrived') /\ (~strayed' => Proto(fields'))
  BY <1>1, <1>2, UnsetReSound
<1>4. {moved', strayed', halted'} \subseteq BOOLEAN
  BY <1>1, <1>2
<1>5. arrived' \in Nat /\ arrived <= arrived' /\ arrived' <= MaxSlot /\ Len(fields) <= Len(fields)
  BY SMTT(60), <1>1, <1>2
<1>6. CASE fields' = fields
  <2>1. moved' = moved
    BY <1>1, <1>2, <1>6
  <2> QED BY <1>2, <1>3, <1>4, <1>5, <1>6, <2>1, CallIInv
<1>7. CASE fields' # fields
  <2>1. moved' = iterating
    BY <1>1, <1>2, <1>7
  <2> QED BY <1>2, <1>3, <1>4, <1>5, <2>1, CallIInv
<1> QED BY <1>6, <1>7

LEMMA RollbackIInv ==
    ASSUME IInv, HttpRollback
    PROVE  IInv'
<1>1. /\ arrived \in Nat /\ arrived <= MaxSlot /\ {iterating, halted} \subseteq BOOLEAN
      /\ received \in HdrFirst .. FieldsMax /\ received <= arrived
  BY CallFacts
<1>2. /\ fields' = Received(received) /\ moved' = iterating /\ strayed' = FALSE
      /\ UNCHANGED <<received, arrived, entries, iterating, rewritten, halted>>
  BY DEF HttpRollback
<1>3. Sound(fields', arrived') /\ Proto(fields')
  BY <1>1, <1>2, ReceivedSound
<1>4. arrived' \in Nat /\ arrived <= arrived' /\ arrived' <= MaxSlot
  BY SMTT(60), <1>1, <1>2
<1> QED BY <1>1, <1>2, <1>3, <1>4, CallIInv

LEMMA ForeachBeginIInv ==
    ASSUME IInv, ForeachBegin
    PROVE  IInv'
<1>1. Rest /\ Sound(fields, arrived) /\ (~strayed => Proto(fields))
  BY Parts
<1>2. /\ entries' = Listed(fields) /\ iterating' = TRUE
      /\ UNCHANGED <<fields, received, arrived, moved, rewritten, strayed, halted>>
  BY DEF ForeachBegin
<1>3. ListDone(entries', fields, Len(fields))
  BY <1>1, <1>2, ListedIs DEF Sound
<1>4. entries' \in Seq(GuestField)
  BY <1>3 DEF ListDone
<1>5. \A k \in 1 .. Len(entries') : entries'[k].index \in Nat
  <2>1. \A k \in 1 .. Len(entries') : entries'[k] \in GuestField
    BY <1>4, SeqFacts
  <2> QED BY SMTT(60), <2>1, FieldsAssumption DEF GuestField, HdrInvalid
<1>6. EntriesInv'
  BY <1>2, <1>3, <1>5, FieldsAssumption DEF ListDone, EntriesInv
<1>7. IndicesInv'
  BY <1>2, <1>3 DEF ListDone, IndicesInv
<1>8. Rest'
  BY <1>1, <1>2, <1>4, <1>6, <1>7 DEF Rest
<1> QED BY <1>1, <1>2, <1>8, PartsNext

LEMMA ForeachEndIInv ==
    ASSUME IInv, ForeachEnd
    PROVE  IInv'
<1>1. Rest /\ Sound(fields, arrived) /\ (~strayed => Proto(fields))
  BY Parts
<1>2. /\ fields' = Removals(fields, entries).fields
      /\ halted' = Removals(fields, entries).fatal
      /\ strayed' = (strayed \/ rewritten)
      /\ entries' = <<>> /\ iterating' = FALSE /\ moved' = FALSE /\ rewritten' = FALSE
      /\ UNCHANGED <<received, arrived>>
  BY DEF ForeachEnd
<1>3. arrived \in Nat /\ entries \in Seq(GuestField) /\ (~rewritten => Spaced(entries))
  BY CallFacts
<1>4. Sound(fields', arrived') /\ halted' \in BOOLEAN
  BY <1>1, <1>2, <1>3, RemovalsSound
<1>5. ~strayed' => Proto(fields')
  BY <1>1, <1>2, <1>3, RemovalsSound
<1>6. entries' \in Seq(GuestField) /\ Len(entries') = 0
  BY <1>2, EmptyFacts
<1>7. EntriesInv' /\ IndicesInv'
  BY SMTT(60), <1>2, <1>6 DEF EntriesInv, IndicesInv
<1>8. {iterating', moved', rewritten', strayed', halted'} \subseteq BOOLEAN
  BY <1>1, <1>2, <1>4 DEF Rest
<1>9. Rest'
  BY <1>1, <1>2, <1>6, <1>7, <1>8 DEF Rest
<1> QED BY <1>4, <1>5, <1>9, PartsNext

\* The guest marks entry k: it keeps its index, gives it up, or says that it has
\* written another one.
LEMMA MarkIInv ==
    ASSUME IInv, NEW k \in 1 .. Len(entries),
           ApiUnset(k) \/ \E i \in 1 .. FieldsMax : GuestFlags(k, i)
    PROVE  IInv'
<1>1. /\ Rest /\ Sound(fields, arrived) /\ (~strayed => Proto(fields))
      /\ ~rewritten => Spaced(entries)
  BY Parts, CallFacts
<1> DEFINE Writes(i) ==
       /\ UNCHANGED <<fields, received, arrived, iterating, moved, strayed, halted>>
       /\ iterating
       /\ entries' = [entries EXCEPT ![k].deleted = TRUE, ![k].index = i]
       /\ rewritten' \in BOOLEAN
       /\ ~rewritten' => ~rewritten /\ (i = entries[k].index \/ i = HdrInvalid)
<1>2. PICK i \in 1 .. HdrInvalid : Writes(i)
  <2>1. rewritten \in BOOLEAN
    BY <1>1 DEF Rest
  <2>2. CASE ApiUnset(k)
    <3>1. HdrInvalid \in 1 .. HdrInvalid
      BY SMTT(60), FieldsAssumption DEF HdrInvalid
    <3>2. Writes(HdrInvalid)
      BY <2>1, <2>2 DEF ApiUnset
    <3> QED BY <3>1, <3>2
  <2>3. CASE \E i \in 1 .. FieldsMax : GuestFlags(k, i)
    <3>1. PICK i \in 1 .. FieldsMax : GuestFlags(k, i)
      BY <2>3
    <3>2. i \in 1 .. HdrInvalid
      BY SMTT(60), FieldsAssumption DEF HdrInvalid
    <3>3. Writes(i)
      BY <2>1, <3>1 DEF GuestFlags
    <3> QED BY <3>2, <3>3
  <2> QED BY <2>2, <2>3
<1>3. entries \in [1 .. Len(entries) -> GuestField] /\ Len(entries) \in Nat
  BY <1>1, SeqFacts DEF Rest
<1>4. \A j \in 1 .. Len(entries) :
        entries[j] \in GuestField /\ entries[j].index \in 1 .. HdrInvalid
  BY <1>3 DEF GuestField
<1>5. HdrInvalid \in Nat /\ HdrFirst \in Nat
  BY SMTT(60), FieldsAssumption DEF HdrInvalid
<1>6. PICK x \in GuestField :
        /\ x.slot = entries[k].slot /\ x.index = i
        /\ entries' = [j \in 1 .. Len(entries) |-> IF j = k THEN x ELSE entries[j]]
  <2>1. PICK x : x = [entries[k] EXCEPT !.deleted = TRUE, !.index = i]
    OBVIOUS
  <2>2. x \in GuestField /\ x.slot = entries[k].slot /\ x.index = i
    BY <1>4, <2>1 DEF GuestField
  <2>3. entries' = [j \in 1 .. Len(entries) |-> IF j = k THEN x ELSE entries[j]]
    BY <1>2, <1>3, <2>1
  <2> QED BY <2>2, <2>3
<1>7. entries' \in Seq(GuestField) /\ Len(entries') = Len(entries)
  <2>1. entries' \in [1 .. Len(entries) -> GuestField]
    BY <1>4, <1>6
  <2> QED BY <1>3, <2>1, MakesSeq, SeqFacts
<1>8. ~rewritten' =>
        \A j \in 1 .. Len(entries) :
          /\ entries'[j].slot = entries[j].slot
          /\ entries'[j].index = entries[j].index \/ entries'[j].index = HdrInvalid
          /\ entries'[j].index >= entries[j].index
  <2> SUFFICES ASSUME ~rewritten', NEW j \in 1 .. Len(entries)
               PROVE  /\ entries'[j].slot = entries[j].slot
                      /\ entries'[j].index = entries[j].index \/ entries'[j].index = HdrInvalid
                      /\ entries'[j].index >= entries[j].index
    OBVIOUS
  <2>1. /\ entries'[j].slot = entries[j].slot
        /\ entries'[j].index = entries[j].index \/ entries'[j].index = HdrInvalid
    BY <1>2, <1>6
  <2> QED BY SMTT(60), <1>4, <1>5, <2>1
<1>9. EntriesInv'
  <2>1. ASSUME ~rewritten', NEW j \in 1 .. Len(entries)
        PROVE  entries'[j].index >= HdrFirst + j
    <3>1. /\ HdrFirst + j <= entries[j].index /\ entries[j].index \in Nat
          /\ entries'[j].index = entries[j].index \/ entries'[j].index = HdrInvalid
          /\ entries'[j].index >= entries[j].index
      <4>1. Spaced(entries)
        BY <1>1, <1>2, <2>1
      <4> QED BY SMTT(60), <1>4, <1>5, <1>8, <2>1, <4>1 DEF Spaced
    <3> QED BY SMTT(60), <3>1, <1>3, <1>5
  <2>2. ASSUME ~rewritten', NEW h \in 1 .. Len(entries), NEW j \in 1 .. Len(entries),
               h < j, entries'[h].index # HdrInvalid
        PROVE  entries'[h].index < entries'[j].index
    <3>1. entries'[h].index = entries[h].index
      BY <1>8, <2>2
    <3>2. entries[h].index < entries[j].index
      BY <1>1, <1>2, <2>2, <3>1 DEF Rest, EntriesInv
    <3>3. entries'[j].index = entries[j].index \/ entries'[j].index = HdrInvalid
      BY <1>8, <2>2
    <3> QED BY SMTT(60), <1>4, <1>5, <2>2, <3>1, <3>2, <3>3
  <2> QED BY <1>2, <1>7, <2>1, <2>2 DEF EntriesInv
<1>10. IndicesInv'
  BY <1>1, <1>2, <1>7, <1>8 DEF Rest, IndicesInv
<1>11. Rest'
  BY <1>1, <1>2, <1>7, <1>9, <1>10 DEF Rest
<1> QED BY <1>1, <1>2, <1>11, PartsNext

LEMMA NextIInv == IInv /\ [Next]_vars => IInv'
<1> SUFFICES ASSUME IInv, [Next]_vars PROVE IInv'
  OBVIOUS
<1>1. ASSUME NEW b \in BOOLEAN, HeaderFieldAppend(b) PROVE IInv'
  BY <1>1, StoredIInv DEF HeaderFieldAppend
<1>2. ASSUME NEW i \in 1 .. FieldsMax, HttpCopyFrom(i) PROVE IInv'
  <2>1. Sound(fields, arrived) /\ i \in 1 .. Len(fields)
    BY SMTT(60), <1>2, CallFacts DEF HttpCopyFrom, IsValidIndex
  <2>2. fields[i].blank \in BOOLEAN
    BY <2>1, SoundLen
  <2> QED BY <1>2, <2>2, StoredIInv DEF HttpCopyFrom
<1>3. ASSUME NEW i \in 1 .. FieldsMax, HeaderFieldUnset(i) \/ HeaderFieldCopyInvalid(i)
      PROVE  IInv'
  BY <1>3, UnsetIInv
<1>4. ASSUME NEW i \in 1 .. FieldsMax, NEW b \in BOOLEAN,
             HeaderFieldSet(i, b) \/ HeaderFieldCopy(i, b)
      PROVE  IInv'
  BY <1>4, SetIInv
<1>5. ASSUME NEW M, HttpUnsetRe(M) PROVE IInv'
  BY <1>5, UnsetReIInv
<1>6. CASE HttpRollback
  BY <1>6, RollbackIInv
<1>7. CASE ForeachBegin
  BY <1>7, ForeachBeginIInv
<1>8. CASE ForeachEnd
  BY <1>8, ForeachEndIInv
<1>9. ASSUME NEW k \in 1 .. Len(entries),
             ApiUnset(k) \/ \E i \in 1 .. FieldsMax : GuestFlags(k, i)
      PROVE  IInv'
  BY <1>9, MarkIInv
<1>10. CASE UNCHANGED vars
  BY SMTT(60), <1>10 DEF vars, IInv, TypeOK, FieldsInv, ProtoKept, ProtoInPlace,
               OrderKept, SlotsInv, EntriesInv, IndicesInv, InOrder
<1> QED BY <1>1, <1>2, <1>3, <1>4, <1>5, <1>6, <1>7, <1>8, <1>9, <1>10 DEF Next

\* The inductive invariant FieldsInv, with the types, holds in all behaviours: the
\* bookkeeping of the system calls on header fields (script_functions.cpp).
THEOREM Bookkeeping == Spec => []IInv
<1>1. Init => IInv
  BY InitIInv
<1>2. IInv /\ [Next]_vars => IInv'
  BY NextIInv
<1> QED BY <1>1, <1>2, PTL DEF Spec

-----------------------------------------------------------------------------
(* The theorems.                                                           *)

\* The array of fields is never overrun, by an append or by a copy, and every
\* value keeps its type: for any fields_max (script_functions.cpp:638).
THEOREM TypeCorrect == Spec => []TypeOK
<1>1. IInv => TypeOK
  BY DEF IInv
<1> QED BY <1>1, Bookkeeping, PTL

\* No proto field is removed or moved by any sequence of calls, nor by a foreach
\* whose indices are stale, whether the build has assertions or not, unless the
\* guest names one to header_field_copy or gives foreach indices of its own
\* (script_functions.cpp:865).
THEOREM ProtoFieldsStay == Spec => []ProtoKept
<1>1. IInv => ProtoKept
  BY DEF IInv, FieldsInv
<1> QED BY <1>1, Bookkeeping, PTL

\* The memmove of http_unsetat preserves the order in which fields have arrived,
\* whichever call it serves (script_functions.cpp:115).
THEOREM OrderStays == Spec => []OrderKept
<1>1. IInv => OrderKept
  BY DEF IInv, FieldsInv
<1> QED BY <1>1, Bookkeeping, PTL

\* http_unset_re, which removes while it iterates, removes exactly the matching
\* fields from HDR_FIRST on: for any fields and any set of matches.
THEOREM UnsetReIsExact == Spec => []UnsetReExact
<1>1. IInv => UnsetReExact
  <2> SUFFICES ASSUME IInv, NEW M
               PROVE  /\ InOrder(UnsetRe(fields, M))
                      /\ Vals(UnsetRe(fields, M)) =
                           {fields[i] : i \in {j \in 1 .. Len(fields) :
                              fields[j].slot \notin M \/ j <= HdrFirst}}
    BY DEF UnsetReExact, Vals
  <2>1. fields \in Seq(Field) /\ InOrder(fields)
    BY CallFacts DEF Sound
  <2>2. ReDone(UnsetRe(fields, M), fields, ReCount(fields), M)
    BY <2>1, UnsetReDone
  <2>3. \A j \in 1 .. Len(fields) :
          (j <= Len(fields) - ReCount(fields)) <=> (j <= HdrFirst)
    BY <2>1, ReCountIs
  <2>4. Kept(fields, ReCount(fields), M) =
          {fields[i] : i \in {j \in 1 .. Len(fields) :
             fields[j].slot \notin M \/ j <= HdrFirst}}
    BY <2>3 DEF Kept
  <2> QED BY <2>2, <2>4 DEF ReDone
<1> QED BY <1>1, Bookkeeping, PTL

\* Only the end of a foreach ends an iteration.
LEMMA EndsForeach ==
    ASSUME Next, iterating, ~iterating'
    PROVE  ForeachEnd
BY DEF Next, HeaderFieldAppend, HttpCopyFrom, HeaderFieldUnset, HeaderFieldCopyInvalid,
       HeaderFieldSet, HeaderFieldCopy, HttpUnsetRe, HttpRollback, ForeachBegin,
       GuestFlags, ApiUnset

\* The removals after a callback that left the indices alone meet the assertions of
\* http_unsetat whatever it has done to the fields, though the indices were written
\* before it: they grow, and at most k - 1 removals precede the one of entry k.  So
\* a build without assertions does what one with assertions does.
THEOREM NoFailedAssertion == Spec => ForeachMeetsAssertions
<1>1. IInv /\ [Next]_vars =>
        [iterating /\ ~iterating' /\ ~rewritten => Removals(fields, entries).ok]_vars
  <2> SUFFICES ASSUME IInv, ~rewritten PROVE Removals(fields, entries).ok = TRUE
    OBVIOUS
  <2>1. /\ Sound(fields, arrived) /\ arrived \in Nat
        /\ entries \in Seq(GuestField) /\ Spaced(entries)
    BY CallFacts
  <2> QED BY <2>1, RemovalsSound
<1> QED BY <1>1, Bookkeeping, PTL DEF Spec, ForeachMeetsAssertions

\* Each index is corrected for the removals before it (script_functions.cpp:582):
\* when no call of the callback has moved fields, and it left the indices alone, a
\* foreach removes no field that the callback did not mark.
THEOREM OnlyMarkedGo == Spec => ForeachOnlyMarked
<1>1. IInv /\ [Next]_vars =>
        [iterating /\ ~iterating' /\ ~moved /\ ~rewritten =>
           Slots(fields) \ Slots(fields') \subseteq Marked]_vars
  <2> SUFFICES ASSUME IInv, Next, iterating, ~iterating', ~moved, ~rewritten,
                      NEW s \in Slots(fields), s \notin Slots(fields')
               PROVE  s \in Marked
    OBVIOUS
  <2>1. PICK t : t = Removals(fields, entries)
    OBVIOUS
  <2>2. fields' = t.fields
    BY <2>1, EndsForeach DEF ForeachEnd
  <2>3. /\ Sound(fields, arrived) /\ entries \in Seq(GuestField) /\ Spaced(entries)
    BY CallFacts
  <2>4. Exact(entries, fields)
    BY DEF IInv, FieldsInv, EntriesInv, IndicesInv, Exact
  <2>5. RMarked(t, fields, entries, Len(entries))
    BY <2>1, <2>3, <2>4, RemovalsDone DEF Sound
  <2>6. PICK i \in 1 .. Len(fields) : fields[i].slot = s
    BY DEF Slots
  <2>7. fields[i] \in Vals(fields) \ Vals(t.fields)
    BY <2>2, <2>6 DEF Vals, Slots
  <2>8. PICK k \in 1 .. Len(entries) : entries[k].deleted /\ s = entries[k].slot
    BY <2>5, <2>6, <2>7 DEF RMarked
  <2> QED BY <2>8 DEF Marked
<1> QED BY <1>1, Bookkeeping, PTL DEF Spec, ForeachOnlyMarked
==============================================================================
