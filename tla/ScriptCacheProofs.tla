-------------------------- MODULE ScriptCacheProofs --------------------------
(***************************************************************************)
(* Proofs about ScriptCache: no regex is freed while a machine can still   *)
(* match with it, each one is freed by the one machine that owns it, and   *)
(* handles lead where the guest expects, for any number of programs,       *)
(* forks, patterns and entries.                                            *)
(*                                                                         *)
(* What loan_from returns is shown by induction over its loop.  The        *)
(* provers have no induction, but the naturals are well ordered (lemma     *)
(* Least): a loop that goes wrong has a first round that goes wrong.       *)
(***************************************************************************)
EXTENDS ScriptCache, TLAPS, WellFoundedInduction

\* A leaf is left to Zenon, unless it names another prover.
USE ZenonT(60)

-----------------------------------------------------------------------------
(* Sequences.                                                              *)

LEMMA SeqFacts ==
    ASSUME NEW S, NEW s \in Seq(S)
    PROVE  /\ Len(s) \in Nat /\ s \in [1 .. Len(s) -> S] /\ DOMAIN s = 1 .. Len(s)
           /\ \A i \in 1 .. Len(s) : s[i] \in S
BY SMTT(60)

LEMMA EmptyFacts ==
    ASSUME NEW S
    PROVE  /\ <<>> \in Seq(S) /\ Len(<<>>) = 0
           /\ \A s \in Seq(S) : Len(s) = 0 => s = <<>>
BY SMTT(60)

LEMMA AppendFacts ==
    ASSUME NEW S, NEW s \in Seq(S), NEW x \in S
    PROVE  /\ Append(s, x) \in Seq(S) /\ Len(Append(s, x)) = Len(s) + 1
           /\ Append(s, x)[Len(s) + 1] = x
           /\ \A i \in 1 .. Len(s) : Append(s, x)[i] = s[i]
BY SMTT(60)

LEMMA ExceptFacts ==
    ASSUME NEW S, NEW s \in Seq(S), NEW i \in 1 .. Len(s), NEW x \in S
    PROVE  /\ [s EXCEPT ![i] = x] \in Seq(S) /\ Len([s EXCEPT ![i] = x]) = Len(s)
           /\ [s EXCEPT ![i] = x][i] = x
           /\ \A k \in 1 .. Len(s) : k # i => [s EXCEPT ![i] = x][k] = s[k]
BY SMTT(60)

-----------------------------------------------------------------------------
(* loan_from.                                                              *)

LEMMA Least ==
    ASSUME NEW T, T \subseteq Nat, T # {}
    PROVE  \E x \in T : \A y \in T : x <= y
<1>1. IsWellFoundedOn(OpToRel(<, Nat), Nat)
  BY NatLessThanWellFounded
<1>2. PICK x \in T : \A y \in T : ~(<<y, x>> \in OpToRel(<, Nat))
  BY <1>1, WFMin
<1>3. ASSUME NEW y \in T PROVE x <= y
  <2>1. ~(y < x)
    BY <1>2 DEF OpToRel
  <2> QED BY <2>1, SMT
<1> QED BY <1>3

\* What the loop has appended after i rounds; g is the function of the loop up
\* to round n.
Round(g, c, i) ==
    IF i = 0 THEN <<>>
    ELSE IF InUse(c[i]) THEN Append(g[i - 1], Loan(c[i]))
    ELSE g[i - 1]
Loop(g, c, n) == g = [i \in 0 .. n |-> Round(g, c, i)]

LEMMA LoopExists ==
    ASSUME NEW c, NEW n \in Nat
    PROVE  \E g : Loop(g, c, n)
<1> DEFINE Bad == {k \in Nat : ~\E g : Loop(g, c, k)}
<1> SUFFICES ASSUME Bad # {} PROVE FALSE
  OBVIOUS
<1>1. PICK k \in Bad : \A j \in Bad : k <= j
  BY Least
<1>2. k # 0
  <2>1. Loop([i \in 0 .. 0 |-> <<>>], c, 0)
    BY SMTT(60) DEF Loop, Round
  <2> QED BY <2>1
<1>3. k - 1 \in Nat /\ k - 1 \notin Bad
  BY SMTT(60), <1>1, <1>2
<1>4. PICK g : Loop(g, c, k - 1)
  BY <1>3
<1> DEFINE h == [i \in 0 .. k |-> IF i < k THEN g[i] ELSE Round(g, c, k)]
<1>5. k \in Nat /\ k # 0
  BY <1>2
<1>6. \A i \in 0 .. k - 1 : h[i] = g[i]
  BY SMTT(60), <1>5
<1>7. \A i \in 0 .. k : Round(h, c, i) = Round(g, c, i)
  BY SMTT(60), <1>5, <1>6 DEF Round
<1>8. \A i \in 0 .. k : h[i] = Round(g, c, i)
  BY SMTT(60), <1>4, <1>5 DEF Loop
<1>9. Loop(h, c, k)
  BY <1>7, <1>8 DEF Loop
<1> QED BY <1>9

LEMMA LoanFromLoop ==
    ASSUME NEW c \in Seq(Entry)
    PROVE  \E g : Loop(g, c, Len(c)) /\ LoanFrom(c) = g[Len(c)]
<1>1. Len(c) \in Nat
  BY SeqFacts
<1>2. \E g : Loop(g, c, Len(c))
  BY <1>1, LoopExists
<1> QED BY <1>2 DEF LoanFrom, Loop, Round

\* d holds the entries in use of the first i of c, borrowed.
Borrowed(d, c, i) ==
    /\ d \in Seq(Entry) /\ Len(d) <= i
    /\ \A k \in 1 .. Len(d) : \E j \in 1 .. i : InUse(c[j]) /\ d[k] = Loan(c[j])
    /\ (\A j \in 1 .. i : InUse(c[j])) => Len(d) = i /\ \A j \in 1 .. i : d[j] = Loan(c[j])

LEMMA LoanEntry ==
    ASSUME NEW e \in Entry
    PROVE  Loan(e) \in Entry /\ Loan(e).item = e.item /\ Loan(e).hash = e.hash
           /\ Loan(e).non_owned
BY DEF Entry, Loan

LEMMA OneLoan ==
    ASSUME NEW c \in Seq(Entry), NEW i \in 1 .. Len(c), NEW d, Borrowed(d, c, i - 1)
    PROVE  IF InUse(c[i]) THEN Borrowed(Append(d, Loan(c[i])), c, i) ELSE Borrowed(d, c, i)
<1>1. c[i] \in Entry /\ i \in Nat /\ i # 0
  BY SMTT(60), SeqFacts
<1>2. d \in Seq(Entry) /\ Len(d) \in Nat /\ Len(d) <= i - 1
  BY SeqFacts DEF Borrowed
<1>3. CASE InUse(c[i])
  <2> DEFINE a == Append(d, Loan(c[i]))
  <2>1. /\ a \in Seq(Entry) /\ Len(a) = Len(d) + 1 /\ a[Len(d) + 1] = Loan(c[i])
        /\ \A k \in 1 .. Len(d) : a[k] = d[k]
    BY SMTT(60), <1>1, <1>2, LoanEntry, AppendFacts
  <2> HIDE DEF a
  <2>2. \A k \in 1 .. Len(a) : \E j \in 1 .. i : InUse(c[j]) /\ a[k] = Loan(c[j])
    <3> SUFFICES ASSUME NEW k \in 1 .. Len(a)
                 PROVE  \E j \in 1 .. i : InUse(c[j]) /\ a[k] = Loan(c[j])
      OBVIOUS
    <3>1. CASE k = Len(d) + 1
      BY SMTT(60), <3>1, <2>1, <1>1, <1>3
    <3>2. CASE k \in 1 .. Len(d)
      <4>1. PICK j \in 1 .. i - 1 : InUse(c[j]) /\ d[k] = Loan(c[j])
        BY <3>2 DEF Borrowed
      <4> QED BY SMTT(60), <4>1, <3>2, <2>1, <1>1
    <3> QED BY SMTT(60), <3>1, <3>2, <2>1, <1>2
  <2>3. ASSUME \A j \in 1 .. i : InUse(c[j])
        PROVE  Len(a) = i /\ \A j \in 1 .. i : a[j] = Loan(c[j])
    <3>1. \A j \in 1 .. i - 1 : InUse(c[j])
      BY SMTT(60), <2>3, <1>1
    <3>2. Len(d) = i - 1 /\ \A j \in 1 .. i - 1 : d[j] = Loan(c[j])
      BY <3>1 DEF Borrowed
    <3> QED BY SMTT(60), <3>2, <2>1, <1>1
  <2>4. Borrowed(a, c, i)
    BY SMTT(60), <2>1, <2>2, <2>3, <1>1, <1>2 DEF Borrowed
  <2> QED BY <2>4, <1>3 DEF a
<1>4. CASE ~InUse(c[i])
  <2>1. \A k \in 1 .. Len(d) : \E j \in 1 .. i : InUse(c[j]) /\ d[k] = Loan(c[j])
    <3> SUFFICES ASSUME NEW k \in 1 .. Len(d)
                 PROVE  \E j \in 1 .. i : InUse(c[j]) /\ d[k] = Loan(c[j])
      OBVIOUS
    <3>1. PICK j \in 1 .. i - 1 : InUse(c[j]) /\ d[k] = Loan(c[j])
      BY DEF Borrowed
    <3> QED BY SMTT(60), <3>1, <1>1
  <2>2. ~\A j \in 1 .. i : InUse(c[j])
    BY SMTT(60), <1>1, <1>4
  <2> QED BY SMTT(60), <2>1, <2>2, <1>1, <1>2, <1>4 DEF Borrowed
<1> QED BY <1>3, <1>4

\* What loan_from gives to a fork: only entries in use, each as it is in the
\* source but borrowed, no more than there are, and all in their places when
\* the source has no gaps.
LEMMA LoanFromGives ==
    ASSUME NEW c \in Seq(Entry)
    PROVE  Borrowed(LoanFrom(c), c, Len(c))
<1>0. Len(c) \in Nat
  BY SeqFacts
<1>1. PICK g : Loop(g, c, Len(c)) /\ LoanFrom(c) = g[Len(c)]
  BY LoanFromLoop
<1>2. \A i \in 0 .. Len(c) : g[i] = Round(g, c, i)
  BY <1>1 DEF Loop
<1> DEFINE Bad == {k \in 0 .. Len(c) : ~Borrowed(g[k], c, k)}
<1>3. Bad = {}
  <2> SUFFICES ASSUME Bad # {} PROVE FALSE
    OBVIOUS
  <2>1. Bad \subseteq Nat
    BY SMTT(60), <1>0
  <2>2. PICK k \in Bad : \A j \in Bad : k <= j
    BY <2>1, Least
  <2>3. k # 0
    <3>1. g[0] = <<>>
      BY SMTT(60), <1>0, <1>2 DEF Round
    <3>2. Borrowed(<<>>, c, 0)
      BY SMTT(60), EmptyFacts DEF Borrowed
    <3> QED BY <3>1, <3>2
  <2>4. k \in 1 .. Len(c) /\ k - 1 \in 0 .. Len(c) /\ ~(k <= k - 1)
    BY SMTT(60), <2>3, <1>0
  <2>5. k - 1 \notin Bad
    BY <2>2, <2>4
  <2>6. Borrowed(g[k - 1], c, k - 1)
    BY <2>4, <2>5
  <2>7. Borrowed(g[k], c, k)
    BY SMTT(60), <2>4, <2>6, <1>2, OneLoan DEF Round
  <2> QED BY <2>7
<1>4. Len(c) \notin Bad /\ Len(c) \in 0 .. Len(c)
  BY SMTT(60), <1>0, <1>3
<1> QED BY <1>1, <1>4

-----------------------------------------------------------------------------
(* The inductive invariant.                                                *)

IInv == TypeOK /\ OwnershipInv

LEMMA CacheFacts ==
    ASSUME IInv, NEW s \in Scripts
    PROVE  /\ cache[s] \in Seq(Entry) /\ Len(cache[s]) \in 0 .. MaxEntries
           /\ \A i \in 1 .. Len(cache[s]) : cache[s][i] \in Entry
           /\ Len(compiled) \in 0 .. MaxRegex /\ compiled \in Seq(Nat)
<1>1. cache[s] \in Seq(Entry) /\ compiled \in Seq(Nat)
  BY DEF IInv, OwnershipInv
<1>2. Len(cache[s]) \in Nat /\ Len(compiled) \in Nat
  BY <1>1, SeqFacts
<1> QED BY SMTT(60), <1>1, <1>2, CacheAssumption DEF IInv, TypeOK

\* find returns a place.
LEMMA FirstIs ==
    ASSUME NEW places, places \subseteq Nat, places # {}
    PROVE  First(places) \in places
<1>1. \E i \in places : \A j \in places : i <= j
  BY Least
<1> QED BY <1>1 DEF First

LEMMA Disjoint ==
    /\ \A m \in Masters : m \in Scripts /\ m \notin Tasks
    /\ \A t \in Tasks : t \in Scripts /\ t \notin Masters
BY CacheAssumption DEF Scripts

LEMMA RememberType ==
    ASSUME NEW s \in Scripts, NEW p \in Patterns, NEW i \in 1 .. MaxEntries,
           handles \in [Scripts -> SUBSET Handle], Remember(s, Hash[p], i)
    PROVE  handles' \in [Scripts -> SUBSET Handle]
<1>1. [hash |-> Hash[p], place |-> i, own |-> TRUE] \in Handle
  BY CacheAssumption DEF Handle
<1> QED BY <1>1 DEF Remember

LEMMA InitIInv ==
    ASSUME Init
    PROVE  IInv
<1> USE DEF Init
<1>0. <<>> \in Seq(Entry) /\ <<>> \in Seq(Nat) /\ Len(<<>>) = 0
  BY EmptyFacts
<1>1. \A s \in Scripts : cache[s] = <<>> /\ state[s] = "none" /\ handles[s] = {}
  OBVIOUS
<1>2. \A t \in Tasks : t \in Scripts
  BY Disjoint
<1>3. \A m \in Masters : m \in Scripts
  BY Disjoint
<1>4. TypeOK
  BY SMTT(60), <1>0, <1>1, CacheAssumption DEF TypeOK
<1>5. /\ cache \in [Scripts -> Seq(Entry)] /\ compiled \in Seq(Nat)
      /\ freed \subseteq 1 .. Len(compiled)
  BY <1>0
<1>6. EntriesInv /\ MachinesInv /\ MastersInv
  BY SMTT(60), <1>0, <1>1, <1>2, <1>3 DEF EntriesInv, MachinesInv, MastersInv
<1>7. LoansInv /\ RegexAlive /\ FreedOnce
  BY SMTT(60), <1>0, <1>1, <1>2, <1>3 DEF LoansInv, RegexAlive, FreedOnce
<1> QED BY <1>4, <1>5, <1>6, <1>7 DEF IInv, OwnershipInv

LEMMA CompileKnownIInv ==
    ASSUME IInv, NEW s \in Scripts, NEW p \in Patterns, CompileKnown(s, p)
    PROVE  IInv'
<1> USE DEF CompileKnown, Remember
<1>1. First(Find(cache[s], Hash[p])) \in 1 .. MaxEntries
  <2>1. Find(cache[s], Hash[p]) \subseteq 1 .. MaxEntries
    BY SMTT(60), CacheFacts, CacheAssumption DEF Find
  <2> QED BY SMTT(60), <2>1, FirstIs
<1>2. TypeOK'
  <2>1. handles' \in [Scripts -> SUBSET Handle]
    BY <1>1, RememberType DEF IInv, TypeOK
  <2> QED BY <2>1 DEF IInv, TypeOK
<1>3. state[s] # "none"
  BY DEF Running
<1>4. MachinesInv' /\ MastersInv'
  BY SMTT(60), <1>3, Disjoint DEF IInv, TypeOK, OwnershipInv, MachinesInv, MastersInv
<1>5. EntriesInv' /\ LoansInv' /\ RegexAlive' /\ FreedOnce'
  BY SMTT(60) DEF IInv, OwnershipInv, EntriesInv, EntryInv, LoansInv, RegexAlive, FreedOnce, InUse
<1> QED BY <1>2, <1>4, <1>5 DEF IInv, OwnershipInv

\* The parts of IInv that speak of one machine's own entries, by name.
LEMMA ParentOfBorrower ==
    ASSUME IInv, NEW t \in Tasks, NEW i \in 1 .. Len(cache[t])
    PROVE  state[t] = "open" /\ parent[t] \in Masters /\ state[parent[t]] = "open"
<1>1. t \in Scripts
  BY Disjoint
<1>2. cache[t] # <<>>
  BY SMTT(60), <1>1, CacheFacts, EmptyFacts
<1>3. MachinesInv
  BY DEF IInv, OwnershipInv
<1>4. state[t] # "none" /\ state[t] \in {"none", "open"}
  <2>1. state[t] = "none" => cache[t] = <<>>
    BY <1>1, <1>3 DEF MachinesInv
  <2>2. state[t] \in {"none", "open"}
    BY <1>3 DEF MachinesInv
  <2> QED BY <2>1, <2>2, <1>2
<1> QED BY <1>3, <1>4 DEF MachinesInv

\* d is c, or c with the entry n at its end.
Grown(c, d, n) ==
    /\ d \in Seq(Entry) /\ Len(d) \in Len(c) .. MaxEntries
    /\ \A i \in 1 .. Len(c) : i \in 1 .. Len(d) /\ d[i] = c[i]
    /\ \A i \in 1 .. Len(d) : i \in 1 .. Len(c) \/ (i = Len(c) + 1 /\ d[i] = n)

\* manage adds one entry at the end, or throws.
LEMMA ManageGives ==
    ASSUME NEW c \in Seq(Entry), Len(c) <= MaxEntries, NEW r \in 1 .. MaxRegex, NEW h \in Nat
    PROVE  Grown(c, Manage(c, r, h), [item |-> r, hash |-> h, non_owned |-> FALSE])
<1> DEFINE n == [item |-> r, hash |-> h, non_owned |-> FALSE]
           d == Manage(c, r, h)
<1>1. n \in Entry /\ Len(c) \in Nat
  BY SeqFacts DEF Entry
<1>2. CASE Len(c) < MaxEntries
  <2>1. /\ d \in Seq(Entry) /\ Len(d) = Len(c) + 1 /\ d[Len(c) + 1] = n
        /\ \A i \in 1 .. Len(c) : d[i] = c[i]
    BY SMTT(60), <1>1, <1>2, AppendFacts DEF Manage
  <2> HIDE DEF d, n
  <2> QED BY SMTT(60), <2>1, <1>1, <1>2, CacheAssumption DEF d, n, Grown
<1>3. CASE ~(Len(c) < MaxEntries)
  <2>1. d = c
    BY <1>3 DEF Manage
  <2> QED BY SMTT(60), <2>1, <1>1, <1>3, CacheAssumption DEF Grown
<1> QED BY <1>2, <1>3

LEMMA CompileNewIInv ==
    ASSUME IInv, NEW s \in Scripts, NEW p \in Patterns, CompileNew(s, p)
    PROVE  IInv'
<1> DEFINE r == Len(compiled) + 1
           n == [item |-> r, hash |-> Hash[p], non_owned |-> FALSE]
<1>1. /\ cache[s] \in Seq(Entry) /\ Len(cache[s]) \in 0 .. MaxEntries
      /\ compiled \in Seq(Nat) /\ Len(compiled) \in Nat /\ Hash[p] \in Nat /\ r \in 1 .. MaxRegex
  BY SMTT(60), CacheFacts, CacheAssumption DEF CompileNew
<1>2. /\ compiled' \in Seq(Nat) /\ Len(compiled') = r /\ compiled'[r] = Hash[p]
      /\ \A k \in 1 .. Len(compiled) : compiled'[k] = compiled[k]
  BY SMTT(60), <1>1, AppendFacts DEF CompileNew
<1>3. /\ cache'[s] \in Seq(Entry) /\ Len(cache'[s]) \in Len(cache[s]) .. MaxEntries
      /\ \A i \in 1 .. Len(cache[s]) : i \in 1 .. Len(cache'[s]) /\ cache'[s][i] = cache[s][i]
      /\ \A i \in 1 .. Len(cache'[s]) :
           i \in 1 .. Len(cache[s]) \/ (i = Len(cache[s]) + 1 /\ cache'[s][i] = n)
  <2>1. cache'[s] = Manage(cache[s], r, Hash[p])
    BY DEF CompileNew, IInv, OwnershipInv
  <2> HIDE DEF r
  <2>2. Len(cache[s]) <= MaxEntries
    BY SMTT(60), <1>1, CacheAssumption
  <2>3. Grown(cache[s], cache'[s], n)
    BY <2>1, <2>2, <1>1, ManageGives
  <2> QED BY <2>3 DEF Grown
<1>4. cache' \in [Scripts -> Seq(Entry)] /\ \A q \in Scripts : q # s => cache'[q] = cache[q]
  BY <1>3 DEF CompileNew, IInv, OwnershipInv
<1>5. \A q \in Scripts : \A i \in 1 .. Len(cache[q]) :
        i \in 1 .. Len(cache'[q]) /\ cache'[q][i] = cache[q][i]
  BY <1>3, <1>4
<1>6. \A q \in Scripts : \A i \in 1 .. Len(cache'[q]) :
        \/ i \in 1 .. Len(cache[q]) /\ cache'[q][i] = cache[q][i]
        \/ q = s /\ i = Len(cache[s]) + 1 /\ cache'[q][i] = n
  BY <1>3, <1>4
<1>7. UNCHANGED <<program, state, parent, freed>> /\ state[s] # "none"
  BY DEF CompileNew, Running
<1>8. handles' \in [Scripts -> SUBSET Handle]
  <2>1. CASE Len(cache'[s]) > Len(cache[s])
    <3>1. Len(cache'[s]) \in 1 .. MaxEntries
      BY SMTT(60), <2>1, <1>1, <1>3
    <3> QED BY <3>1, <2>1, RememberType DEF CompileNew, IInv, TypeOK
  <2>2. CASE ~(Len(cache'[s]) > Len(cache[s]))
    BY <2>2 DEF CompileNew, IInv, TypeOK
  <2> QED BY <2>1, <2>2
<1>9. /\ \A q \in Scripts : q # s => handles'[q] = handles[q]
      /\ \A h \in handles'[s] : h \in handles[s] \/ h.own
  BY SMTT(60) DEF CompileNew, Remember, IInv, TypeOK
<1>10. TypeOK'
  <2>1. \A q \in Scripts : /\ Len(cache'[q]) <= MaxEntries
                           /\ \A i \in 1 .. Len(cache'[q]) : cache'[q][i] \in Entry
    <3>1. \A q \in Scripts : \A i \in 1 .. Len(cache'[q]) : cache'[q][i] \in Entry
      BY <1>4, SeqFacts
    <3>2. \A q \in Scripts : Len(cache'[q]) <= MaxEntries
      <4> SUFFICES ASSUME NEW q \in Scripts PROVE Len(cache'[q]) <= MaxEntries
        OBVIOUS
      <4>1. CASE q = s
        BY SMTT(60), <4>1, <1>1, <1>3, CacheAssumption
      <4>2. CASE q # s
        <5>1. Len(cache[q]) \in 0 .. MaxEntries
          BY CacheFacts
        <5> QED BY SMTT(60), <4>2, <5>1, <1>4, CacheAssumption
      <4> QED BY <4>1, <4>2
    <3> QED BY <3>1, <3>2
  <2> QED BY SMTT(60), <2>1, <1>1, <1>2, <1>7, <1>8 DEF IInv, TypeOK
<1>11. freed' \subseteq 1 .. Len(compiled')
  BY SMTT(60), <1>1, <1>2, <1>7 DEF IInv, OwnershipInv
<1>r. r # NoRegex
  BY SMTT(60), <1>1, CacheAssumption
<1> USE DEF IInv, OwnershipInv
<1>12. EntriesInv'
  <2> SUFFICES ASSUME NEW q \in Scripts, NEW i \in 1 .. Len(cache'[q])
               PROVE  EntryInv(cache[q][i])'
    BY DEF EntriesInv
  <2>1. CASE i \in 1 .. Len(cache[q]) /\ cache'[q][i] = cache[q][i]
    <3>1. EntryInv(cache[q][i])
      BY <2>1 DEF EntriesInv
    <3>2. \A x \in 1 .. Len(compiled) : x \in 1 .. Len(compiled') /\ compiled'[x] = compiled[x]
      BY SMTT(60), <1>1, <1>2
    <3> QED BY <3>1, <3>2, <2>1 DEF EntryInv, InUse
  <2>2. CASE cache'[q][i] = n
    BY SMTT(60), <1>r, <2>2, <1>1, <1>2 DEF EntryInv, InUse
  <2> QED BY <2>1, <2>2, <1>6
<1>13. MachinesInv'
  BY <1>4, <1>7, <1>9 DEF MachinesInv
<1>14. MastersInv'
  <2> SUFFICES ASSUME NEW m \in Masters
               PROVE  /\ \A i \in 1 .. Len(cache'[m]) : ~cache'[m][i].non_owned
                      /\ \A h \in handles'[m] : h.own
    BY DEF MastersInv
  <2>1. m \in Scripts
    BY Disjoint
  <2>2. \A i \in 1 .. Len(cache[m]) : ~cache[m][i].non_owned
    BY DEF MastersInv
  <2>3. \A h \in handles[m] : h.own
    BY DEF MastersInv
  <2>4. n.non_owned = FALSE
    OBVIOUS
  <2> HIDE DEF n
  <2>5. \A i \in 1 .. Len(cache'[m]) : ~cache'[m][i].non_owned
    BY <2>1, <2>2, <2>4, <1>6
  <2>6. \A h \in handles'[m] : h.own
    BY <2>1, <2>3, <1>9
  <2> QED BY <2>5, <2>6
<1>15. LoansInv'
  <2> SUFFICES ASSUME NEW t \in Tasks, NEW i \in 1 .. Len(cache'[t]),
                      InUse(cache'[t][i]), cache'[t][i].non_owned
               PROVE  \E j \in 1 .. Len(cache'[parent[t]]) :
                        cache'[parent[t]][j].item = cache'[t][i].item
    BY SMTT(60), <1>7 DEF LoansInv, InUse
  <2>1. t \in Scripts
    BY Disjoint
  <2>2. i \in 1 .. Len(cache[t]) /\ cache'[t][i] = cache[t][i]
    BY SMTT(60), <2>1, <1>6
  <2>3. PICK j \in 1 .. Len(cache[parent[t]]) : cache[parent[t]][j].item = cache[t][i].item
    BY <2>2 DEF LoansInv
  <2>4. parent[t] \in Scripts
    BY <2>2, ParentOfBorrower, Disjoint
  <2> QED BY <2>2, <2>3, <2>4, <1>5
<1>16. RegexAlive'
  <2> SUFFICES ASSUME NEW q \in Scripts, NEW i \in 1 .. Len(cache'[q])
               PROVE  cache'[q][i].item \notin freed
    BY <1>7 DEF RegexAlive
  <2>1. r \notin freed
    BY SMTT(60), <1>1
  <2>2. CASE i \in 1 .. Len(cache[q]) /\ cache'[q][i] = cache[q][i]
    BY <2>2 DEF RegexAlive
  <2>3. CASE cache'[q][i] = n
    BY SMTT(60), <2>1, <2>3
  <2> QED BY <2>2, <2>3, <1>6
<1>17. FreedOnce'
  <2> SUFFICES ASSUME NEW q \in Scripts, NEW q2 \in Scripts,
                      NEW i \in 1 .. Len(cache'[q]), NEW j \in 1 .. Len(cache'[q2]),
                      cache'[q][i].item = cache'[q2][j].item, InUse(cache'[q][i]),
                      ~cache'[q][i].non_owned, ~cache'[q2][j].non_owned
               PROVE  q = q2 /\ i = j
    BY SMTT(60) DEF FreedOnce, InUse
  <2>1. \A q3 \in Scripts : \A k \in 1 .. Len(cache[q3]) : cache[q3][k].item # r
    <3> SUFFICES ASSUME NEW q3 \in Scripts, NEW k \in 1 .. Len(cache[q3])
                 PROVE  cache[q3][k].item # r
      OBVIOUS
    <3>1. EntryInv(cache[q3][k])
      BY DEF EntriesInv
    <3>2. PICK x : x = cache[q3][k].item
      OBVIOUS
    <3>3. x = NoRegex \/ x \in 1 .. Len(compiled)
      BY <3>1, <3>2 DEF EntryInv, InUse
    <3>4. r \notin 1 .. Len(compiled)
      BY SMTT(60), <1>1
    <3> QED BY <3>2, <3>3, <3>4, <1>r
  <2>2. CASE i \in 1 .. Len(cache[q]) /\ cache'[q][i] = cache[q][i]
    <3>1. j \in 1 .. Len(cache[q2]) /\ cache'[q2][j] = cache[q2][j]
      BY SMTT(60), <2>1, <2>2, <1>6
    <3>2. /\ cache[q][i].item = cache[q2][j].item /\ InUse(cache[q][i])
          /\ ~cache[q][i].non_owned /\ ~cache[q2][j].non_owned
      BY <3>1, <2>2
    <3> QED BY <3>1, <3>2, <2>2 DEF FreedOnce
  <2>3. CASE q = s /\ i = Len(cache[s]) + 1 /\ cache'[q][i] = n
    <3>1. q2 = s /\ j = Len(cache[s]) + 1
      BY SMTT(60), <2>1, <2>3, <1>6
    <3> QED BY <3>1, <2>3
  <2> QED BY <2>2, <2>3, <1>6
<1> QED BY <1>2, <1>4, <1>10, <1>11, <1>12, <1>13, <1>14, <1>15, <1>16, <1>17

LEMMA NullNotFreed ==
    ASSUME IInv
    PROVE  NoRegex \notin freed
<1>1. \A r \in freed : r \in 1 .. MaxRegex
  BY DEF IInv, TypeOK
<1>2. \A r \in freed : r \in Nat
  BY SMTT(60), <1>1, CacheAssumption
<1> QED BY <1>2, CacheAssumption

LEMMA DeleteIInv ==
    ASSUME IInv, NEW s \in Scripts, NEW i \in 1 .. MaxEntries, Delete(s, i)
    PROVE  IInv'
<1>1. /\ cache[s] \in Seq(Entry) /\ Len(cache[s]) \in Nat /\ FreeEntry \in Entry
      /\ i \in 1 .. Len(cache[s])
  <2>1. FreeEntry \in Entry
    BY DEF FreeEntry, Entry
  <2>2. cache[s] \in Seq(Entry) /\ Len(cache[s]) \in 0 .. MaxEntries
    BY CacheFacts
  <2>3. i <= Len(cache[s])
    BY DEF Delete
  <2> QED BY SMTT(60), <2>1, <2>2, <2>3, CacheAssumption
<1>2. /\ cache'[s] = [cache[s] EXCEPT ![i] = FreeEntry]
      /\ \A q \in Scripts : q # s => cache'[q] = cache[q]
  BY DEF Delete, IInv, OwnershipInv
<1>3. /\ cache'[s] \in Seq(Entry) /\ Len(cache'[s]) = Len(cache[s])
      /\ cache'[s][i] = FreeEntry
      /\ \A k \in 1 .. Len(cache[s]) : k # i => cache'[s][k] = cache[s][k]
  BY SMTT(60), <1>1, <1>2, ExceptFacts
<1>4. cache' \in [Scripts -> Seq(Entry)]
  BY <1>3 DEF Delete, IInv, OwnershipInv
<1>5. \A q \in Scripts : Len(cache'[q]) = Len(cache[q]) /\ \A k \in 1 .. Len(cache[q]) :
        cache'[q][k] = cache[q][k] \/ (q = s /\ k = i /\ cache'[q][k] = FreeEntry)
  BY <1>2, <1>3
<1>6. /\ UNCHANGED <<program, state, parent, compiled, freed>> /\ state[s] # "none"
      /\ state[s] = IF s \in Masters THEN "init" ELSE "open"
  BY DEF Delete, Running
<1>7. /\ handles' \in [Scripts -> SUBSET Handle]
      /\ \A q \in Scripts : handles'[q] \subseteq handles[q]
  BY DEF Delete, IInv, TypeOK
<1>8. TypeOK'
  <2>1. \A q \in Scripts : \A k \in 1 .. Len(cache'[q]) : cache'[q][k] \in Entry
    BY <1>4, SeqFacts
  <2> QED BY <2>1, <1>5, <1>6, <1>7 DEF IInv, TypeOK
<1>9. FreeEntry.item = NoRegex /\ FreeEntry.hash = 0 /\ FreeEntry.non_owned = FALSE
  BY DEF FreeEntry
<1> USE DEF IInv, OwnershipInv
<1>10. EntriesInv'
  <2> SUFFICES ASSUME NEW q \in Scripts, NEW k \in 1 .. Len(cache[q])
               PROVE  EntryInv(cache[q][k])'
    BY <1>5 DEF EntriesInv
  <2>1. EntryInv(cache[q][k])
    BY DEF EntriesInv
  <2> QED BY <2>1, <1>5, <1>6, <1>9 DEF EntryInv, InUse
<1>11. MachinesInv'
  BY <1>2, <1>6, <1>7 DEF MachinesInv
<1>12. MastersInv'
  <2> SUFFICES ASSUME NEW m \in Masters
               PROVE  /\ \A k \in 1 .. Len(cache'[m]) : ~cache'[m][k].non_owned
                      /\ \A h \in handles'[m] : h.own
    BY DEF MastersInv
  <2>1. m \in Scripts
    BY Disjoint
  <2>2. \A k \in 1 .. Len(cache[m]) : ~cache[m][k].non_owned
    BY DEF MastersInv
  <2>3. \A h \in handles[m] : h.own
    BY DEF MastersInv
  <2>4. \A k \in 1 .. Len(cache'[m]) : ~cache'[m][k].non_owned
    BY <2>1, <2>2, <1>5, <1>9
  <2>5. \A h \in handles'[m] : h.own
    BY <2>1, <2>3, <1>7
  <2> QED BY <2>4, <2>5
<1>13. LoansInv'
  <2> SUFFICES ASSUME NEW t \in Tasks, NEW k \in 1 .. Len(cache'[t]),
                      InUse(cache'[t][k]), cache'[t][k].non_owned
               PROVE  \E j \in 1 .. Len(cache'[parent[t]]) :
                        cache'[parent[t]][j].item = cache'[t][k].item
    BY <1>6 DEF LoansInv, InUse
  <2>1. t \in Scripts
    BY Disjoint
  <2>2. k \in 1 .. Len(cache[t]) /\ cache'[t][k] = cache[t][k]
    BY <2>1, <1>5, <1>9 DEF InUse
  <2>3. PICK j \in 1 .. Len(cache[parent[t]]) : cache[parent[t]][j].item = cache[t][k].item
    BY <2>2 DEF LoansInv
  <2>4. parent[t] \in Masters /\ state[parent[t]] = "open"
    BY <2>2, ParentOfBorrower
  <2>5. parent[t] \in Scripts /\ parent[t] # s
    BY <2>4, <1>6, Disjoint
  <2> QED BY <2>2, <2>3, <2>5, <1>2
<1>14. RegexAlive'
  <2>1. NoRegex \notin freed
    BY NullNotFreed
  <2> QED BY SMTT(60), <2>1, <1>5, <1>6, <1>9 DEF RegexAlive
<1>15. FreedOnce'
  <2> SUFFICES ASSUME NEW q \in Scripts, NEW q2 \in Scripts,
                      NEW j \in 1 .. Len(cache'[q]), NEW k \in 1 .. Len(cache'[q2]),
                      cache'[q][j].item = cache'[q2][k].item, InUse(cache'[q][j]),
                      ~cache'[q][j].non_owned, ~cache'[q2][k].non_owned
               PROVE  q = q2 /\ j = k
    BY DEF FreedOnce, InUse
  <2>1. j \in 1 .. Len(cache[q]) /\ k \in 1 .. Len(cache[q2])
    BY <1>5
  <2>2. cache'[q][j] = cache[q][j] /\ cache'[q2][k] = cache[q2][k]
    BY <2>1, <1>5, <1>9 DEF InUse
  <2>3. /\ cache[q][j].item = cache[q2][k].item /\ InUse(cache[q][j])
        /\ ~cache[q][j].non_owned /\ ~cache[q2][k].non_owned
    BY <2>2
  <2> QED BY <2>1, <2>3 DEF FreedOnce
<1> QED BY <1>4, <1>6, <1>8, <1>10, <1>11, <1>12, <1>13, <1>14, <1>15

\* A step that begins or installs a program changes no cache.
LEMMA StateIInv ==
    ASSUME IInv, NEW m \in Masters, Construct(m) \/ Install(m)
    PROVE  IInv'
<1>1. /\ UNCHANGED <<parent, cache, handles, compiled, freed>>
      /\ state' \in [Scripts -> {"none", "init", "open"}] /\ program' \in Masters \cup {NoMaster}
      /\ m \in Scripts
  BY Disjoint DEF Construct, Install, IInv, TypeOK
<1>2. TypeOK'
  BY <1>1 DEF IInv, TypeOK
<1>3. /\ state'[m] # "none" /\ state[m] # "open"
      /\ \A s \in Scripts : s # m => state'[s] = state[s]
      /\ program' # program => program' = m /\ state'[m] = "open"
  BY <1>1 DEF Construct, Install, IInv, TypeOK
<1> USE DEF IInv, OwnershipInv
<1>4. MachinesInv'
  <2>1. \A s \in Scripts : state'[s] = "none" => state[s] = "none"
    BY <1>3
  <2>2. program' # NoMaster => state'[program'] = "open"
    BY <1>1, <1>3, Disjoint DEF MachinesInv, TypeOK
  <2>3. \A t \in Tasks : state'[t] = state[t]
    BY <1>3, Disjoint
  <2>4. \A t \in Tasks : state[t] = "open" => state'[parent[t]] = "open"
    BY <1>3, Disjoint DEF MachinesInv
  <2> QED BY <2>1, <2>2, <2>3, <2>4, <1>1 DEF MachinesInv
<1>5. EntriesInv' /\ MastersInv'
  BY <1>1 DEF EntriesInv, EntryInv, MastersInv, InUse
<1>6. LoansInv' /\ RegexAlive'
  BY SMTT(60), <1>1 DEF LoansInv, RegexAlive, InUse
<1>7. FreedOnce'
  BY SMTT(60), <1>1 DEF FreedOnce, InUse
<1> QED BY <1>1, <1>2, <1>4, <1>5, <1>6, <1>7

\* What a machine owns, no other one has, but for the forks of a master.
LEMMA OwnedApart ==
    ASSUME IInv, NEW s \in Scripts, \A t \in Tasks : state[t] = "open" => parent[t] # s,
           NEW q \in Scripts, q # s, NEW k \in 1 .. Len(cache[q])
    PROVE  cache[q][k].item \notin Owned(s)
<1> SUFFICES ASSUME cache[q][k].item \in Owned(s) PROVE FALSE
  OBVIOUS
<1>0. FreedOnce /\ LoansInv /\ MastersInv
  BY DEF IInv, OwnershipInv
<1>1. PICK i \in 1 .. Len(cache[s]) : /\ ~cache[s][i].non_owned
                                      /\ cache[s][i].item = cache[q][k].item
                                      /\ cache[q][k].item # NoRegex
  BY DEF Owned
<1>2. CASE ~cache[q][k].non_owned
  BY <1>0, <1>1, <1>2 DEF FreedOnce, InUse
<1>3. CASE cache[q][k].non_owned
  <2>1. q \in Tasks
    BY <1>0, <1>3 DEF MastersInv, Scripts
  <2>2. PICK j \in 1 .. Len(cache[parent[q]]) : cache[parent[q]][j].item = cache[q][k].item
    BY <2>1, <1>0, <1>1, <1>3 DEF LoansInv, InUse
  <2>3. parent[q] \in Masters /\ state[q] = "open"
    BY <2>1, ParentOfBorrower
  <2>4. parent[q] \in Scripts /\ parent[q] # s
    BY <2>1, <2>3, Disjoint
  <2>5. ~cache[parent[q]][j].non_owned
    BY <2>3, <1>0 DEF MastersInv
  <2> QED BY <2>2, <2>4, <2>5, <1>0, <1>1 DEF FreedOnce, InUse
<1> QED BY <1>2, <1>3

LEMMA DestructIInv ==
    ASSUME IInv, NEW s \in Scripts, Destruct(s), state[s] # "none",
           s # program \/ program = NoMaster,
           \A t \in Tasks : state[t] = "open" => parent[t] # s,
           parent' \in [Tasks -> Masters \cup {NoMaster}],
           \A t \in Tasks : t # s => parent'[t] = parent[t],
           UNCHANGED <<program, compiled>>
    PROVE  IInv'
<1>1. /\ cache' \in [Scripts -> Seq(Entry)] /\ cache'[s] = <<>> /\ Len(<<>>) = 0
      /\ \A q \in Scripts : q # s => cache'[q] = cache[q]
  BY EmptyFacts DEF Destruct, IInv, OwnershipInv
<1>2. /\ handles' \in [Scripts -> SUBSET Handle] /\ handles'[s] = {}
      /\ \A q \in Scripts : q # s => handles'[q] = handles[q]
  BY DEF Destruct, IInv, TypeOK
<1>3. /\ state' \in [Scripts -> {"none", "init", "open"}] /\ state'[s] = "none"
      /\ \A q \in Scripts : q # s => state'[q] = state[q]
  BY DEF Destruct, IInv, TypeOK
<1>4. \A q \in Scripts : \A k \in 1 .. Len(cache'[q]) :
        q # s /\ k \in 1 .. Len(cache[q]) /\ cache'[q] = cache[q]
  BY SMTT(60), <1>1
<1>5. Owned(s) \subseteq 1 .. Len(compiled)
  <2> SUFFICES ASSUME NEW i \in 1 .. Len(cache[s]), cache[s][i].item # NoRegex
               PROVE  cache[s][i].item \in 1 .. Len(compiled)
    BY DEF Owned
  <2>1. EntryInv(cache[s][i])
    BY DEF IInv, OwnershipInv, EntriesInv
  <2> QED BY <2>1 DEF EntryInv, InUse
<1>6. freed' \subseteq 1 .. Len(compiled') /\ freed' = freed \cup Owned(s)
  BY <1>5 DEF Destruct, IInv, OwnershipInv
<1>7. TypeOK'
  <2>1. \A q \in Scripts : /\ Len(cache'[q]) <= MaxEntries
                           /\ \A i \in 1 .. Len(cache'[q]) : cache'[q][i] \in Entry
    <3> SUFFICES ASSUME NEW q \in Scripts
                 PROVE  /\ Len(cache'[q]) <= MaxEntries
                        /\ \A i \in 1 .. Len(cache'[q]) : cache'[q][i] \in Entry
      OBVIOUS
    <3>1. CASE q = s
      BY SMTT(60), <3>1, <1>1, CacheAssumption
    <3>2. CASE q # s
      BY <3>2, <1>1 DEF IInv, TypeOK
    <3> QED BY <3>1, <3>2
  <2>2. freed' \subseteq 1 .. MaxRegex
    BY SMTT(60), <1>6, CacheFacts, CacheAssumption
  <2> QED BY <2>1, <2>2, <1>2, <1>3 DEF IInv, TypeOK
<1>8. EntriesInv /\ MachinesInv /\ MastersInv /\ LoansInv /\ RegexAlive /\ FreedOnce
  BY DEF IInv, OwnershipInv
<1>9. EntriesInv'
  BY SMTT(60), <1>4, <1>8 DEF EntriesInv, EntryInv, InUse
<1>10. MachinesInv'
  <2>1. program' # NoMaster => state'[program'] = "open"
    BY <1>3, <1>8, Disjoint DEF MachinesInv, IInv, TypeOK
  <2>2. \A q \in Scripts : state'[q] = "none" => cache'[q] = <<>> /\ handles'[q] = {}
    BY <1>1, <1>2, <1>3, <1>8 DEF MachinesInv
  <2>3. ASSUME NEW t \in Tasks
        PROVE  /\ state'[t] \in {"none", "open"}
               /\ state'[t] = "open" => parent'[t] \in Masters /\ state'[parent'[t]] = "open"
    <3>1. CASE t = s
      BY <3>1, <1>3
    <3>2. CASE t # s
      <4>1. state'[t] = state[t] /\ parent'[t] = parent[t]
        BY <3>2, <1>3, Disjoint
      <4>2. state[t] \in {"none", "open"}
        BY <1>8 DEF MachinesInv
      <4>3. ASSUME state[t] = "open"
            PROVE  parent[t] \in Masters /\ state'[parent[t]] = "open"
        BY SMTT(60), <4>3, <1>3, <1>8, Disjoint DEF MachinesInv
      <4> QED BY <4>1, <4>2, <4>3
    <3> QED BY <3>1, <3>2
  <2> QED BY <2>1, <2>2, <2>3 DEF MachinesInv
<1>11. MastersInv'
  <2> SUFFICES ASSUME NEW m \in Masters
               PROVE  /\ \A k \in 1 .. Len(cache'[m]) : ~cache'[m][k].non_owned
                      /\ \A h \in handles'[m] : h.own
    BY DEF MastersInv
  <2>1. CASE m = s
    BY SMTT(60), <2>1, <1>1, <1>2
  <2>2. CASE m # s
    <3>1. cache'[m] = cache[m] /\ handles'[m] = handles[m]
      BY <2>2, <1>1, <1>2, Disjoint
    <3> QED BY <3>1, <1>8 DEF MastersInv
  <2> QED BY <2>1, <2>2
<1>12. LoansInv'
  <2> SUFFICES ASSUME NEW t \in Tasks, NEW k \in 1 .. Len(cache'[t]),
                      InUse(cache'[t][k]), cache'[t][k].non_owned
               PROVE  \E j \in 1 .. Len(cache'[parent'[t]]) :
                        cache'[parent'[t]][j].item = cache'[t][k].item
    BY DEF LoansInv, InUse
  <2>1. t # s /\ k \in 1 .. Len(cache[t]) /\ cache'[t] = cache[t]
    BY <1>4, Disjoint
  <2>2. PICK j \in 1 .. Len(cache[parent[t]]) : cache[parent[t]][j].item = cache[t][k].item
    BY <2>1, <1>8 DEF LoansInv
  <2>3. state[t] = "open" /\ parent[t] \in Scripts
    BY <2>1, ParentOfBorrower, Disjoint
  <2>4. cache'[parent'[t]] = cache[parent[t]]
    BY <2>1, <2>3, <1>1
  <2> QED BY <2>1, <2>2, <2>4
<1>13. RegexAlive'
  <2> SUFFICES ASSUME NEW q \in Scripts, NEW k \in 1 .. Len(cache'[q])
               PROVE  cache'[q][k].item \notin freed'
    BY DEF RegexAlive
  <2>1. q # s /\ k \in 1 .. Len(cache[q]) /\ cache'[q] = cache[q]
    BY <1>4
  <2>2. cache[q][k].item \notin Owned(s)
    BY <2>1, OwnedApart
  <2>3. cache[q][k].item \notin freed
    BY <2>1, <1>8 DEF RegexAlive
  <2> QED BY <2>1, <2>2, <2>3, <1>6
<1>14. FreedOnce'
  BY SMTT(60), <1>4, <1>8 DEF FreedOnce, InUse
<1> QED BY <1>1, <1>6, <1>7, <1>9, <1>10, <1>11, <1>12, <1>13, <1>14 DEF IInv, OwnershipInv

LEMMA GoneIInv ==
    ASSUME IInv,
           (\E m \in Masters : InitFails(m) \/ Release(m)) \/ (\E t \in Tasks : End(t))
    PROVE  IInv'
<1>0. MachinesInv /\ parent \in [Tasks -> Masters \cup {NoMaster}]
  BY DEF IInv, OwnershipInv, TypeOK
<1>1. ASSUME NEW m \in Masters, InitFails(m) PROVE IInv'
  <2>1. state[m] = "init" /\ Destruct(m) /\ UNCHANGED <<program, parent, compiled>>
    BY <1>1 DEF InitFails
  <2>2. m # program /\ \A t \in Tasks : state[t] = "open" => parent[t] # m
    BY SMTT(60), <2>1, <1>0, CacheAssumption DEF MachinesInv
  <2> QED BY <2>1, <2>2, <1>0, DestructIInv, Disjoint
<1>2. ASSUME NEW m \in Masters, Release(m) PROVE IInv'
  <2>1. /\ state[m] = "open" /\ Destruct(m) /\ UNCHANGED <<program, parent, compiled>>
        /\ m # program /\ \A t \in Tasks : parent[t] # m
    BY <1>2 DEF Release
  <2> QED BY <2>1, <1>0, DestructIInv, Disjoint
<1>3. ASSUME NEW t \in Tasks, End(t) PROVE IInv'
  <2>1. /\ state[t] = "open" /\ Destruct(t) /\ UNCHANGED <<program, compiled>>
        /\ parent' \in [Tasks -> Masters \cup {NoMaster}]
        /\ \A q \in Tasks : q # t => parent'[q] = parent[q]
    BY <1>0, <1>3 DEF End
  <2>2. \A q \in Tasks : state[q] = "open" => parent[q] # t
    BY SMTT(60), <1>0, Disjoint DEF MachinesInv
  <2>3. t # program \/ program = NoMaster
    BY <1>0, Disjoint DEF IInv, TypeOK
  <2> QED BY <2>1, <2>2, <2>3, DestructIInv, Disjoint
<1> QED BY <1>1, <1>2, <1>3

LEMMA ForkIInv ==
    ASSUME IInv, NEW t \in Tasks, Fork(t)
    PROVE  IInv'
<1> DEFINE m == program
           c == cache[m]
           d == LoanFrom(c)
<1>0. EntriesInv /\ MachinesInv /\ MastersInv /\ LoansInv /\ RegexAlive /\ FreedOnce
  BY DEF IInv, OwnershipInv
<1>1. m \in Masters /\ m \in Scripts /\ t \in Scripts /\ m # t /\ state[m] = "open"
  BY <1>0, Disjoint DEF Fork, IInv, TypeOK, MachinesInv
<1>2. c \in Seq(Entry) /\ Len(c) \in 0 .. MaxEntries
  BY <1>1, CacheFacts
<1>3. Borrowed(d, c, Len(c))
  BY <1>2, LoanFromGives
<1>4. d \in Seq(Entry) /\ Len(d) \in Nat /\ Len(d) <= MaxEntries
  BY SMTT(60), <1>2, <1>3, SeqFacts, CacheAssumption DEF Borrowed
<1>5. ASSUME NEW k \in 1 .. Len(d)
      PROVE  /\ d[k] \in Entry /\ d[k].non_owned /\ InUse(d[k])
             /\ \E j \in 1 .. Len(c) : c[j].item = d[k].item /\ c[j].hash = d[k].hash
  <2>1. PICK j \in 1 .. Len(c) : InUse(c[j]) /\ d[k] = Loan(c[j])
    BY <1>3 DEF Borrowed
  <2>2. c[j] \in Entry
    BY <1>2, SeqFacts
  <2> QED BY SMTT(60), <2>1, <2>2, LoanEntry DEF InUse
<1>6. /\ cache' \in [Scripts -> Seq(Entry)] /\ cache'[t] = d
      /\ \A q \in Scripts : q # t => cache'[q] = cache[q]
  BY <1>1, <1>4 DEF Fork, IInv, OwnershipInv
<1> HIDE DEF d
<1>7. /\ handles' \in [Scripts -> SUBSET Handle]
      /\ \A q \in Scripts : q # t => handles'[q] = handles[q]
  <2>1. \A h \in handles[m] : [h EXCEPT !.own = FALSE] \in Handle
    <3>1. \A h \in handles[m] : h \in Handle
      BY <1>1 DEF IInv, TypeOK
    <3>2. \A h \in Handle : [h EXCEPT !.own = FALSE] \in Handle
      BY DEF Handle
    <3> QED BY <3>1, <3>2
  <2>2. {[h EXCEPT !.own = FALSE] : h \in handles[m]} \in SUBSET Handle
    BY <2>1
  <2> QED BY <2>2, <1>1 DEF Fork, IInv, TypeOK
<1>8. /\ state' \in [Scripts -> {"none", "init", "open"}] /\ state'[t] = "open"
      /\ \A q \in Scripts : q # t => state'[q] = state[q]
      /\ parent' \in [Tasks -> Masters \cup {NoMaster}] /\ parent'[t] = m
      /\ \A q \in Tasks : q # t => parent'[q] = parent[q]
      /\ UNCHANGED <<program, compiled, freed>>
  BY <1>1 DEF Fork, IInv, TypeOK
<1>9. TypeOK'
  <2>1. \A q \in Scripts : /\ Len(cache'[q]) <= MaxEntries
                           /\ \A i \in 1 .. Len(cache'[q]) : cache'[q][i] \in Entry
    <3> SUFFICES ASSUME NEW q \in Scripts
                 PROVE  /\ Len(cache'[q]) <= MaxEntries
                        /\ \A i \in 1 .. Len(cache'[q]) : cache'[q][i] \in Entry
      OBVIOUS
    <3>1. CASE q = t
      BY <3>1, <1>4, <1>5, <1>6
    <3>2. CASE q # t
      BY <3>2, <1>6 DEF IInv, TypeOK
    <3> QED BY <3>1, <3>2
  <2> QED BY <2>1, <1>7, <1>8 DEF IInv, TypeOK
<1>10. EntriesInv'
  <2> SUFFICES ASSUME NEW q \in Scripts, NEW k \in 1 .. Len(cache'[q])
               PROVE  EntryInv(cache[q][k])'
    BY DEF EntriesInv
  <2>1. CASE q # t
    <3>1. EntryInv(cache[q][k])
      BY <2>1, <1>0, <1>6 DEF EntriesInv
    <3> QED BY <3>1, <2>1, <1>6, <1>8 DEF EntryInv, InUse
  <2>2. CASE q = t
    <3>1. PICK j \in 1 .. Len(c) : c[j].item = d[k].item /\ c[j].hash = d[k].hash
      BY <2>2, <1>5, <1>6
    <3>2. EntryInv(c[j])
      BY <1>0, <1>1 DEF EntriesInv
    <3> QED BY <3>1, <3>2, <2>2, <1>6, <1>8 DEF EntryInv, InUse
  <2> QED BY <2>1, <2>2
<1>11. MachinesInv'
  <2>1. program' # NoMaster => state'[program'] = "open"
    BY <1>1, <1>8
  <2>2. \A q \in Scripts : state'[q] = "none" => cache'[q] = <<>> /\ handles'[q] = {}
    BY <1>0, <1>6, <1>7, <1>8 DEF MachinesInv
  <2>3. ASSUME NEW q \in Tasks
        PROVE  /\ state'[q] \in {"none", "open"}
               /\ state'[q] = "open" => parent'[q] \in Masters /\ state'[parent'[q]] = "open"
    <3>1. CASE q = t
      BY <3>1, <1>1, <1>8
    <3>2. CASE q # t
      <4>1. state'[q] = state[q] /\ parent'[q] = parent[q]
        BY <3>2, <1>8, Disjoint
      <4>2. state[q] \in {"none", "open"}
        BY <1>0 DEF MachinesInv
      <4>3. ASSUME state[q] = "open"
            PROVE  parent[q] \in Masters /\ state'[parent[q]] = "open"
        BY <4>3, <1>0, <1>8, Disjoint DEF MachinesInv
      <4> QED BY <4>1, <4>2, <4>3
    <3> QED BY <3>1, <3>2
  <2> QED BY <2>1, <2>2, <2>3 DEF MachinesInv
<1>12. MastersInv'
  <2>1. \A q \in Masters : cache'[q] = cache[q] /\ handles'[q] = handles[q]
    BY <1>6, <1>7, Disjoint
  <2> QED BY <2>1, <1>0 DEF MastersInv
<1>13. LoansInv'
  <2> SUFFICES ASSUME NEW q \in Tasks, NEW k \in 1 .. Len(cache'[q]),
                      InUse(cache'[q][k]), cache'[q][k].non_owned
               PROVE  \E j \in 1 .. Len(cache'[parent'[q]]) :
                        cache'[parent'[q]][j].item = cache'[q][k].item
    BY DEF LoansInv, InUse
  <2>1. CASE q = t
    BY SMTT(60), <2>1, <1>1, <1>5, <1>6, <1>8
  <2>2. CASE q # t
    <3>1. cache'[q] = cache[q] /\ parent'[q] = parent[q]
      BY <2>2, <1>6, <1>8, Disjoint
    <3>2. PICK j \in 1 .. Len(cache[parent[q]]) : cache[parent[q]][j].item = cache[q][k].item
      BY SMTT(60), <3>1, <1>0 DEF LoansInv
    <3>3. parent[q] \in Scripts /\ parent[q] # t
      BY <3>1, ParentOfBorrower, Disjoint
    <3> QED BY SMTT(60), <3>1, <3>2, <3>3, <1>6
  <2> QED BY <2>1, <2>2
<1>14. RegexAlive'
  <2> SUFFICES ASSUME NEW q \in Scripts, NEW k \in 1 .. Len(cache'[q])
               PROVE  cache'[q][k].item \notin freed
    BY <1>8 DEF RegexAlive
  <2>1. CASE q = t
    BY <2>1, <1>0, <1>1, <1>5, <1>6 DEF RegexAlive
  <2>2. CASE q # t
    BY <2>2, <1>0, <1>6 DEF RegexAlive
  <2> QED BY <2>1, <2>2
<1>15. FreedOnce'
  <2> SUFFICES ASSUME NEW q \in Scripts, NEW q2 \in Scripts,
                      NEW i \in 1 .. Len(cache'[q]), NEW j \in 1 .. Len(cache'[q2]),
                      cache'[q][i].item = cache'[q2][j].item, InUse(cache'[q][i]),
                      ~cache'[q][i].non_owned, ~cache'[q2][j].non_owned
               PROVE  q = q2 /\ i = j
    BY SMTT(60) DEF FreedOnce, InUse
  <2>1. q # t /\ q2 # t
    BY <1>5, <1>6
  <2>2. cache'[q] = cache[q] /\ cache'[q2] = cache[q2]
    BY <2>1, <1>6
  <2> QED BY <2>2, <1>0 DEF FreedOnce
<1>16. freed' \subseteq 1 .. Len(compiled') /\ compiled' \in Seq(Nat)
  BY <1>8 DEF IInv, OwnershipInv
<1> QED BY <1>6, <1>9, <1>10, <1>11, <1>12, <1>13, <1>14, <1>15, <1>16 DEF IInv, OwnershipInv

LEMMA NextIInv ==
    ASSUME IInv, [Next]_vars
    PROVE  IInv'
<1>1. CASE UNCHANGED vars
  <2> USE <1>1 DEF vars
  <2>1. TypeOK'
    BY DEF IInv, TypeOK
  <2>2. EntriesInv' /\ MachinesInv'
    BY SMTT(60) DEF IInv, OwnershipInv, EntriesInv, EntryInv, MachinesInv, InUse
  <2>3. MastersInv' /\ LoansInv'
    BY SMTT(60) DEF IInv, OwnershipInv, MastersInv, LoansInv, InUse
  <2>4. RegexAlive' /\ FreedOnce'
    BY SMTT(60) DEF IInv, OwnershipInv, RegexAlive, FreedOnce, InUse
  <2> QED BY <2>1, <2>2, <2>3, <2>4 DEF IInv, OwnershipInv
<1>2. CASE Next
  BY <1>2, CompileKnownIInv, CompileNewIInv, DeleteIInv, StateIInv, GoneIInv, ForkIInv DEF Next
<1> QED BY <1>1, <1>2

\* What who owns, borrows and frees is consistent at every step, for any number
\* of programs and forks; the other theorems follow from it.
THEOREM Ownership == Spec => []IInv
<1>1. Init => IInv
  BY InitIInv
<1>2. IInv /\ [Next]_vars => IInv'
  BY NextIInv
<1> QED BY <1>1, <1>2, PTL DEF Spec

\* No cache outgrows its array, also not one that a fork fills with the entries
\* of its master (Cache::manage and Cache::loan_from).
THEOREM TypeCorrect == Spec => []TypeOK
<1>1. IInv => TypeOK
  BY DEF IInv
<1> QED BY <1>1, Ownership, PTL

\* No machine has a freed regex in its cache, whatever the other machines of the
\* program and replaced programs free in ~Script.
THEOREM NoRegexAfterFree == Spec => []RegexAlive
<1>1. IInv => RegexAlive
  BY DEF IInv, OwnershipInv
<1> QED BY <1>1, Ownership, PTL

\* A regex has one owner, in one place of its cache, so ~Script gives it to
\* VRE_free once.
THEOREM OneOwner == Spec => []FreedOnce
<1>1. IInv => FreedOnce
  BY DEF IInv, OwnershipInv
<1> QED BY <1>1, Ownership, PTL

-----------------------------------------------------------------------------
(* Handles.  find returns an entry in use, or for a pattern of hash 0 a    *)
(* freed place.                                                            *)

Held(s, h) == Leads(s, h) \/ LeadsNowhere(s, h)

HInv == IInv /\ OwnHandles /\ InheritedHandles

LEMMA HandleFacts ==
    ASSUME IInv, NEW s \in Scripts, NEW h \in handles[s]
    PROVE  h \in Handle /\ h.place \in 1 .. MaxEntries
<1>1. h \in Handle
  BY DEF IInv, TypeOK
<1> QED BY <1>1 DEF Handle

\* A handle leads where it led as long as its place is left alone.
LEMMA StillLeads ==
    ASSUME IInv, NEW s \in Scripts, NEW h \in handles[s], Leads(s, h),
           cache'[s][h.place] = cache[s][h.place], Len(cache'[s]) >= Len(cache[s]),
           Len(cache'[s]) \in Nat,
           \A k \in 1 .. Len(compiled) : compiled'[k] = compiled[k]
    PROVE  Leads(s, h)'
<1>1. h.place \in 1 .. MaxEntries /\ Len(cache[s]) \in 0 .. MaxEntries
  BY HandleFacts, CacheFacts
<1>2. h.place \in 1 .. Len(cache[s]) /\ h.place <= Len(cache'[s])
  BY SMTT(60), <1>1, CacheAssumption DEF Leads
<1>3. EntryInv(cache[s][h.place])
  BY <1>2 DEF IInv, OwnershipInv, EntriesInv
<1>4. cache[s][h.place].item \in 1 .. Len(compiled)
  BY <1>3 DEF EntryInv, Leads, InUse
<1> QED BY <1>2, <1>4 DEF Leads

\* A freed place that is left alone stays freed.
LEMMA StillNowhere ==
    ASSUME IInv, NEW s \in Scripts, NEW h \in handles[s], LeadsNowhere(s, h),
           cache'[s][h.place] = cache[s][h.place], Len(cache'[s]) >= Len(cache[s]),
           Len(cache'[s]) \in Nat
    PROVE  LeadsNowhere(s, h)'
<1>1. h.place \in 1 .. MaxEntries /\ Len(cache[s]) \in 0 .. MaxEntries
  BY HandleFacts, CacheFacts
<1>2. h.place <= Len(cache'[s])
  BY SMTT(60), <1>1, CacheAssumption DEF LeadsNowhere
<1> QED BY <1>2 DEF LeadsNowhere, InUse

\* A step that forks nothing: every handle is new and good, or its place is left
\* alone, and so is what the masters of the forks have.
LEMMA KeepsHandles ==
    ASSUME HInv,
           \A s \in Scripts : \A h \in handles'[s] :
               \/ h.own /\ Held(s, h)'
               \/ /\ h \in handles[s]
                  /\ h.place <= Len(cache[s]) => cache'[s][h.place] = cache[s][h.place]
                  /\ Len(cache'[s]) >= Len(cache[s]) /\ Len(cache'[s]) \in Nat,
           \A k \in 1 .. Len(compiled) : compiled'[k] = compiled[k],
           \A t \in Tasks : state'[t] = "open" =>
               state[t] = "open" /\ cache'[parent'[t]] = cache[parent[t]]
    PROVE  OwnHandles' /\ InheritedHandles'
<1>0. IInv
  BY DEF HInv
<1>1. ASSUME NEW s \in Scripts, NEW h \in handles[s], Leads(s, h),
             h.place <= Len(cache[s]) => cache'[s][h.place] = cache[s][h.place],
             Len(cache'[s]) >= Len(cache[s]), Len(cache'[s]) \in Nat
      PROVE  Leads(s, h)'
  <2>1. cache'[s][h.place] = cache[s][h.place]
    BY <1>1 DEF Leads
  <2> QED BY <2>1, <1>0, <1>1, StillLeads
<1>2. ASSUME NEW s \in Scripts, NEW h \in handles[s], LeadsNowhere(s, h),
             h.place <= Len(cache[s]) => cache'[s][h.place] = cache[s][h.place],
             Len(cache'[s]) >= Len(cache[s]), Len(cache'[s]) \in Nat
      PROVE  LeadsNowhere(s, h)'
  <2>1. cache'[s][h.place] = cache[s][h.place]
    BY <1>2 DEF LeadsNowhere
  <2> QED BY <2>1, <1>0, <1>2, StillNowhere
<1>3. OwnHandles'
  <2> SUFFICES ASSUME NEW s \in Scripts, NEW h \in handles'[s], h.own
               PROVE  Held(s, h)'
    BY DEF OwnHandles, Held
  <2>1. CASE h.own /\ Held(s, h)'
    BY <2>1
  <2>2. CASE /\ h \in handles[s]
             /\ h.place <= Len(cache[s]) => cache'[s][h.place] = cache[s][h.place]
             /\ Len(cache'[s]) >= Len(cache[s]) /\ Len(cache'[s]) \in Nat
    <3>1. Leads(s, h) \/ LeadsNowhere(s, h)
      BY <2>2 DEF HInv, OwnHandles
    <3> QED BY <3>1, <2>2, <1>1, <1>2 DEF Held
  <2> QED BY SMTT(60), <2>1, <2>2
<1>4. InheritedHandles'
  <2> SUFFICES ASSUME NEW t \in Tasks, state'[t] = "open",
                      \A i \in 1 .. Len(cache'[parent'[t]]) : InUse(cache'[parent'[t]][i]),
                      NEW h \in handles'[t], ~h.own
               PROVE  Leads(t, h)'
    BY DEF InheritedHandles, InUse
  <2>1. t \in Scripts
    BY Disjoint
  <2>2. /\ h \in handles[t]
        /\ h.place <= Len(cache[t]) => cache'[t][h.place] = cache[t][h.place]
        /\ Len(cache'[t]) >= Len(cache[t]) /\ Len(cache'[t]) \in Nat
    BY <2>1
  <2>3. /\ state[t] = "open"
        /\ \A i \in 1 .. Len(cache[parent[t]]) : InUse(cache[parent[t]][i])
    <3>1. state[t] = "open" /\ cache'[parent'[t]] = cache[parent[t]]
      OBVIOUS
    <3> QED BY <3>1
  <2>4. Leads(t, h)
    BY <2>2, <2>3 DEF HInv, InheritedHandles
  <2> QED BY <2>1, <2>2, <2>4, <1>1
<1> QED BY <1>3, <1>4

LEMMA CompileKnownHandles ==
    ASSUME HInv, NEW s \in Scripts, NEW p \in Patterns, CompileKnown(s, p)
    PROVE  OwnHandles' /\ InheritedHandles'
<1>0. IInv
  BY DEF HInv
<1>1. PICK i \in 1 .. Len(cache[s]) :
        i = First(Find(cache[s], Hash[p])) /\ cache[s][i].hash = Hash[p]
  <2>1. Find(cache[s], Hash[p]) \subseteq 1 .. Len(cache[s]) /\ Find(cache[s], Hash[p]) # {}
    BY DEF Find, CompileKnown
  <2>2. Find(cache[s], Hash[p]) \subseteq Nat
    BY SMTT(60), <2>1
  <2>3. First(Find(cache[s], Hash[p])) \in Find(cache[s], Hash[p])
    BY <2>1, <2>2, FirstIs
  <2> QED BY <2>3 DEF Find
<1> DEFINE n == [hash |-> Hash[p], place |-> i, own |-> TRUE]
<1>2. EntryInv(cache[s][i])
  BY <1>0, <1>1 DEF IInv, OwnershipInv, EntriesInv
<1>3. \/ InUse(cache[s][i]) /\ compiled[cache[s][i].item] = Hash[p]
      \/ ~InUse(cache[s][i]) /\ Hash[p] = 0
  BY <1>1, <1>2 DEF EntryInv
<1>4. UNCHANGED <<program, state, parent, cache, compiled, freed>>
  BY DEF CompileKnown
<1>5. Held(s, n)' /\ n.own
  <2>1. i <= Len(cache[s])
    BY SMTT(60), <1>0, <1>1, CacheFacts, CacheAssumption
  <2> QED BY <2>1, <1>3, <1>4 DEF Held, Leads, LeadsNowhere, InUse
<1>6. \A q \in Scripts : \A h \in handles'[q] : h \in handles[q] \/ (q = s /\ h = n)
  BY <1>0, <1>1 DEF CompileKnown, Remember, IInv, TypeOK
<1>7. \A q \in Scripts : Len(cache[q]) \in Nat
  BY SMTT(60), <1>0, CacheFacts
<1> HIDE DEF n
<1>8. \A q \in Scripts : \A h \in handles'[q] :
        \/ h.own /\ Held(q, h)'
        \/ /\ h \in handles[q]
           /\ h.place <= Len(cache[q]) => cache'[q][h.place] = cache[q][h.place]
           /\ Len(cache'[q]) >= Len(cache[q]) /\ Len(cache'[q]) \in Nat
  <2> SUFFICES ASSUME NEW q \in Scripts, NEW h \in handles'[q], ~(q = s /\ h = n)
               PROVE  /\ h \in handles[q]
                      /\ h.place <= Len(cache[q]) => cache'[q][h.place] = cache[q][h.place]
                      /\ Len(cache'[q]) >= Len(cache[q]) /\ Len(cache'[q]) \in Nat
    BY <1>5
  <2> QED BY SMTT(60), <1>4, <1>6, <1>7
<1> QED BY <1>4, <1>8, KeepsHandles

LEMMA CompileNewHandles ==
    ASSUME HInv, NEW s \in Scripts, NEW p \in Patterns, CompileNew(s, p)
    PROVE  OwnHandles' /\ InheritedHandles'
<1>0. IInv /\ MachinesInv
  BY DEF HInv, IInv, OwnershipInv
<1>1. PICK r \in 1 .. MaxRegex : r = Len(compiled) + 1
  BY SMTT(60), <1>0, CacheFacts, CacheAssumption DEF CompileNew
<1> DEFINE e == [item |-> r, hash |-> Hash[p], non_owned |-> FALSE]
<1>2. /\ Hash[p] \in Nat /\ compiled \in Seq(Nat) /\ Len(compiled) \in Nat
      /\ cache[s] \in Seq(Entry) /\ Len(cache[s]) \in Nat /\ Len(cache[s]) <= MaxEntries
  BY SMTT(60), <1>0, CacheFacts, CacheAssumption
<1>3. /\ compiled'[r] = Hash[p] /\ \A k \in 1 .. Len(compiled) : compiled'[k] = compiled[k]
  BY SMTT(60), <1>1, <1>2, AppendFacts DEF CompileNew
<1>4. /\ cache'[s] = Manage(cache[s], r, Hash[p])
      /\ \A q \in Scripts : q # s => cache'[q] = cache[q]
  BY <1>0, <1>1 DEF CompileNew, IInv, OwnershipInv
<1>5. Grown(cache[s], cache'[s], e)
  BY <1>2, <1>4, ManageGives
<1>6. /\ Len(cache'[s]) \in Nat /\ Len(cache'[s]) >= Len(cache[s])
      /\ \A i \in 1 .. Len(cache[s]) : cache'[s][i] = cache[s][i]
  BY SMTT(60), <1>2, <1>5, CacheAssumption DEF Grown
<1>7. PICK l \in Nat : l = Len(cache'[s])
  BY <1>6
<1> DEFINE n == [hash |-> Hash[p], place |-> l, own |-> TRUE]
<1>8. \A q \in Scripts : \A h \in handles'[q] :
        h \in handles[q] \/ (q = s /\ h = n /\ l > Len(cache[s]))
  BY SMTT(60), <1>0, <1>7 DEF CompileNew, Remember, IInv, TypeOK
<1>9. ASSUME l > Len(cache[s]) PROVE Held(s, n)' /\ n.own
  <2>1. l \in 1 .. l /\ l \notin 1 .. Len(cache[s])
    BY SMTT(60), <1>2, <1>9
  <2>2. cache'[s][l] = e
    BY <2>1, <1>5, <1>7 DEF Grown
  <2>3. r # NoRegex
    BY SMTT(60), CacheAssumption
  <2>4. Leads(s, n)'
    BY SMTT(60), <2>1, <2>2, <2>3, <1>3, <1>7 DEF Leads
  <2> QED BY <2>4 DEF Held
<1>10. \A q \in Scripts : \A h \in handles'[q] :
         \/ h.own /\ Held(q, h)'
         \/ /\ h \in handles[q]
            /\ h.place <= Len(cache[q]) => cache'[q][h.place] = cache[q][h.place]
            /\ Len(cache'[q]) >= Len(cache[q]) /\ Len(cache'[q]) \in Nat
  <2> SUFFICES ASSUME NEW q \in Scripts, NEW h \in handles'[q],
                      ~(q = s /\ h = n /\ l > Len(cache[s]))
               PROVE  /\ h \in handles[q]
                      /\ h.place <= Len(cache[q]) => cache'[q][h.place] = cache[q][h.place]
                      /\ Len(cache'[q]) >= Len(cache[q]) /\ Len(cache'[q]) \in Nat
    BY <1>9
  <2>1. h \in handles[q]
    BY <1>8
  <2>2. h.place \in 1 .. MaxEntries /\ Len(cache[q]) \in Nat
    BY SMTT(60), <2>1, <1>0, HandleFacts, CacheFacts
  <2>3. CASE q = s
    BY SMTT(60), <2>1, <2>2, <2>3, <1>6
  <2>4. CASE q # s
    BY SMTT(60), <2>1, <2>2, <2>4, <1>4
  <2> QED BY <2>3, <2>4
<1>11. \A t \in Tasks : state'[t] = "open" =>
         state[t] = "open" /\ cache'[parent'[t]] = cache[parent[t]]
  <2> SUFFICES ASSUME NEW t \in Tasks, state[t] = "open"
               PROVE  cache'[parent[t]] = cache[parent[t]]
    BY DEF CompileNew
  <2>1. parent[t] \in Masters /\ state[parent[t]] = "open"
    BY <1>0 DEF MachinesInv
  <2>2. parent[t] # s /\ parent[t] \in Scripts
    BY <2>1, Disjoint DEF CompileNew, Running
  <2> QED BY <2>2, <1>4
<1> QED BY <1>3, <1>10, <1>11, KeepsHandles

LEMMA DeleteHandles ==
    ASSUME HInv, NEW s \in Scripts, NEW i \in 1 .. MaxEntries, Delete(s, i)
    PROVE  OwnHandles' /\ InheritedHandles'
<1>0. IInv /\ MachinesInv
  BY DEF HInv, IInv, OwnershipInv
<1>1. /\ cache'[s] = [cache[s] EXCEPT ![i] = FreeEntry] /\ compiled' = compiled
      /\ \A q \in Scripts : q # s => cache'[q] = cache[q]
      /\ UNCHANGED <<state, parent>>
  BY <1>0 DEF Delete, IInv, OwnershipInv
<1>2. FreeEntry \in Entry /\ cache[s] \in Seq(Entry) /\ Len(cache[s]) \in Nat
  <2>1. FreeEntry \in Entry
    BY DEF FreeEntry, Entry
  <2> QED BY SMTT(60), <2>1, <1>0, CacheFacts
<1>3. i \in 1 .. Len(cache[s])
  BY SMTT(60), <1>2 DEF Delete
<1>4. /\ Len(cache'[s]) = Len(cache[s])
      /\ \A k \in 1 .. Len(cache[s]) : k # i => cache'[s][k] = cache[s][k]
  BY SMTT(60), <1>1, <1>2, <1>3, ExceptFacts
<1>5. \A q \in Scripts : \A h \in handles'[q] : h \in handles[q] /\ (q = s => h.place # i)
  BY <1>0 DEF Delete, IInv, TypeOK
<1>6. \A q \in Scripts : \A h \in handles'[q] :
        /\ h \in handles[q]
        /\ h.place <= Len(cache[q]) => cache'[q][h.place] = cache[q][h.place]
        /\ Len(cache'[q]) >= Len(cache[q]) /\ Len(cache'[q]) \in Nat
  <2> SUFFICES ASSUME NEW q \in Scripts, NEW h \in handles'[q]
               PROVE  /\ h \in handles[q]
                      /\ h.place <= Len(cache[q]) => cache'[q][h.place] = cache[q][h.place]
                      /\ Len(cache'[q]) >= Len(cache[q]) /\ Len(cache'[q]) \in Nat
    OBVIOUS
  <2>1. h \in handles[q] /\ (q = s => h.place # i)
    BY <1>5
  <2>2. h.place \in 1 .. MaxEntries /\ Len(cache[q]) \in Nat
    BY SMTT(60), <2>1, <1>0, HandleFacts, CacheFacts
  <2>3. CASE q = s
    BY SMTT(60), <2>1, <2>2, <2>3, <1>4
  <2>4. CASE q # s
    BY SMTT(60), <2>1, <2>2, <2>4, <1>1
  <2> QED BY <2>3, <2>4
<1>7. \A t \in Tasks : state'[t] = "open" =>
        state[t] = "open" /\ cache'[parent'[t]] = cache[parent[t]]
  <2> SUFFICES ASSUME NEW t \in Tasks, state[t] = "open"
               PROVE  cache'[parent[t]] = cache[parent[t]]
    BY <1>1
  <2>1. parent[t] \in Masters /\ state[parent[t]] = "open"
    BY <1>0 DEF MachinesInv
  <2>2. parent[t] # s /\ parent[t] \in Scripts
    BY <2>1, Disjoint DEF Delete, Running
  <2> QED BY <2>2, <1>1
<1> QED BY <1>1, <1>6, <1>7, KeepsHandles

LEMMA StateHandles ==
    ASSUME HInv, NEW m \in Masters, Construct(m) \/ Install(m)
    PROVE  OwnHandles' /\ InheritedHandles'
<1>0. IInv
  BY DEF HInv
<1>1. UNCHANGED <<parent, cache, handles, compiled>> /\ \A t \in Tasks : state'[t] = state[t]
  BY SMTT(60), <1>0, Disjoint DEF Construct, Install, IInv, TypeOK
<1>2. \A q \in Scripts : Len(cache[q]) \in Nat
  BY SMTT(60), <1>0, CacheFacts
<1> QED BY SMTT(60), <1>1, <1>2, KeepsHandles

LEMMA GoneHandles ==
    ASSUME HInv, NEW s \in Scripts, Destruct(s), compiled' = compiled,
           \A t \in Tasks : state[t] = "open" => parent[t] # s,
           \A t \in Tasks : t # s => parent'[t] = parent[t]
    PROVE  OwnHandles' /\ InheritedHandles'
<1>0. IInv /\ MachinesInv
  BY DEF HInv, IInv, OwnershipInv
<1>1. /\ handles'[s] = {} /\ state'[s] = "none"
      /\ \A q \in Scripts : q # s => /\ cache'[q] = cache[q] /\ handles'[q] = handles[q]
                                     /\ state'[q] = state[q]
  BY <1>0 DEF Destruct, IInv, OwnershipInv, TypeOK
<1>2. \A q \in Scripts : \A h \in handles'[q] :
        /\ h \in handles[q]
        /\ h.place <= Len(cache[q]) => cache'[q][h.place] = cache[q][h.place]
        /\ Len(cache'[q]) >= Len(cache[q]) /\ Len(cache'[q]) \in Nat
  <2> SUFFICES ASSUME NEW q \in Scripts, NEW h \in handles'[q]
               PROVE  /\ h \in handles[q] /\ cache'[q] = cache[q]
                      /\ Len(cache[q]) >= Len(cache[q]) /\ Len(cache[q]) \in Nat
    OBVIOUS
  <2>1. q # s
    BY <1>1
  <2>2. Len(cache[q]) \in Nat
    BY SMTT(60), <1>0, CacheFacts
  <2> QED BY SMTT(60), <2>1, <2>2, <1>1
<1>3. \A t \in Tasks : state'[t] = "open" =>
        state[t] = "open" /\ cache'[parent'[t]] = cache[parent[t]]
  <2> SUFFICES ASSUME NEW t \in Tasks, state'[t] = "open"
               PROVE  state[t] = "open" /\ cache'[parent'[t]] = cache[parent[t]]
    OBVIOUS
  <2>1. t # s /\ state[t] = "open" /\ parent'[t] = parent[t]
    BY <1>1, Disjoint
  <2>2. parent[t] \in Scripts /\ parent[t] # s
    BY <2>1, <1>0, Disjoint DEF MachinesInv
  <2> QED BY <2>1, <2>2, <1>1
<1> QED BY <1>2, <1>3, KeepsHandles

LEMMA ForkHandles ==
    ASSUME HInv, NEW t \in Tasks, Fork(t)
    PROVE  OwnHandles' /\ InheritedHandles'
<1>0. IInv /\ MachinesInv /\ MastersInv
  BY DEF HInv, IInv, OwnershipInv
<1>1. PICK m \in Masters : m = program
  BY <1>0 DEF Fork, IInv, TypeOK
<1> DEFINE c == cache[m]
<1>2. m \in Scripts /\ t \in Scripts /\ m # t
  BY Disjoint
<1>3. c \in Seq(Entry) /\ Len(c) \in Nat /\ Borrowed(LoanFrom(c), c, Len(c))
  BY SMTT(60), <1>0, <1>2, CacheFacts, LoanFromGives
<1>4. /\ cache'[t] = LoanFrom(c) /\ compiled' = compiled /\ parent'[t] = m
      /\ handles'[t] = {[h EXCEPT !.own = FALSE] : h \in handles[m]}
      /\ \A q \in Scripts : q # t => /\ cache'[q] = cache[q] /\ handles'[q] = handles[q]
                                     /\ state'[q] = state[q]
      /\ \A q \in Tasks : q # t => parent'[q] = parent[q]
  BY <1>0, <1>1, <1>2 DEF Fork, IInv, OwnershipInv, TypeOK
<1>5. \A h \in handles'[t] : ~h.own
  <2> SUFFICES ASSUME NEW g \in handles[m] PROVE ~[g EXCEPT !.own = FALSE].own
    BY <1>4
  <2>1. g \in Handle
    BY <1>0, <1>2, HandleFacts
  <2> QED BY <2>1 DEF Handle
<1>6. ASSUME NEW q \in Scripts, q # t, NEW h, Leads(q, h) PROVE Leads(q, h)'
  BY <1>4, <1>6 DEF Leads
<1>7. ASSUME NEW q \in Scripts, q # t, NEW h, LeadsNowhere(q, h)
      PROVE  LeadsNowhere(q, h)'
  BY <1>4, <1>7 DEF LeadsNowhere, InUse
<1>8. OwnHandles'
  <2> SUFFICES ASSUME NEW q \in Scripts, NEW h \in handles'[q], h.own
               PROVE  Leads(q, h)' \/ LeadsNowhere(q, h)'
    BY DEF OwnHandles
  <2>1. q # t
    BY <1>5
  <2>2. Leads(q, h) \/ LeadsNowhere(q, h)
    BY <2>1, <1>4 DEF HInv, OwnHandles
  <2> QED BY <2>1, <2>2, <1>6, <1>7
<1>9. InheritedHandles'
  <2> SUFFICES ASSUME NEW q \in Tasks, state'[q] = "open",
                      \A i \in 1 .. Len(cache'[parent'[q]]) : InUse(cache'[parent'[q]][i]),
                      NEW h \in handles'[q], ~h.own
               PROVE  Leads(q, h)'
    BY DEF InheritedHandles, InUse
  <2>1. CASE q = t
    <3>1. \A i \in 1 .. Len(c) : InUse(c[i])
      BY <2>1, <1>2, <1>4
    <3>2. Len(cache'[t]) = Len(c) /\ \A i \in 1 .. Len(c) : cache'[t][i] = Loan(c[i])
      BY SMTT(60), <3>1, <1>3, <1>4 DEF Borrowed
    <3>3. PICK g \in handles[m] : h = [g EXCEPT !.own = FALSE]
      BY <2>1, <1>4
    <3>4. g \in Handle /\ g.place \in 1 .. MaxEntries /\ g.own
      BY <1>0, <1>2, HandleFacts DEF MastersInv
    <3>5. h.place = g.place /\ h.hash = g.hash
      BY <3>3, <3>4 DEF Handle
    <3>6. Leads(m, g) \/ LeadsNowhere(m, g)
      BY <3>4, <1>2 DEF HInv, OwnHandles
    <3>7. g.place \in 1 .. Len(c)
      BY SMTT(60), <3>4, <3>6, <1>3, CacheAssumption DEF Leads, LeadsNowhere
    <3>8. Leads(m, g)
      BY <3>1, <3>6, <3>7 DEF LeadsNowhere
    <3>9. cache'[t][g.place].item = c[g.place].item
      <4>1. c[g.place] \in Entry
        BY <3>7, <1>3, SeqFacts
      <4> QED BY <4>1, <3>2, <3>7, LoanEntry
    <3> QED BY <3>2, <3>5, <3>8, <3>7, <3>9, <2>1, <1>4 DEF Leads
  <2>2. CASE q # t
    <3>1. q \in Scripts /\ state[q] = "open" /\ parent'[q] = parent[q] /\ h \in handles[q]
      BY <2>2, <1>4, Disjoint
    <3>2. cache'[parent[q]] = cache[parent[q]]
      BY SMTT(60), <3>1, <1>0, <1>4, Disjoint DEF MachinesInv
    <3>3. Leads(q, h)
      BY <3>1, <3>2 DEF HInv, InheritedHandles
    <3> QED BY <3>1, <3>3, <2>2, <1>6
  <2> QED BY <2>1, <2>2
<1> QED BY <1>8, <1>9

LEMMA NextHInv ==
    ASSUME HInv, [Next]_vars
    PROVE  HInv'
<1>0. IInv /\ MachinesInv /\ IInv'
  BY NextIInv DEF HInv, IInv, OwnershipInv
<1>1. CASE UNCHANGED vars
  <2>1. OwnHandles' /\ InheritedHandles'
    BY <1>1 DEF vars, HInv, OwnHandles, InheritedHandles, Leads, LeadsNowhere, InUse
  <2> QED BY <2>1, <1>0 DEF HInv
<1>2. ASSUME NEW m \in Masters, InitFails(m) \/ Release(m)
      PROVE  OwnHandles' /\ InheritedHandles'
  <2>1. Destruct(m) /\ compiled' = compiled /\ parent' = parent /\ m \in Scripts
    BY <1>2, Disjoint DEF InitFails, Release
  <2>2. \A t \in Tasks : state[t] = "open" => parent[t] # m
    BY <1>0, <1>2 DEF InitFails, Release, MachinesInv
  <2> QED BY <2>1, <2>2, GoneHandles
<1>3. ASSUME NEW t \in Tasks, End(t)
      PROVE  OwnHandles' /\ InheritedHandles'
  <2>1. /\ Destruct(t) /\ compiled' = compiled /\ t \in Scripts
        /\ \A q \in Tasks : q # t => parent'[q] = parent[q]
    BY <1>0, <1>3, Disjoint DEF End, IInv, TypeOK
  <2>2. \A q \in Tasks : state[q] = "open" => parent[q] # t
    BY <1>0, Disjoint DEF MachinesInv
  <2> QED BY <2>1, <2>2, GoneHandles
<1>4. CASE Next
  <2>1. OwnHandles' /\ InheritedHandles'
    BY <1>2, <1>3, <1>4, CompileKnownHandles, CompileNewHandles, DeleteHandles, StateHandles,
       ForkHandles DEF Next
  <2> QED BY <2>1, <1>0 DEF HInv
<1> QED BY <1>1, <1>4

LEMMA Handles == Spec => []HInv
<1>1. Init => HInv
  BY InitIInv, Disjoint DEF Init, HInv, OwnHandles, InheritedHandles
<1>2. HInv /\ [Next]_vars => HInv'
  BY NextHInv
<1> QED BY <1>1, <1>2, PTL DEF Spec

\* A handle from regex_compile leads to a regex of its pattern until the guest
\* deletes it, whatever it compiles and deletes besides and however full the
\* cache is, or for a pattern of hash 0 to a freed place.
THEOREM CompiledHandlesLead == Spec => []OwnHandles
<1>1. HInv => OwnHandles
  BY DEF HInv
<1> QED BY <1>1, Handles, PTL

\* Handles that a fork has inherited in its memory lead to the regexes of its
\* master, if the master has deleted none: loan_from keeps every entry in its
\* place.
THEOREM InheritedHandlesLead == Spec => []InheritedHandles
<1>1. HInv => InheritedHandles
  BY DEF HInv
<1> QED BY <1>1, Handles, PTL
==============================================================================
