--------------------------- MODULE ForkHeapProofs ---------------------------
(***************************************************************************)
(* Proofs that blocks stay apart and keep their contents, and that free    *)
(* memory is found (BlocksApart, BlocksIntact, FreeIsFound of ForkHeap),   *)
(* for heaps and requests of any size.                                     *)
(***************************************************************************)
EXTENDS ForkHeap, TLAPS

\* A leaf is left to Zenon, unless it names another prover.
USE ZenonT(60)

\* What the provers need to know of the constants.
LEMMA Ends ==
    /\ HeapEnd \in Nat /\ ForkEnd \in Nat /\ Word \in Nat /\ ArenaBase \in Nat
    /\ 0 < ArenaBase /\ ArenaBase <= HeapEnd /\ ForkEnd <= HeapEnd /\ HeapEnd < Word
  BY SMTT(60), HeapAssumption DEF HeapEnd, ForkEnd

\* The chunks A are in [lo, hi) and do not overlap; an empty one is alone.
GoodArena(A, lo, hi) ==
    /\ A \subseteq Chunk
    /\ \A c \in A : lo <= c.data /\ c.data + c.size <= hi
    /\ \A c \in A : c.size = 0 => A = {c}
    /\ \A c, d \in A : c # d => c.data + c.size <= d.data \/ d.data + d.size <= c.data

\* The chunks of A that are handed out.
InUse(A) == {c \in A : ~c.free}

\* A free chunk that is large enough is split in two.
LEMMA SplitGood ==
    ASSUME NEW lo \in Nat, NEW hi \in Nat, hi < Word, GoodArena(chunks, lo, hi),
           NEW c \in chunks, c.free, NEW n \in Nat, 0 < n, n <= c.size
    PROVE  /\ GoodArena(Split(c, n), lo, hi)
           /\ InUse(Split(c, n)) =
                InUse(chunks) \cup {[data |-> c.data, size |-> n, free |-> FALSE]}
  <1> DEFINE u == [data |-> c.data, size |-> n, free |-> FALSE]
             rest == [data |-> Plus(c.data, n), size |-> c.size - n, free |-> TRUE]
             S == Split(c, n)
  <1>1. /\ c \in Chunk /\ c.data \in Nat /\ c.size \in Nat
        /\ lo <= c.data /\ c.data + c.size <= hi /\ Word \in Nat
    BY SMTT(60), Ends DEF GoodArena, Chunk, Addr
  <1>2. u \in Chunk /\ u.data = c.data /\ u.size = n /\ ~u.free
    BY SMTT(60), <1>1 DEF Chunk, Addr
  <1>3. c.size > n => /\ rest \in Chunk /\ rest.data = c.data + n
                      /\ rest.size = c.size - n /\ rest.free
    BY SMTT(60), <1>1 DEF Chunk, Addr, Plus
  <1>4. S = (chunks \ {c}) \cup {u} \cup {d \in {rest} : c.size > n}
    BY DEF Split
  <1> HIDE DEF u, rest, S
  <1>5. S \subseteq Chunk
    BY <1>2, <1>3, <1>4 DEF GoodArena
  <1>6. \A d \in S : lo <= d.data /\ d.data + d.size <= hi
    BY SMTT(60), <1>1, <1>2, <1>3, <1>4 DEF GoodArena
  <1>7. \A d \in S : d.size # 0
    BY SMTT(60), <1>1, <1>2, <1>3, <1>4 DEF GoodArena
  <1>8. \A d \in chunks \ {c} :
          /\ d.data \in Nat /\ d.size \in Nat
          /\ d.data + d.size <= c.data \/ c.data + c.size <= d.data
    BY SMTT(60) DEF GoodArena, Chunk, Addr
  <1>9. \A d, e \in S : d # e => d.data + d.size <= e.data \/ e.data + e.size <= d.data
    <2> SUFFICES ASSUME NEW d \in S, NEW e \in S, d # e
                 PROVE  d.data + d.size <= e.data \/ e.data + e.size <= d.data
      OBVIOUS
    <2>1. CASE d \in chunks \ {c} /\ e \in chunks \ {c}
      BY <2>1 DEF GoodArena
    <2>2. CASE d \in chunks \ {c} /\ e \notin chunks \ {c}
      BY SMTT(60), <2>2, <1>1, <1>2, <1>3, <1>4, <1>8
    <2>3. CASE d \notin chunks \ {c} /\ e \in chunks \ {c}
      BY SMTT(60), <2>3, <1>1, <1>2, <1>3, <1>4, <1>8
    <2>4. CASE d \notin chunks \ {c} /\ e \notin chunks \ {c}
      BY SMTT(60), <2>4, <1>1, <1>2, <1>3, <1>4
    <2> QED
      BY <2>1, <2>2, <2>3, <2>4
  <1>10. GoodArena(S, lo, hi)
    BY <1>5, <1>6, <1>7, <1>9 DEF GoodArena
  <1>11. InUse(S) = InUse(chunks) \cup {u}
    BY <1>2, <1>3, <1>4 DEF InUse
  <1> QED
    BY <1>10, <1>11 DEF S, u

\* What a freed chunk is merged to: from `first', the free chunk before it or itself,
\* to `last', the free chunk after it or itself.
LEMMA MergeIs ==
    ASSUME NEW lo \in Nat, NEW hi \in Nat, hi < Word, NEW A, GoodArena(A, lo, hi),
           NEW c \in A, ~c.free, c.size > 0
    PROVE  \E first \in A, last \in A, g \in Chunk :
             /\ InternalFree(A, c) = (A \ {c, first, last}) \cup {g}
             /\ g.data = first.data /\ g.data + g.size = last.data + last.size
             /\ g.free /\ g.size > 0
             /\ first = c \/ (first.free /\ first.data + first.size = c.data)
             /\ last = c \/ (last.free /\ last.data = c.data + c.size)
             /\ \A d \in A : d.free /\ d.data + d.size = c.data => d = first
             /\ \A d \in A : d.free /\ d.data = c.data + c.size => d = last
  <1> DEFINE before == PrevFree(A, c)
             after == NextFree(A, c)
             first == IF before = {} THEN c ELSE CHOOSE d \in before : TRUE
             last == IF after = {} THEN c ELSE CHOOSE d \in after : TRUE
             g == Merged(first, last)
             S == InternalFree(A, c)
  <1>1. S = (A \ ({c} \cup before \cup after)) \cup {g}
    BY DEF InternalFree
  <1>2. (before = {} => first = c) /\ (before # {} => first \in before)
    OBVIOUS
  <1>3. (after = {} => last = c) /\ (after # {} => last \in after)
    OBVIOUS
  <1> HIDE DEF first, last, S
  <1>4. \A d \in A : /\ d \in Chunk /\ d.data \in Nat /\ d.size \in Nat /\ d.size > 0
                     /\ lo <= d.data /\ d.data + d.size <= hi /\ Word \in Nat
                     /\ Plus(d.data, d.size) = d.data + d.size
    BY SMTT(60), Ends DEF GoodArena, Chunk, Addr, Plus
  <1>5. \A d \in A : d \in before <=> d.free /\ d.data + d.size = c.data
    BY <1>4 DEF PrevFree
  <1>6. \A d \in A : d \in after <=> d.free /\ d.data = c.data + c.size
    BY <1>4 DEF NextFree
  <1>7. before \subseteq A /\ after \subseteq A
    BY DEF PrevFree, NextFree
  <1> HIDE DEF before, after
  <1>8. first \in A /\ (first = c \/ (first.free /\ first.data + first.size = c.data))
    BY <1>2, <1>5, <1>7
  <1>9. last \in A /\ (last = c \/ (last.free /\ last.data = c.data + c.size))
    BY <1>3, <1>6, <1>7
  <1>10. /\ g \in Chunk /\ g.data = first.data /\ g.free /\ g.size > 0
         /\ g.data + g.size = last.data + last.size
    BY SMTT(60), <1>4, <1>8, <1>9 DEF Merged, Minus, Chunk, Addr
  <1> HIDE DEF g
  <1>11. ASSUME NEW d \in before PROVE d = first
    <2>1. d \in A /\ d.data + d.size = first.data + first.size
      BY <1>2, <1>5, <1>7
    <2> QED
      BY SMTT(60), <1>4, <1>8, <2>1 DEF GoodArena
  <1>12. ASSUME NEW d \in after PROVE d = last
    <2>1. d \in A /\ d.data = last.data
      BY <1>3, <1>6, <1>7
    <2> QED
      BY SMTT(60), <1>4, <1>9, <2>1 DEF GoodArena
  <1>13. {c} \cup before \cup after = {c, first, last}
    BY <1>2, <1>3, <1>11, <1>12
  <1>14. S = (A \ {c, first, last}) \cup {g}
    BY <1>1, <1>13
  <1>15. /\ \A d \in A : d.free /\ d.data + d.size = c.data => d = first
         /\ \A d \in A : d.free /\ d.data = c.data + c.size => d = last
    BY <1>5, <1>6, <1>11, <1>12
  <1> QED
    BY SMTT(60), <1>8, <1>9, <1>10, <1>14, <1>15 DEF S

\* Freed neighbours are merged.
LEMMA MergeGood ==
    ASSUME NEW lo \in Nat, NEW hi \in Nat, hi < Word, NEW A, GoodArena(A, lo, hi),
           NEW c \in A, ~c.free, c.size > 0
    PROVE  /\ GoodArena(InternalFree(A, c), lo, hi)
           /\ InUse(InternalFree(A, c)) = InUse(A) \ {c}
  <1>1. PICK S : S = InternalFree(A, c)
    OBVIOUS
  <1>2. PICK first \in A, last \in A, g \in Chunk :
             /\ S = (A \ {c, first, last}) \cup {g}
             /\ g.data = first.data /\ g.data + g.size = last.data + last.size
             /\ g.free /\ g.size > 0
             /\ first = c \/ (first.free /\ first.data + first.size = c.data)
             /\ last = c \/ (last.free /\ last.data = c.data + c.size)
    BY SMTT(60), <1>1, MergeIs
  <1>3. \A d \in A : /\ d \in Chunk /\ d.data \in Nat /\ d.size \in Nat /\ d.size > 0
                     /\ lo <= d.data /\ d.data + d.size <= hi
    BY SMTT(60), Ends DEF GoodArena, Chunk, Addr
  <1>4. \A d \in A \ {c, first, last} :
           d.data + d.size <= g.data \/ g.data + g.size <= d.data
    <2> SUFFICES ASSUME NEW d \in A, d # c, d # first, d # last
                 PROVE  d.data + d.size <= g.data \/ g.data + g.size <= d.data
      OBVIOUS
    <2>1. /\ d.data + d.size <= c.data \/ c.data + c.size <= d.data
          /\ d.data + d.size <= first.data \/ first.data + first.size <= d.data
          /\ d.data + d.size <= last.data \/ last.data + last.size <= d.data
      BY DEF GoodArena
    <2>2. /\ d.data \in Nat /\ d.size \in Nat /\ d.size > 0
          /\ c.data \in Nat /\ c.size \in Nat
          /\ first.data \in Nat /\ first.size \in Nat /\ last.data \in Nat /\ last.size \in Nat
      BY <1>3
    <2> QED
      BY SMTT(60), <1>2, <2>1, <2>2
  <1>5. S \subseteq Chunk
    BY <1>2, <1>3
  <1>6. \A d \in S : lo <= d.data /\ d.data + d.size <= hi /\ d.size # 0
    BY SMTT(60), <1>2, <1>3
  <1>7. \A d, e \in S : d # e => d.data + d.size <= e.data \/ e.data + e.size <= d.data
    <2> SUFFICES ASSUME NEW d \in S, NEW e \in S, d # e
                 PROVE  d.data + d.size <= e.data \/ e.data + e.size <= d.data
      OBVIOUS
    <2>1. CASE d # g /\ e # g
      BY <1>2, <2>1 DEF GoodArena
    <2>2. CASE d = g \/ e = g
      BY <1>2, <1>4, <2>2
    <2> QED
      BY <2>1, <2>2
  <1>8. GoodArena(S, lo, hi)
    BY <1>5, <1>6, <1>7 DEF GoodArena
  <1>9. InUse(S) = InUse(A) \ {c}
    BY <1>2 DEF InUse
  <1> QED
    BY <1>1, <1>8, <1>9

\* A chunk in use grows into the free one that follows.
LEMMA SubsumeGood ==
    ASSUME NEW lo \in Nat, NEW hi \in Nat, hi < Word, GoodArena(chunks, lo, hi),
           NEW c \in chunks, ~c.free, c.size > 0, NEW n \in Nat, c.size < n,
           NEW d \in Growable(c, n)
    PROVE  /\ GoodArena(Subsume(c, d, n), lo, hi)
           /\ InUse(Subsume(c, d, n)) =
                (InUse(chunks) \ {c}) \cup {[data |-> c.data, size |-> n, free |-> FALSE]}
  <1> DEFINE u == [data |-> c.data, size |-> n, free |-> FALSE]
             rest == [data |-> Plus(c.data, n), size |-> c.size + d.size - n, free |-> TRUE]
             S == Subsume(c, d, n)
  <1>1. \A e \in chunks : /\ e \in Chunk /\ e.data \in Nat /\ e.size \in Nat /\ e.size > 0
                          /\ lo <= e.data /\ e.data + e.size <= hi /\ Word \in Nat
                          /\ Plus(e.data, e.size) = e.data + e.size
    BY SMTT(60), Ends DEF GoodArena, Chunk, Addr, Plus
  <1>2. d \in chunks /\ d.free /\ d.data = c.data + c.size /\ c.size + d.size >= n
    BY <1>1 DEF Growable, NextFree
  <1>3. u \in Chunk /\ u.data = c.data /\ u.size = n /\ ~u.free
    BY SMTT(60), <1>1, <1>2 DEF Chunk, Addr
  <1>4. c.size + d.size > n => /\ rest \in Chunk /\ rest.data = c.data + n
                               /\ rest.size = c.size + d.size - n /\ rest.free
    BY SMTT(60), <1>1, <1>2 DEF Chunk, Addr, Plus
  <1>5. S = (chunks \ {c, d}) \cup {u} \cup {e \in {rest} : c.size + d.size > n}
    BY DEF Subsume
  <1> HIDE DEF u, rest, S
  <1>6. S \subseteq Chunk
    BY <1>3, <1>4, <1>5 DEF GoodArena
  <1>7. \A e \in S : lo <= e.data /\ e.data + e.size <= hi /\ e.size # 0
    BY SMTT(60), <1>1, <1>2, <1>3, <1>4, <1>5
  <1>8. \A e \in chunks \ {c, d} :
          /\ e.data \in Nat /\ e.size \in Nat
          /\ e.data + e.size <= c.data \/ d.data + d.size <= e.data
    <2> SUFFICES ASSUME NEW e \in chunks, e # c, e # d
                 PROVE  /\ e.data \in Nat /\ e.size \in Nat
                        /\ e.data + e.size <= c.data \/ d.data + d.size <= e.data
      OBVIOUS
    <2>1. /\ e.data + e.size <= c.data \/ c.data + c.size <= e.data
          /\ e.data + e.size <= d.data \/ d.data + d.size <= e.data
      BY <1>2 DEF GoodArena
    <2>2. /\ e.data \in Nat /\ e.size \in Nat /\ e.size > 0
          /\ c.data \in Nat /\ c.size \in Nat /\ d.data \in Nat /\ d.size \in Nat
      BY <1>1, <1>2
    <2> QED
      BY SMTT(60), <1>2, <2>1, <2>2
  <1>9. \A e, f \in S : e # f => e.data + e.size <= f.data \/ f.data + f.size <= e.data
    <2> SUFFICES ASSUME NEW e \in S, NEW f \in S, e # f
                 PROVE  e.data + e.size <= f.data \/ f.data + f.size <= e.data
      OBVIOUS
    <2>0. c.data \in Nat /\ c.size \in Nat /\ d.data \in Nat /\ d.size \in Nat
      BY <1>1, <1>2
    <2>1. CASE e \in chunks \ {c, d} /\ f \in chunks \ {c, d}
      BY <2>1 DEF GoodArena
    <2>2. CASE e \in chunks \ {c, d} /\ f \notin chunks \ {c, d}
      BY SMTT(60), <2>0, <2>2, <1>2, <1>3, <1>4, <1>5, <1>8
    <2>3. CASE e \notin chunks \ {c, d} /\ f \in chunks \ {c, d}
      BY SMTT(60), <2>0, <2>3, <1>2, <1>3, <1>4, <1>5, <1>8
    <2>4. CASE e \notin chunks \ {c, d} /\ f \notin chunks \ {c, d}
      BY SMTT(60), <2>0, <2>4, <1>2, <1>3, <1>4, <1>5
    <2> QED
      BY <2>1, <2>2, <2>3, <2>4
  <1>10. GoodArena(S, lo, hi)
    BY <1>6, <1>7, <1>9 DEF GoodArena
  <1>11. InUse(S) = (InUse(chunks) \ {c}) \cup {u}
    BY <1>2, <1>3, <1>4, <1>5 DEF InUse
  <1> QED
    BY <1>10, <1>11 DEF S, u

-----------------------------------------------------------------------------
(* The inductive invariant: each block is a chunk in use of the arena, no  *)
(* two are the same one, or it is the master's and below the watermark.    *)

HasChunk(b, A) == \E c \in InUse(A) : c.data = b.at /\ b.size <= c.size

Hi == IF phase = "main" THEN HeapEnd ELSE ForkEnd
Masters == IF phase = "main" THEN {} ELSE master.live
Sound == phase = "main" \/ (phase = "fork" /\ watermark <= ForkEnd)

ArenaInv(A, lo, hi) == GoodArena(A, lo, hi) /\ \A c \in InUse(A) : c.size > 0

LiveInv(L, A, M) ==
    /\ L \subseteq Block
    /\ \A b \in L : b \in M \/ HasChunk(b, A)
    /\ \A b, d \in L : b.at = d.at => b = d

MasterInv(M, w) ==
    /\ w \in Addr /\ ArenaBase <= w /\ w <= HeapEnd
    /\ M \subseteq Block
    /\ \A b \in M : ArenaBase <= b.at /\ b.at < w /\ b.at + b.size <= w
    /\ \A b, d \in M : b # d => b.at # d.at /\
                                (b.at + b.size <= d.at \/ d.at + d.size <= b.at)

IInv ==
    /\ phase \in {"main", "idle", "fork"}
    /\ phase = "main" => base = ArenaBase
    /\ phase = "fork" => base = watermark
    /\ phase = "idle" => live = {}
    /\ phase # "main" => MasterInv(master.live, watermark)
    /\ Sound => ArenaInv(chunks, base, Hi) /\ LiveInv(live, chunks, Masters)

\* Chunks in use are apart, and so are the blocks in them.
LEMMA ChunksApart ==
    ASSUME NEW A, NEW lo \in Nat, NEW hi \in Nat, ArenaInv(A, lo, hi),
           NEW b \in Block, HasChunk(b, A)
    PROVE  /\ lo <= b.at /\ b.at < hi /\ b.at + b.size <= hi
           /\ \A d \in Block : HasChunk(d, A) /\ b.at # d.at =>
                b.at + b.size <= d.at \/ d.at + d.size <= b.at
           /\ \A f \in A : f.free /\ f.size > 0 => f.data # b.at
  <1>1. PICK c \in InUse(A) : c.data = b.at /\ b.size <= c.size
    BY DEF HasChunk
  <1>2. /\ c \in A /\ c.size > 0 /\ ~c.free /\ c.data \in Nat /\ c.size \in Nat
        /\ lo <= c.data /\ c.data + c.size <= hi /\ b.size \in Nat /\ b.at \in Nat
    BY SMTT(60), Ends DEF ArenaInv, GoodArena, InUse, Chunk, Block, Addr
  <1>3. ASSUME NEW d \in Block, HasChunk(d, A), b.at # d.at
        PROVE  b.at + b.size <= d.at \/ d.at + d.size <= b.at
    <2>1. PICK e \in InUse(A) : e.data = d.at /\ d.size <= e.size
      BY <1>3 DEF HasChunk
    <2>2. e \in A /\ e.data \in Nat /\ e.size \in Nat /\ d.size \in Nat /\ d.at \in Nat
      BY SMTT(60), Ends DEF ArenaInv, GoodArena, InUse, Chunk, Block, Addr
    <2>3. c.data + c.size <= e.data \/ e.data + e.size <= c.data
      BY <1>1, <1>2, <1>3, <2>1, <2>2 DEF ArenaInv, GoodArena
    <2> QED
      BY SMTT(60), <1>1, <1>2, <2>1, <2>2, <2>3
  <1>4. ASSUME NEW f \in A, f.free, f.size > 0 PROVE f.data # b.at
    <2>1. f.data \in Nat /\ f.size \in Nat
      BY SMTT(60), Ends DEF ArenaInv, GoodArena, Chunk, Addr
    <2>2. c.data + c.size <= f.data \/ f.data + f.size <= c.data
      BY <1>2, <1>4 DEF ArenaInv, GoodArena
    <2> QED
      BY SMTT(60), <1>1, <1>2, <1>4, <2>1, <2>2
  <1> QED
    BY SMTT(60), <1>1, <1>2, <1>3, <1>4

\* The invariant implies the property.
LEMMA InvApart == IInv => BlocksApart
  <1> SUFFICES ASSUME IInv, Room, live # {} PROVE
        /\ \A b \in live : ArenaBase <= b.at /\ b.at + b.size <= HeapEnd
        /\ \A b, d \in live : b # d => b.at + b.size <= d.at \/ d.at + d.size <= b.at
    BY DEF BlocksApart
  <1>1. Sound /\ ArenaInv(chunks, base, Hi) /\ LiveInv(live, chunks, Masters)
    <2>1. Sound
      BY DEF IInv, Sound, Room
    <2> QED
      BY <2>1 DEF IInv
  <1>2. /\ base \in Nat /\ Hi \in Nat /\ ArenaBase <= base /\ Hi <= HeapEnd
        /\ phase # "main" => base = watermark /\ MasterInv(master.live, watermark)
    <2>1. CASE phase = "main"
      BY SMTT(60), <1>1, <2>1, Ends DEF IInv, Hi
    <2>2. CASE phase # "main"
      <3>1. base = watermark /\ MasterInv(master.live, watermark)
        BY <1>1, <2>2 DEF IInv, Sound
      <3>2. watermark \in Nat /\ ArenaBase <= watermark
        BY SMTT(60), <3>1, Ends DEF MasterInv, Addr
      <3> QED
        BY <2>2, <3>1, <3>2, Ends DEF Hi
    <2> QED
      BY <2>1, <2>2
  <1>3. \A b \in live : b \in Block /\ b.at \in Nat /\ b.size \in Nat
    BY SMTT(60), <1>1, Ends DEF LiveInv, Block, Addr
  <1>4. ASSUME NEW b \in live PROVE ArenaBase <= b.at /\ b.at + b.size <= HeapEnd
    <2>1. CASE b \in Masters
      BY SMTT(60), <1>2, <1>3, <2>1, Ends DEF Masters, MasterInv, Addr
    <2>2. CASE HasChunk(b, chunks)
      BY SMTT(60), <1>1, <1>2, <1>3, <2>2, ChunksApart, Ends
    <2> QED
      BY <1>1, <2>1, <2>2 DEF LiveInv
  <1>5. ASSUME NEW b \in live, NEW d \in live, b # d
        PROVE  b.at + b.size <= d.at \/ d.at + d.size <= b.at
    <2>1. b.at # d.at
      BY <1>1, <1>5 DEF LiveInv
    <2>2. CASE b \in Masters /\ d \in Masters
      BY <1>2, <1>5, <2>2 DEF Masters, MasterInv
    <2>3. CASE b \in Masters /\ HasChunk(d, chunks)
      <3>1. b.at + b.size <= base
        BY <1>2, <2>3 DEF Masters, MasterInv
      <3>2. base <= d.at
        BY <1>1, <1>2, <1>3, <2>3, ChunksApart
      <3> QED
        BY SMTT(60), <1>2, <1>3, <3>1, <3>2
    <2>4. CASE HasChunk(b, chunks) /\ d \in Masters
      <3>1. d.at + d.size <= base
        BY <1>2, <2>4 DEF Masters, MasterInv
      <3>2. base <= b.at
        BY <1>1, <1>2, <1>3, <2>4, ChunksApart
      <3> QED
        BY SMTT(60), <1>2, <1>3, <3>1, <3>2
    <2>5. CASE HasChunk(b, chunks) /\ HasChunk(d, chunks)
      BY <1>1, <1>2, <1>3, <2>1, <2>5, ChunksApart
    <2> QED
      BY <1>1, <2>2, <2>3, <2>4, <2>5 DEF LiveInv
  <1> QED
    BY <1>4, <1>5

\* The arena of a guest that is sound: where it is, and what is below it.
LEMMA SoundFacts ==
    ASSUME IInv, Sound
    PROVE  /\ ArenaInv(chunks, base, Hi) /\ LiveInv(live, chunks, Masters)
           /\ base \in Nat /\ Hi \in Nat /\ Hi < Word
           /\ \A b \in live : b \in Masters => b.at < base
  <1>1. ArenaInv(chunks, base, Hi) /\ LiveInv(live, chunks, Masters)
    BY DEF IInv
  <1>2. Hi \in Nat /\ Hi < Word
    BY SMTT(60), Ends DEF Hi
  <1>3. CASE phase = "main"
    BY <1>1, <1>2, <1>3, Ends DEF IInv, Masters
  <1>4. CASE phase # "main"
    <2>1. base = watermark /\ MasterInv(master.live, watermark)
      BY <1>4 DEF IInv, Sound
    <2> QED
      BY SMTT(60), <1>1, <1>2, <1>4, <2>1, Ends DEF Masters, MasterInv, Addr
  <1> QED
    BY <1>3, <1>4

\* A system call that leaves a sound guest sound keeps the invariant.
LEMMA CallInv ==
    ASSUME IInv, Runs, UNCHANGED <<phase, base, post, master, watermark>>,
           Sound => ArenaInv(chunks', base, Hi) /\ LiveInv(live', chunks', Masters)
    PROVE  IInv'
  <1>1. /\ phase' = phase /\ base' = base /\ master' = master /\ watermark' = watermark
        /\ phase # "idle"
    BY DEF Runs
  <1>2. Sound' = Sound /\ Hi' = Hi /\ Masters' = Masters
    BY <1>1 DEF Sound, Hi, Masters
  <1>3. Sound' => ArenaInv(chunks', base', Hi') /\ LiveInv(live', chunks', Masters')
    BY <1>1, <1>2
  <1>4. phase' # "main" => MasterInv(master'.live, watermark')
    BY <1>1 DEF IInv
  <1> QED
    BY <1>1, <1>3, <1>4 DEF IInv

\* A block that has a chunk where no other block is can be added.
LEMMA AddBlock ==
    ASSUME NEW L, NEW A, NEW M, LiveInv(L, A, M),
           NEW n \in Block, HasChunk(n, A), \A b \in L : b.at # n.at
    PROVE  LiveInv(L \cup {n}, A, M)
  BY DEF LiveInv

\* Blocks can be taken away, and chunks in use that have no block.
LEMMA KeepBlocks ==
    ASSUME NEW L, NEW A, NEW M, LiveInv(L, A, M), NEW K \in SUBSET L, NEW S,
           \A b \in K : b \in M \/ HasChunk(b, A) => b \in M \/ HasChunk(b, S)
    PROVE  LiveInv(K, S, M)
  BY DEF LiveInv

\* A free chunk that FindFree finds is split, and no block is where it is.
LEMMA Found ==
    ASSUME IInv, Sound, NEW n \in Sizes, NEW c \in chunks, FindFree(c, Fixup(n)), NEW t \in Tags
    PROVE  /\ ArenaInv(Split(c, Fixup(n)), base, Hi)
           /\ InUse(chunks) \subseteq InUse(Split(c, Fixup(n)))
           /\ [at |-> c.data, size |-> n, tag |-> t] \in Block
           /\ HasChunk([at |-> c.data, size |-> n, tag |-> t], Split(c, Fixup(n)))
           /\ LiveInv(live, Split(c, Fixup(n)), Masters)
           /\ \A b \in live : b.at # c.data
  <1> DEFINE k == Fixup(n)
             u == [data |-> c.data, size |-> k, free |-> FALSE]
             b0 == [at |-> c.data, size |-> n, tag |-> t]
  <1>1. /\ ArenaInv(chunks, base, Hi) /\ LiveInv(live, chunks, Masters)
        /\ base \in Nat /\ Hi \in Nat /\ Hi < Word
        /\ \A b \in live : b \in Masters => b.at < base
    BY SoundFacts
  <1>2. n \in Nat /\ k \in Nat /\ 0 < k /\ n <= k
    BY SMTT(60), HeapAssumption DEF Fixup
  <1>3. c.free /\ k <= c.size
    BY DEF FindFree, Fits
  <1>4. c.data \in Addr /\ c.size \in Addr /\ base <= c.data
    BY <1>1 DEF ArenaInv, GoodArena, Chunk
  <1>5. GoodArena(chunks, base, Hi) /\ \A d \in InUse(chunks) : d.size > 0
    BY <1>1 DEF ArenaInv
  <1> HIDE DEF k
  <1>6. GoodArena(Split(c, k), base, Hi) /\ InUse(Split(c, k)) = InUse(chunks) \cup {u}
    BY <1>1, <1>2, <1>3, <1>5, SplitGood
  <1>7. ArenaInv(Split(c, k), base, Hi)
    BY SMTT(60), <1>2, <1>5, <1>6 DEF ArenaInv
  <1>8. b0 \in Block
    BY SMTT(60), <1>2, <1>3, <1>4, Ends DEF Block, Addr
  <1>9. HasChunk(b0, Split(c, k))
    <2>1. u.data = b0.at /\ b0.size <= u.size /\ u \in InUse(Split(c, k))
      BY <1>2, <1>6
    <2> HIDE DEF u, b0
    <2> QED
      BY <2>1 DEF HasChunk
  <1>10. \A b \in live : HasChunk(b, chunks) => HasChunk(b, Split(c, k))
    BY <1>6 DEF HasChunk
  <1>11. LiveInv(live, Split(c, k), Masters)
    BY <1>1, <1>10, KeepBlocks
  <1>12. ASSUME NEW b \in live PROVE b.at # c.data
    <2>1. b \in Block /\ b.at \in Nat /\ c.data \in Nat /\ c.size \in Nat /\ c.size > 0
      BY SMTT(60), <1>1, <1>2, <1>3, <1>4, Ends DEF LiveInv, Block, Addr
    <2>2. CASE b \in Masters
      BY SMTT(60), <1>1, <1>4, <2>1, <2>2
    <2>3. CASE HasChunk(b, chunks)
      BY <1>1, <1>3, <2>1, <2>3, ChunksApart
    <2> QED
      BY <1>1, <2>2, <2>3 DEF LiveInv
  <1> QED
    BY <1>6, <1>7, <1>8, <1>9, <1>11, <1>12 DEF k

\* The chunk that a block is in: the one that begin_find_used finds.
LEMMA TheChunk ==
    ASSUME IInv, Sound, NEW b \in live, NEW c \in UsedAt(chunks, b.at)
    PROVE  /\ c \in InUse(chunks) /\ c \in chunks /\ c.data = b.at /\ c.size > 0 /\ ~c.free
           /\ c.size \in Nat
           /\ UsedAt(chunks, b.at) = {c}
           /\ b \notin Masters
           /\ b.size <= c.size
           /\ \A d \in live \ {b} : HasChunk(d, chunks) =>
                \E e \in InUse(chunks) \ {c} : e.data = d.at /\ d.size <= e.size
  <1>1. /\ ArenaInv(chunks, base, Hi) /\ LiveInv(live, chunks, Masters)
        /\ base \in Nat /\ \A d \in live : d \in Masters => d.at < base
    BY SoundFacts
  <1>2. c \in InUse(chunks) /\ c \in chunks /\ c.data = b.at /\ c.size > 0 /\ ~c.free
    BY <1>1 DEF UsedAt, InUse, ArenaInv
  <1>3. \A e \in chunks : e.data \in Nat /\ e.size \in Nat /\ base <= e.data
    BY SMTT(60), <1>1, Ends DEF ArenaInv, GoodArena, Chunk, Addr
  <1>4. \A e \in InUse(chunks) : e.data = c.data => e = c
    <2> SUFFICES ASSUME NEW e \in InUse(chunks), e.data = c.data, e # c PROVE FALSE
      OBVIOUS
    <2>1. e \in chunks /\ e.size > 0
      BY <1>1 DEF InUse, ArenaInv
    <2>2. e.data + e.size <= c.data \/ c.data + c.size <= e.data
      BY <1>1, <1>2, <2>1 DEF ArenaInv, GoodArena
    <2> QED
      BY SMTT(60), <1>2, <1>3, <2>1, <2>2
  <1>5. UsedAt(chunks, b.at) = {c}
    BY <1>2, <1>4 DEF UsedAt, InUse
  <1>6. b \notin Masters
    BY SMTT(60), <1>1, <1>2, <1>3
  <1>7. b.size <= c.size
    <2>1. HasChunk(b, chunks)
      BY <1>1, <1>6 DEF LiveInv
    <2> QED
      BY <1>2, <1>4, <2>1 DEF HasChunk
  <1>8. ASSUME NEW d \in live \ {b}, HasChunk(d, chunks)
        PROVE  \E e \in InUse(chunks) \ {c} : e.data = d.at /\ d.size <= e.size
    <2>1. d.at # b.at
      BY <1>1, <1>8 DEF LiveInv
    <2> QED
      BY <1>2, <1>8, <2>1 DEF HasChunk
  <1> QED
    BY <1>2, <1>3, <1>5, <1>6, <1>7, <1>8

\* malloc.
LEMMA MallocInv ==
    ASSUME IInv, NEW n \in Sizes, NEW t \in Tags, Malloc(n, t)
    PROVE  IInv'
  <1>1. PICK c \in chunks : /\ FindFree(c, Fixup(n))
                            /\ chunks' = Split(c, Fixup(n))
                            /\ live' = live \cup {[at |-> c.data, size |-> n, tag |-> t]}
    BY DEF Malloc
  <1>2. Sound => ArenaInv(chunks', base, Hi) /\ LiveInv(live', chunks', Masters)
    <2> SUFFICES ASSUME Sound
                 PROVE  ArenaInv(chunks', base, Hi) /\ LiveInv(live', chunks', Masters)
      OBVIOUS
    <2> DEFINE n0 == [at |-> c.data, size |-> n, tag |-> t]
               S == Split(c, Fixup(n))
    <2>1. /\ ArenaInv(S, base, Hi) /\ n0 \in Block /\ HasChunk(n0, S)
          /\ LiveInv(live, S, Masters)
          /\ \A b \in live : b.at # c.data
      BY <1>1, Found
    <2>2. n0.at = c.data
      OBVIOUS
    <2>3. chunks' = S /\ live' = live \cup {n0}
      BY <1>1
    <2> HIDE DEF n0, S
    <2>4. LiveInv(live \cup {n0}, S, Masters)
      BY <2>1, <2>2, AddBlock
    <2> QED
      BY <2>1, <2>3, <2>4
  <1> QED
    BY <1>2, CallInv DEF Malloc

\* free.
LEMMA FreeInv ==
    ASSUME IInv, NEW b \in live, Free(b)
    PROVE  IInv'
  <1>1. Sound => ArenaInv(chunks', base, Hi) /\ LiveInv(live', chunks', Masters)
    <2> SUFFICES ASSUME Sound
                 PROVE  ArenaInv(chunks', base, Hi) /\ LiveInv(live', chunks', Masters)
      OBVIOUS
    <2>1. /\ ArenaInv(chunks, base, Hi) /\ LiveInv(live, chunks, Masters)
          /\ base \in Nat /\ Hi \in Nat /\ Hi < Word
      BY SoundFacts
    <2>2. live' = live \ {b} /\ chunks' = FreedChunks(b)
      BY DEF Free
    <2>3. CASE UsedAt(chunks, b.at) = {}
      <3>1. chunks' = chunks
        BY <2>2, <2>3 DEF FreedChunks
      <3> QED
        BY <2>1, <2>2, <3>1, KeepBlocks
    <2>4. CASE UsedAt(chunks, b.at) # {}
      <3>1. PICK c \in UsedAt(chunks, b.at) : TRUE
        BY <2>4
      <3>2. UsedAt(chunks, b.at) = {c}
        BY TheChunk
      <3>3. (CHOOSE d \in UsedAt(chunks, b.at) : TRUE) = c
        BY <3>2
      <3>4. chunks' = InternalFree(chunks, c)
        BY <2>2, <2>4, <3>3 DEF FreedChunks
      <3>5. /\ c \in chunks /\ c.size > 0 /\ ~c.free
            /\ \A d \in live \ {b} : HasChunk(d, chunks) =>
                 \E e \in InUse(chunks) \ {c} : e.data = d.at /\ d.size <= e.size
        BY TheChunk
      <3>6. GoodArena(InternalFree(chunks, c), base, Hi) /\
            InUse(InternalFree(chunks, c)) = InUse(chunks) \ {c}
        BY SMTT(60), <2>1, <3>5, MergeGood DEF ArenaInv
      <3>7. ArenaInv(chunks', base, Hi)
        BY <2>1, <3>4, <3>6 DEF ArenaInv
      <3>8. \A d \in live \ {b} : HasChunk(d, chunks) => HasChunk(d, chunks')
        BY <3>4, <3>5, <3>6 DEF HasChunk
      <3> QED
        BY <2>1, <2>2, <3>7, <3>8, KeepBlocks
    <2> QED
      BY <2>3, <2>4
  <1> QED
    BY <1>1, CallInv DEF Free

\* The block after a realloc in place.
LEMMA SameAddress ==
    ASSUME NEW b \in Block, NEW m \in Nat, NEW c \in Chunk, m <= c.size
    PROVE  [at |-> b.at, size |-> m, tag |-> b.tag] \in Block
  <1>1. m \in Addr /\ b.at \in Addr /\ b.tag \in Tags
    BY SMTT(60), Ends DEF Chunk, Block, Addr
  <1> QED
    BY <1>1 DEF Block

\* realloc that leaves the chunk as it is.
LEMMA StaysInv ==
    ASSUME IInv, NEW b \in live, NEW n \in Sizes, ReallocStays(b, n)
    PROVE  IInv'
  <1> DEFINE r == [at |-> b.at, size |-> n, tag |-> b.tag]
  <1>1. PICK c \in UsedAt(chunks, b.at) : c.size >= Fixup(n)
    BY DEF ReallocStays
  <1>2. chunks' = chunks /\ live' = (live \ {b}) \cup {r}
    BY DEF ReallocStays, Moved
  <1>3. n \in Nat /\ n <= Fixup(n) /\ Fixup(n) \in Nat
    BY SMTT(60), HeapAssumption DEF Fixup
  <1>4. Sound => ArenaInv(chunks', base, Hi) /\ LiveInv(live', chunks', Masters)
    <2> SUFFICES ASSUME Sound
                 PROVE  ArenaInv(chunks', base, Hi) /\ LiveInv(live', chunks', Masters)
      OBVIOUS
    <2>1. ArenaInv(chunks, base, Hi) /\ LiveInv(live, chunks, Masters)
      BY SoundFacts
    <2>2. c \in InUse(chunks) /\ c \in Chunk /\ c.data = b.at /\ n <= c.size /\ b \in Block
      BY SMTT(60), <1>1, <1>3, <2>1, TheChunk DEF ArenaInv, GoodArena, LiveInv
    <2>3. r \in Block
      BY <1>3, <2>2, SameAddress
    <2>4. r.at = b.at /\ r.size = n
      OBVIOUS
    <2> HIDE DEF r
    <2>5. HasChunk(r, chunks)
      BY <2>2, <2>4 DEF HasChunk
    <2>6. LiveInv(live \ {b}, chunks, Masters)
      BY <2>1, KeepBlocks
    <2>7. \A d \in live \ {b} : d.at # r.at
      BY <2>1, <2>4 DEF LiveInv
    <2>8. LiveInv((live \ {b}) \cup {r}, chunks, Masters)
      BY <2>3, <2>5, <2>6, <2>7, AddBlock
    <2> QED
      BY <1>2, <2>1, <2>8
  <1> QED
    BY <1>4, CallInv DEF ReallocStays

\* realloc into the chunk that follows.
LEMMA GrowsInv ==
    ASSUME IInv, NEW b \in live, NEW n \in Sizes, ReallocGrows(b, n)
    PROVE  IInv'
  <1> DEFINE r == [at |-> b.at, size |-> n, tag |-> b.tag]
             k == Fixup(n)
  <1>0. PICK c \in UsedAt(chunks, b.at) :
          \E d \in Growable(c, k) : c.size < k /\ chunks' = Subsume(c, d, k)
    BY DEF ReallocGrows
  <1>1. PICK d \in Growable(c, k) : c.size < k /\ chunks' = Subsume(c, d, k)
    BY <1>0
  <1>2. live' = (live \ {b}) \cup {r}
    BY DEF ReallocGrows, Moved
  <1>3. n \in Nat /\ n <= k /\ k \in Nat
    BY SMTT(60), HeapAssumption DEF Fixup
  <1> HIDE DEF k
  <1>4. Sound => ArenaInv(chunks', base, Hi) /\ LiveInv(live', chunks', Masters)
    <2> SUFFICES ASSUME Sound
                 PROVE  ArenaInv(chunks', base, Hi) /\ LiveInv(live', chunks', Masters)
      OBVIOUS
    <2> DEFINE u == [data |-> c.data, size |-> k, free |-> FALSE]
               S == Subsume(c, d, k)
    <2>1. /\ ArenaInv(chunks, base, Hi) /\ LiveInv(live, chunks, Masters)
          /\ base \in Nat /\ Hi \in Nat /\ Hi < Word
      BY SoundFacts
    <2>2. /\ c \in chunks /\ c.data = b.at /\ c.size > 0 /\ ~c.free /\ c.size \in Nat
          /\ \A x \in live \ {b} : HasChunk(x, chunks) =>
               \E e \in InUse(chunks) \ {c} : e.data = x.at /\ x.size <= e.size
      BY TheChunk
    <2>3. GoodArena(S, base, Hi) /\ InUse(S) = (InUse(chunks) \ {c}) \cup {u}
      BY <1>1, <1>3, <2>1, <2>2, SubsumeGood DEF ArenaInv
    <2>4. u.data = b.at /\ u.size = k /\ u.size > 0
      BY SMTT(60), <1>1, <1>3, <2>2
    <2>5. r.at = b.at /\ r.size = n
      OBVIOUS
    <2> HIDE DEF u, S
    <2>6. ArenaInv(S, base, Hi)
      BY <2>1, <2>3, <2>4 DEF ArenaInv
    <2>7. u \in Chunk /\ b \in Block
      BY <2>1, <2>3 DEF GoodArena, InUse, LiveInv
    <2>8. r \in Block
      BY <1>3, <2>4, <2>7, SameAddress
    <2> HIDE DEF r
    <2>9. HasChunk(r, S)
      BY <1>3, <2>3, <2>4, <2>5 DEF HasChunk
    <2>10. \A x \in live \ {b} : HasChunk(x, chunks) => HasChunk(x, S)
      BY <2>2, <2>3 DEF HasChunk
    <2>11. LiveInv(live \ {b}, S, Masters)
      BY <2>1, <2>10, KeepBlocks
    <2>12. \A x \in live \ {b} : x.at # r.at
      BY <2>1, <2>5 DEF LiveInv
    <2>13. LiveInv((live \ {b}) \cup {r}, S, Masters)
      BY <2>8, <2>9, <2>11, <2>12, AddBlock
    <2> QED
      BY <1>1, <1>2, <2>6, <2>13 DEF S
  <1> QED
    BY <1>4, CallInv DEF ReallocGrows

\* realloc to another chunk.
LEMMA MovesInv ==
    ASSUME IInv, NEW b \in live, NEW n \in Sizes, ReallocMoves(b, n)
    PROVE  IInv'
  <1>1. PICK c \in UsedAt(chunks, b.at), e \in chunks :
          /\ FindFree(e, Fixup(n))
          /\ chunks' = InternalFree(Split(e, Fixup(n)), c)
          /\ live' = (live \ {b}) \cup {[at |-> e.data, size |-> n, tag |-> b.tag]}
    BY DEF ReallocMoves, Moved
  <1>2. Sound => ArenaInv(chunks', base, Hi) /\ LiveInv(live', chunks', Masters)
    <2> SUFFICES ASSUME Sound
                 PROVE  ArenaInv(chunks', base, Hi) /\ LiveInv(live', chunks', Masters)
      OBVIOUS
    <2> DEFINE r == [at |-> e.data, size |-> n, tag |-> b.tag]
               A == Split(e, Fixup(n))
               S == InternalFree(A, c)
    <2>1. /\ ArenaInv(chunks, base, Hi) /\ LiveInv(live, chunks, Masters)
          /\ base \in Nat /\ Hi \in Nat /\ Hi < Word
      BY SoundFacts
    <2>2. b \in Block /\ b.tag \in Tags
      BY <2>1 DEF LiveInv, Block
    <2>3. /\ ArenaInv(A, base, Hi) /\ InUse(chunks) \subseteq InUse(A)
          /\ r \in Block /\ HasChunk(r, A) /\ LiveInv(live, A, Masters)
          /\ \A x \in live : x.at # e.data
      BY <1>1, <2>2, Found
    <2>4. /\ c \in InUse(chunks) /\ c.data = b.at /\ c.size > 0 /\ ~c.free
          /\ \A x \in live \ {b} : HasChunk(x, chunks) =>
               \E f \in InUse(chunks) \ {c} : f.data = x.at /\ x.size <= f.size
      BY TheChunk
    <2>5. r.at = e.data
      OBVIOUS
    <2>6. chunks' = S /\ live' = (live \ {b}) \cup {r}
      BY <1>1
    <2> HIDE DEF r, A
    <2>7. c \in A
      BY <2>3, <2>4 DEF InUse
    <2>8. GoodArena(S, base, Hi) /\ InUse(S) = InUse(A) \ {c}
      BY SMTT(60), <2>1, <2>3, <2>4, <2>7, MergeGood DEF ArenaInv
    <2> HIDE DEF S
    <2>9. ArenaInv(S, base, Hi)
      BY <2>3, <2>8 DEF ArenaInv
    <2>10. HasChunk(r, S)
      BY <2>3, <2>4, <2>5, <2>8 DEF HasChunk
    <2>11. \A x \in live \ {b} : HasChunk(x, chunks) => HasChunk(x, S)
      BY <2>3, <2>4, <2>8 DEF HasChunk
    <2>12. LiveInv(live \ {b}, S, Masters)
      BY <2>1, <2>11, KeepBlocks
    <2>13. LiveInv((live \ {b}) \cup {r}, S, Masters)
      BY <2>3, <2>5, <2>10, <2>12, AddBlock
    <2> QED
      BY <2>6, <2>9, <2>13
  <1> QED
    BY <1>2, CallInv DEF ReallocMoves

\* realloc of a block of the master in a fork.
LEMMA MasterRealloc ==
    ASSUME IInv, NEW b \in live, NEW n \in Sizes, ReallocMaster(b, n)
    PROVE  IInv'
  <1>1. PICK e \in chunks :
          /\ FindFree(e, Fixup(n))
          /\ chunks' = Split(e, Fixup(n))
          /\ live' = (live \ {b}) \cup {[at |-> e.data, size |-> n, tag |-> b.tag]}
    BY DEF ReallocMaster, Moved
  <1>2. Sound => ArenaInv(chunks', base, Hi) /\ LiveInv(live', chunks', Masters)
    <2> SUFFICES ASSUME Sound
                 PROVE  ArenaInv(chunks', base, Hi) /\ LiveInv(live', chunks', Masters)
      OBVIOUS
    <2> DEFINE r == [at |-> e.data, size |-> n, tag |-> b.tag]
               S == Split(e, Fixup(n))
    <2>1. LiveInv(live, chunks, Masters)
      BY SoundFacts
    <2>2. b \in Block /\ b.tag \in Tags
      BY <2>1 DEF LiveInv, Block
    <2>3. /\ ArenaInv(S, base, Hi)
          /\ r \in Block /\ HasChunk(r, S) /\ LiveInv(live, S, Masters)
          /\ \A x \in live : x.at # e.data
      BY <1>1, <2>2, Found
    <2>4. r.at = e.data
      OBVIOUS
    <2>5. chunks' = S /\ live' = (live \ {b}) \cup {r}
      BY <1>1
    <2> HIDE DEF r, S
    <2>6. LiveInv(live \ {b}, S, Masters)
      BY <2>3, KeepBlocks
    <2>7. LiveInv((live \ {b}) \cup {r}, S, Masters)
      BY <2>3, <2>4, <2>6, AddBlock
    <2> QED
      BY <2>3, <2>5, <2>7
  <1>3. Runs
    BY DEF ReallocMaster, Runs
  <1> QED
    BY <1>2, <1>3, CallInv DEF ReallocMaster

-----------------------------------------------------------------------------
(* The Scripts.                                                            *)

\* A new arena is one chunk.
LEMMA NewGood ==
    ASSUME NEW lo \in Nat, NEW hi \in Nat, lo <= hi, hi < Word
    PROVE  ArenaInv(NewChunks(lo, hi), lo, hi)
  <1> DEFINE c == [data |-> lo, size |-> Minus(hi, lo), free |-> TRUE]
  <1>1. c \in Chunk /\ c.data = lo /\ c.size = hi - lo /\ c.free
    BY SMTT(60), Ends DEF Minus, Chunk, Addr
  <1>2. NewChunks(lo, hi) = {c}
    BY DEF NewChunks
  <1> HIDE DEF c
  <1> QED
    BY SMTT(60), <1>1, <1>2 DEF ArenaInv, GoodArena, InUse

\* The master before main().
LEMMA InitInv == Init => IInv
  <1> SUFFICES ASSUME Init PROVE IInv
    OBVIOUS
  <1>1. ArenaInv(chunks, base, Hi)
    BY NewGood, Ends DEF Init, Hi
  <1>2. LiveInv(live, chunks, Masters)
    BY DEF Init, LiveInv
  <1> QED
    BY <1>1, <1>2 DEF Init, IInv

\* The master waits: its blocks are below the watermark.
LEMMA WaitInv ==
    ASSUME IInv, WaitForRequests
    PROVE  IInv'
  <1>1. PICK w \in Addr : IsWatermark(w) /\ watermark' = w
    BY DEF WaitForRequests
  <1>2. /\ phase = "main" /\ phase' = "idle" /\ live' = {}
        /\ master'.live = live
    BY DEF WaitForRequests
  <1>3. /\ ArenaInv(chunks, base, Hi) /\ LiveInv(live, chunks, {})
        /\ base = ArenaBase /\ Hi = HeapEnd
    BY <1>2 DEF IInv, Sound, Hi, Masters
  <1>4. \A c \in InUse(chunks) : /\ c \in chunks /\ c.data \in Nat /\ c.size \in Nat
                                 /\ c.size > 0 /\ ArenaBase <= c.data
                                 /\ c.data + c.size <= HeapEnd
    BY SMTT(60), <1>3, Ends DEF ArenaInv, GoodArena, InUse, Chunk, Addr
  <1>5. \A c \in InUse(chunks) : Plus(c.data, c.size) = c.data + c.size
    BY SMTT(60), <1>4, Ends DEF Plus
  <1>6. ArenaBase <= w /\ \A c \in InUse(chunks) : c.data + c.size <= w
    BY <1>1, <1>5 DEF IsWatermark, InUse
  <1>7. w <= HeapEnd
    BY <1>1, <1>4, <1>5, Ends DEF IsWatermark, InUse
  <1>8. ASSUME NEW b \in live
        PROVE  b \in Block /\ ArenaBase <= b.at /\ b.at < w /\ b.at + b.size <= w
    <2>1. PICK c \in InUse(chunks) : c.data = b.at /\ b.size <= c.size
      BY <1>3 DEF LiveInv, HasChunk
    <2>2. b \in Block /\ b.size \in Nat /\ w \in Nat
      BY SMTT(60), <1>3, Ends DEF LiveInv, Block, Addr
    <2> QED
      BY SMTT(60), <1>4, <1>6, <2>1, <2>2
  <1>9. \A b, d \in live : b # d => b.at # d.at /\
                                    (b.at + b.size <= d.at \/ d.at + d.size <= b.at)
    <2>1. BlocksApart /\ Room
      BY <1>2, InvApart DEF Room
    <2> QED
      BY <1>3, <2>1 DEF BlocksApart, LiveInv
  <1>10. MasterInv(live, w)
    BY <1>6, <1>7, <1>8, <1>9 DEF MasterInv
  <1>11. MasterInv(master'.live, watermark')
    BY <1>1, <1>2, <1>10
  <1>12. ~Sound'
    BY <1>2 DEF Sound
  <1> QED
    BY <1>2, <1>11, <1>12 DEF IInv

\* A fork begins.
LEMMA ForkInv ==
    ASSUME IInv, Fork
    PROVE  IInv'
  <1>1. /\ phase' = "fork" /\ base' = watermark /\ chunks' = NewChunks(watermark, ForkEnd)
        /\ live' = master.live /\ master' = master /\ watermark' = watermark
    BY DEF Fork
  <1>2. MasterInv(master.live, watermark)
    BY DEF IInv, Fork
  <1>3. watermark \in Nat /\ master.live \subseteq Block
    BY SMTT(60), <1>2, Ends DEF MasterInv, Addr
  <1>4. Sound' => ArenaInv(chunks', base', Hi')
    <2> SUFFICES ASSUME Sound' PROVE ArenaInv(chunks', base', Hi')
      OBVIOUS
    <2>1. watermark <= ForkEnd /\ Hi' = ForkEnd /\ ForkEnd < Word /\ ForkEnd \in Nat
      BY SMTT(60), <1>1, Ends DEF Sound, Hi
    <2> QED
      BY <1>1, <1>3, <2>1, NewGood
  <1>5. LiveInv(live', chunks', Masters')
    <2>1. Masters' = master.live
      BY <1>1 DEF Masters
    <2> QED
      BY <1>1, <1>2, <1>3, <2>1 DEF LiveInv, MasterInv
  <1>6. MasterInv(master'.live, watermark')
    BY <1>1, <1>2
  <1> QED
    BY <1>1, <1>4, <1>5, <1>6 DEF IInv

\* The other steps of a fork.
LEMMA OtherInv ==
    ASSUME IInv, AllocatePost \/ EndFork \/ UNCHANGED vars
    PROVE  IInv'
  <1>1. CASE AllocatePost \/ UNCHANGED vars
    <2>1. UNCHANGED <<phase, base, chunks, live, master, watermark>>
      BY <1>1 DEF AllocatePost, vars
    <2>2. Sound' = Sound /\ Hi' = Hi /\ Masters' = Masters
      BY <2>1 DEF Sound, Hi, Masters
    <2>3. Sound' => ArenaInv(chunks', base', Hi') /\ LiveInv(live', chunks', Masters')
      BY <2>1, <2>2 DEF IInv
    <2>4. phase' # "main" => MasterInv(master'.live, watermark')
      BY <2>1 DEF IInv
    <2> QED
      BY <2>1, <2>3, <2>4 DEF IInv
  <1>2. CASE EndFork
    <2>1. /\ phase = "fork" /\ phase' = "idle" /\ live' = {}
          /\ master' = master /\ watermark' = watermark
      BY <1>2 DEF EndFork
    <2>2. MasterInv(master'.live, watermark')
      BY <2>1 DEF IInv
    <2>3. ~Sound'
      BY <2>1 DEF Sound
    <2> QED
      BY <2>1, <2>2, <2>3 DEF IInv
  <1> QED
    BY <1>1, <1>2

\* Every step keeps the invariant.
LEMMA NextInv == IInv /\ [Next]_vars => IInv'
  <1> SUFFICES ASSUME IInv, [Next]_vars PROVE IInv'
    OBVIOUS
  <1>1. CASE SystemCall
    BY <1>1, MallocInv, FreeInv, StaysInv, GrowsInv, MovesInv, MasterRealloc DEF SystemCall
  <1>2. CASE WaitForRequests
    BY <1>2, WaitInv
  <1>3. CASE Fork
    BY <1>3, ForkInv
  <1> QED
    BY <1>1, <1>2, <1>3, OtherInv DEF Next

\* The blocks that a guest has are in the heap and apart, whatever it and the
\* master do, unless the master has left no room for the fork's arena.
THEOREM HeapApart == Spec => []BlocksApart
  BY NextInv, InitInv, InvApart, PTL DEF Spec

-----------------------------------------------------------------------------
(* Contents: what the guest wrote to its blocks is what it reads.          *)

\* A cell, by its distance from the beginning.  Cells wrap at the end of memory.
LEMMA CellsIs ==
    ASSUME NEW p \in Addr, NEW n \in 0 .. Word, NEW a \in Addr, p <= a
    PROVE  a \in Cells(p, n) <=> a < p + n
  <1>0. p \in Nat /\ a \in Nat /\ n \in Nat /\ Word \in Nat /\ a < Word /\ p < Word
    BY SMTT(60), Ends DEF Addr
  <1>1. ASSUME a \in Cells(p, n) PROVE a < p + n
    <2>1. PICK i \in 0 .. n - 1 : a = Plus(p, i)
      BY <1>1 DEF Cells
    <2>2. CASE p + i < Word
      BY SMTT(60), <1>0, <2>1, <2>2 DEF Plus
    <2>3. CASE ~(p + i < Word)
      <3>1. a = p + i - Word
        BY <2>1, <2>3 DEF Plus
      <3> QED
        BY SMTT(60), <1>0, <2>1, <3>1
    <2> QED
      BY <2>2, <2>3
  <1>2. ASSUME a < p + n PROVE a \in Cells(p, n)
    <2>1. PICK i : i = a - p /\ i \in 0 .. n - 1 /\ p + i = a
      BY SMTT(60), <1>0, <1>2
    <2>2. a = Plus(p, i)
      BY <1>0, <2>1 DEF Plus
    <2> QED
      BY <2>1, <2>2 DEF Cells
  <1> QED
    BY <1>1, <1>2

\* Cells that do not wrap are an interval.
LEMMA CellsInterval ==
    ASSUME NEW p \in Addr, NEW n \in Nat, p + n <= Word
    PROVE  \A a : a \in Cells(p, n) <=> a \in Addr /\ p <= a /\ a < p + n
  <1>0. p \in Nat /\ Word \in Nat /\ n \in 0 .. Word /\ p < Word
    BY SMTT(60), Ends DEF Addr
  <1>1. ASSUME NEW a \in Cells(p, n) PROVE a \in Addr /\ p <= a
    <2>1. PICK i \in 0 .. n - 1 : a = Plus(p, i)
      BY DEF Cells
    <2> QED
      BY SMTT(60), <1>0, <2>1 DEF Plus, Addr
  <1> QED
    BY <1>0, <1>1, CellsIs

\* What is in memory: in the blocks of a sound guest, in its POST area, and in the
\* blocks of the master, whose chunks are at least as large.
Holds(L, m) == \A b \in L : \A a \in Cells(b.at, b.size) : m[a] = b.tag
PostHolds(m) == \A a \in Cells(HeapEnd, PostSize) : m[a] = Posted

ContentsInv ==
    /\ Sound => Holds(live, mem) /\ (post => PostHolds(mem))
    /\ phase # "main" => Holds(master.live, master.mem)
    /\ phase # "main" => \A b \in master.live : \A c \in UsedAt(master.chunks, b.at) :
                           c.size \in Nat /\ b.size <= c.size
    /\ phase # "fork" => post = FALSE
    /\ phase = "idle" => mem = master.mem

\* The blocks of a guest as sets of cells: apart from each other and from the POST
\* area.
ApartCells ==
    /\ \A b \in live : /\ b.at \in Addr /\ b.size \in Nat /\ b.at + b.size <= HeapEnd
                       /\ \A a : a \in Cells(b.at, b.size) <=>
                                   a \in Addr /\ b.at <= a /\ a < b.at + b.size
    /\ \A b, d \in live : b # d => Cells(b.at, b.size) \cap Cells(d.at, d.size) = {}
    /\ \A b \in live : Cells(b.at, b.size) \cap Cells(HeapEnd, PostSize) = {}
    /\ \A a : a \in Cells(HeapEnd, PostSize) <=>
                a \in Addr /\ HeapEnd <= a /\ a < HeapEnd + PostSize

LEMMA CellsApart == IInv /\ Sound => ApartCells
  <1> SUFFICES ASSUME IInv, Sound PROVE ApartCells
    OBVIOUS
  <1>1. BlocksApart /\ Room /\ LiveInv(live, chunks, Masters)
    BY InvApart, SoundFacts DEF Sound, Room
  <1>2. \A b \in live : b.at \in Addr /\ b.size \in Nat /\ b.at + b.size <= HeapEnd
    BY SMTT(60), <1>1, Ends DEF BlocksApart, LiveInv, Block, Addr
  <1>3. \A b, d \in live : b # d => b.at + b.size <= d.at \/ d.at + d.size <= b.at
    BY <1>1 DEF BlocksApart
  <1>4. ASSUME NEW b \in live
        PROVE  \A a : a \in Cells(b.at, b.size) <=>
                        a \in Addr /\ b.at <= a /\ a < b.at + b.size
    <2>1. b.at \in Addr /\ b.size \in Nat /\ b.at + b.size <= Word
      BY SMTT(60), <1>2, Ends DEF Addr
    <2> QED
      BY <2>1, CellsInterval
  <1>5. \A a : a \in Cells(HeapEnd, PostSize) <=>
                 a \in Addr /\ HeapEnd <= a /\ a < HeapEnd + PostSize
    <2>1. HeapEnd \in Addr /\ PostSize \in Nat /\ HeapEnd + PostSize <= Word
      BY SMTT(60), Ends, HeapAssumption DEF Addr
    <2> QED
      BY <2>1, CellsInterval
  <1>6. ASSUME NEW b \in live, NEW d \in live, b # d,
               NEW a \in Cells(b.at, b.size), a \in Cells(d.at, d.size)
        PROVE  FALSE
    <2>1. a \in Nat /\ b.at <= a /\ a < b.at + b.size /\ d.at <= a /\ a < d.at + d.size
      BY SMTT(60), <1>4, <1>6, Ends DEF Addr
    <2>2. b.at \in Nat /\ b.size \in Nat /\ d.at \in Nat /\ d.size \in Nat
      BY SMTT(60), <1>2, Ends DEF Addr
    <2>3. b.at + b.size <= d.at \/ d.at + d.size <= b.at
      BY <1>3, <1>6
    <2> QED
      BY SMTT(60), <2>1, <2>2, <2>3
  <1>7. ASSUME NEW b \in live, NEW a \in Cells(b.at, b.size), a \in Cells(HeapEnd, PostSize)
        PROVE  FALSE
    <2>1. a \in Nat /\ a < b.at + b.size /\ HeapEnd <= a
      BY SMTT(60), <1>4, <1>5, <1>7, Ends DEF Addr
    <2>2. b.at \in Nat /\ b.size \in Nat /\ b.at + b.size <= HeapEnd
      BY SMTT(60), <1>2, Ends DEF Addr
    <2> QED
      BY SMTT(60), <2>1, <2>2, Ends
  <1>8. \A b, d \in live : b # d => Cells(b.at, b.size) \cap Cells(d.at, d.size) = {}
    BY <1>6
  <1>9. \A b \in live : Cells(b.at, b.size) \cap Cells(HeapEnd, PostSize) = {}
    BY <1>7
  <1> QED
    BY <1>2, <1>4, <1>5, <1>8, <1>9 DEF ApartCells

LEMMA CellsApartNext == (IInv /\ Sound => ApartCells)'
  BY CellsApart, PTL

\* A system call that leaves the contents of a sound guest right.
LEMMA CallContents ==
    ASSUME ContentsInv, Runs, UNCHANGED <<phase, base, post, master, watermark>>,
           Sound => Holds(live', mem') /\ (post => PostHolds(mem'))
    PROVE  ContentsInv'
  <1>1. /\ phase' = phase /\ post' = post /\ master' = master /\ watermark' = watermark
        /\ phase # "idle"
    BY DEF Runs
  <1>2. Sound' = Sound
    BY <1>1 DEF Sound
  <1>3. Sound' => Holds(live', mem') /\ (post' => PostHolds(mem'))
    BY SMTT(60), <1>1, <1>2
  <1>4. phase' # "main" => Holds(master'.live, master'.mem)
    BY <1>1 DEF ContentsInv
  <1>5. phase' # "main" => \A b \in master'.live : \A c \in UsedAt(master'.chunks, b.at) :
                             c.size \in Nat /\ b.size <= c.size
    BY <1>1 DEF ContentsInv
  <1>6. phase' # "fork" => post' = FALSE
    BY <1>1 DEF ContentsInv
  <1> QED
    BY <1>1, <1>3, <1>4, <1>5, <1>6 DEF ContentsInv

\* malloc: the new block has none of the cells of the others.
LEMMA MallocContents ==
    ASSUME IInv, IInv', ContentsInv, NEW n \in Sizes, NEW t \in Tags, Malloc(n, t)
    PROVE  ContentsInv'
  <1>1. PICK c \in chunks : /\ FindFree(c, Fixup(n))
                            /\ live' = live \cup {[at |-> c.data, size |-> n, tag |-> t]}
                            /\ mem' = Fill(c.data, n, t)
    BY DEF Malloc
  <1>2. ASSUME Sound PROVE Holds(live', mem') /\ (post => PostHolds(mem'))
    <2>1. PICK n0 : n0 = [at |-> c.data, size |-> n, tag |-> t]
      OBVIOUS
    <2>2. n0.at = c.data /\ n0.size = n /\ n0.tag = t
      BY <2>1
    <2>3. live' = live \cup {n0}
      BY <1>1, <2>1
    <2>4. \A b \in live : b # n0
      <3>1. \A b \in live : b.at # c.data
        BY <1>1, <1>2, Found
      <3> QED
        BY <2>2, <3>1
    <2>5. Sound'
      BY <1>2 DEF Sound, Malloc
    <2>6. ApartCells /\ ApartCells'
      BY <1>2, <2>5, CellsApart, CellsApartNext
    <2>7. \A a \in Addr : mem'[a] = IF a \in Cells(n0.at, n0.size) THEN n0.tag ELSE mem[a]
      BY <1>1, <2>2 DEF Fill
    <2>8. \A a \in Cells(n0.at, n0.size) : a \in Addr
      BY <2>3, <2>6 DEF ApartCells
    <2>9. \A b \in live : \A a \in Cells(b.at, b.size) :
            a \in Addr /\ a \notin Cells(n0.at, n0.size)
      BY <2>3, <2>4, <2>6 DEF ApartCells
    <2>10. \A a \in Cells(HeapEnd, PostSize) : a \in Addr /\ a \notin Cells(n0.at, n0.size)
      BY <2>3, <2>6 DEF ApartCells
    <2>11. Holds(live, mem) /\ (post => PostHolds(mem))
      BY <1>2 DEF ContentsInv
    <2>12. Holds(live', mem')
      BY <2>3, <2>7, <2>8, <2>9, <2>11 DEF Holds
    <2>13. post => PostHolds(mem')
      BY <2>7, <2>10, <2>11 DEF PostHolds
    <2> QED
      BY <2>12, <2>13
  <1> QED
    BY <1>2, CallContents DEF Malloc

\* free: the other blocks have none of its cells.
LEMMA FreeContents ==
    ASSUME IInv, ContentsInv, NEW b \in live, Free(b)
    PROVE  ContentsInv'
  <1>1. ASSUME Sound PROVE Holds(live', mem') /\ (post => PostHolds(mem'))
    <2>1. live' = live \ {b}
      BY DEF Free
    <2>2. \A a \in Addr : a \notin Cells(b.at, b.size) => mem'[a] = mem[a]
      BY DEF Free, Fill
    <2>3. ApartCells
      BY <1>1, CellsApart
    <2>4. \A d \in live' : \A a \in Cells(d.at, d.size) : a \in Addr /\ a \notin Cells(b.at, b.size)
      BY <2>1, <2>3 DEF ApartCells
    <2>5. \A a \in Cells(HeapEnd, PostSize) : a \in Addr /\ a \notin Cells(b.at, b.size)
      BY <2>3 DEF ApartCells
    <2>6. Holds(live, mem) /\ (post => PostHolds(mem))
      BY <1>1 DEF ContentsInv
    <2>7. Holds(live', mem')
      BY <2>1, <2>2, <2>4, <2>6 DEF Holds
    <2>8. post => PostHolds(mem')
      BY <2>2, <2>5, <2>6 DEF PostHolds
    <2> QED
      BY <2>7, <2>8
  <1> QED
    BY <1>1, CallContents DEF Free

\* realloc: what the block keeps is brought to its new place, no other block has
\* cells there, and the guest has written the rest.
LEMMA MovedContents ==
    ASSUME IInv, IInv', ContentsInv, Sound, Sound',
           NEW b \in live, NEW to \in Addr, NEW n \in Nat, NEW kept \in Nat,
           Moved(b, to, n, kept), kept <= n, b.size <= kept \/ n <= kept,
           \A d \in live \ {b} : d.at # to
    PROVE  Holds(live', mem') /\ (post => PostHolds(mem'))
  <1>1. PICK r : r = [at |-> to, size |-> n, tag |-> b.tag]
    OBVIOUS
  <1>2. r.at = to /\ r.size = n /\ r.tag = b.tag
    BY <1>1
  <1>3. live' = (live \ {b}) \cup {r}
    BY <1>1 DEF Moved
  <1>4. \A d \in live \ {b} : d # r
    BY <1>2
  <1>5. ApartCells /\ ApartCells'
    BY CellsApart, CellsApartNext
  <1>6. Holds(live, mem) /\ (post => PostHolds(mem))
    BY DEF ContentsInv
  <1>7. /\ to \in Nat /\ Word \in Nat /\ to < Word
        /\ b.at \in Addr /\ b.at \in Nat /\ b.size \in Nat /\ b.at + b.size <= HeapEnd
        /\ to + n <= HeapEnd /\ HeapEnd \in Nat /\ HeapEnd < Word
    BY SMTT(60), <1>2, <1>3, <1>5, Ends DEF ApartCells, Addr
  <1>8. n \in 0 .. Word /\ kept \in 0 .. Word /\ b.size \in 0 .. Word
    BY SMTT(60), <1>7
  <1>9. \A a : a \in Cells(to, n) <=> a \in Addr /\ to <= a /\ a < to + n
    BY <1>2, <1>3, <1>5 DEF ApartCells
  <1>10. \A a \in Addr : to <= a => /\ a \in Cells(to, kept) <=> a < to + kept
                                    /\ a \in Cells(to, b.size) <=> a < to + b.size
    BY <1>8, CellsIs
  <1>11. \A a : a \in Cells(to, kept) => a \in Cells(to, n)
    <2>1. to + kept <= Word
      BY SMTT(60), <1>7
    <2>2. \A a : a \in Cells(to, kept) <=> a \in Addr /\ to <= a /\ a < to + kept
      BY <2>1, CellsInterval
    <2>3. \A a \in Addr : a < to + kept => a < to + n
      BY SMTT(60), <1>7 DEF Addr
    <2> QED
      BY <1>9, <2>2, <2>3
  <1>12. ASSUME NEW a \in Cells(to, n) PROVE mem'[a] = b.tag
    <2>1. a \in Addr /\ a \in Nat /\ to <= a /\ a < to + n
      BY SMTT(60), <1>9, Ends DEF Addr
    <2>2. CASE a \notin Cells(to, b.size)
      BY <2>1, <2>2 DEF Moved
    <2>3. CASE a \in Cells(to, b.size)
      <3>1. a < to + b.size
        BY <1>10, <2>1, <2>3
      <3>2. a < to + kept
        BY SMTT(60), <1>7, <2>1, <3>1
      <3>3. a \in Cells(to, kept)
        BY <1>10, <2>1, <3>2
      <3>4. mem'[a] = mem[Plus(b.at, Minus(a, to))]
        BY <2>1, <2>3, <3>3 DEF Moved
      <3>5. PICK x : x = b.at + (a - to)
        OBVIOUS
      <3>6. x \in Addr /\ b.at <= x /\ x < b.at + b.size
        BY SMTT(60), <1>7, <2>1, <3>1, <3>5 DEF Addr
      <3>7. Plus(b.at, Minus(a, to)) = x
        BY SMTT(60), <1>7, <2>1, <3>5, <3>6 DEF Plus, Minus, Addr
      <3>8. x \in Cells(b.at, b.size)
        BY <1>5, <3>6 DEF ApartCells
      <3> QED
        BY <1>6, <3>4, <3>7, <3>8 DEF Holds
    <2> QED
      BY <2>2, <2>3
  <1>13. \A a \in Addr : a \notin Cells(to, n) /\ a \notin Cells(b.at, b.size) => mem'[a] = mem[a]
    BY <1>11 DEF Moved
  <1>14. \A d \in live \ {b} : \A a \in Cells(d.at, d.size) :
           a \in Addr /\ a \notin Cells(to, n) /\ a \notin Cells(b.at, b.size)
    BY <1>2, <1>3, <1>4, <1>5 DEF ApartCells
  <1>15. \A a \in Cells(HeapEnd, PostSize) :
           a \in Addr /\ a \notin Cells(to, n) /\ a \notin Cells(b.at, b.size)
    BY <1>2, <1>3, <1>5 DEF ApartCells
  <1>16. Holds(live', mem')
    BY <1>2, <1>3, <1>6, <1>12, <1>13, <1>14 DEF Holds
  <1>17. post => PostHolds(mem')
    BY <1>6, <1>13, <1>15 DEF PostHolds
  <1> QED
    BY <1>16, <1>17

\* What the realloc lemmas share: a sound guest's block, and the room asked for.
LEMMA ReallocFacts ==
    ASSUME IInv, Sound, NEW b \in live, NEW n \in Sizes
    PROVE  /\ b.at \in Addr /\ b.size \in Nat /\ b.tag \in Tags
           /\ n \in Nat /\ n <= Fixup(n) /\ Fixup(n) \in Nat /\ (1 < Fixup(n) => n = Fixup(n))
           /\ \A d \in live \ {b} : d.at # b.at
  <1>1. LiveInv(live, chunks, Masters)
    BY SoundFacts
  <1>2. b \in Block /\ \A d \in live \ {b} : d.at # b.at
    BY <1>1 DEF LiveInv
  <1> QED
    BY SMTT(60), <1>2, Ends, HeapAssumption DEF Block, Addr, Fixup

\* realloc in place, with the chunk as it is or with the one that follows.
LEMMA StaysContents ==
    ASSUME IInv, IInv', ContentsInv, NEW b \in live, NEW n \in Sizes, ReallocStays(b, n)
    PROVE  ContentsInv'
  <1>1. ASSUME Sound PROVE Holds(live', mem') /\ (post => PostHolds(mem'))
    <2>1. Sound'
      BY <1>1 DEF Sound, ReallocStays
    <2>2. b.at \in Addr /\ b.size \in Nat /\ n \in Nat /\ \A d \in live \ {b} : d.at # b.at
      BY <1>1, ReallocFacts
    <2>3. PICK kept : kept = Least(b.size, n)
      OBVIOUS
    <2>4. kept \in Nat /\ kept <= n /\ (b.size <= kept \/ n <= kept)
      BY SMTT(60), <2>2, <2>3 DEF Least
    <2>5. Moved(b, b.at, n, kept)
      BY <2>3 DEF ReallocStays
    <2> QED
      BY <1>1, <2>1, <2>2, <2>4, <2>5, MovedContents
  <1> QED
    BY <1>1, CallContents DEF ReallocStays

LEMMA GrowsContents ==
    ASSUME IInv, IInv', ContentsInv, NEW b \in live, NEW n \in Sizes, ReallocGrows(b, n)
    PROVE  ContentsInv'
  <1>1. ASSUME Sound PROVE Holds(live', mem') /\ (post => PostHolds(mem'))
    <2>1. Sound'
      BY <1>1 DEF Sound, ReallocGrows
    <2>2. /\ b.at \in Addr /\ b.size \in Nat /\ n \in Nat /\ \A d \in live \ {b} : d.at # b.at
          /\ Fixup(n) \in Nat /\ (1 < Fixup(n) => n = Fixup(n))
      BY <1>1, ReallocFacts
    <2>3. PICK c \in UsedAt(chunks, b.at) : c.size < Fixup(n)
      BY DEF ReallocGrows
    <2>4. c.size \in Nat /\ 0 < c.size /\ b.size <= c.size
      BY <1>1, TheChunk
    <2>5. b.size <= n
      BY SMTT(60), <2>2, <2>3, <2>4
    <2>6. Moved(b, b.at, n, b.size)
      BY DEF ReallocGrows
    <2> QED
      BY SMTT(60), <1>1, <2>1, <2>2, <2>5, <2>6, MovedContents
  <1> QED
    BY <1>1, CallContents DEF ReallocGrows

\* realloc to another chunk: all of the old chunk is copied, which is less than the
\* new one.
LEMMA MovesContents ==
    ASSUME IInv, IInv', ContentsInv, NEW b \in live, NEW n \in Sizes, ReallocMoves(b, n)
    PROVE  ContentsInv'
  <1>1. ASSUME Sound PROVE Holds(live', mem') /\ (post => PostHolds(mem'))
    <2>1. Sound'
      BY <1>1 DEF Sound, ReallocMoves
    <2>2. /\ b.size \in Nat /\ b.tag \in Tags /\ n \in Nat
          /\ Fixup(n) \in Nat /\ (1 < Fixup(n) => n = Fixup(n))
      BY <1>1, ReallocFacts
    <2>3. PICK c \in UsedAt(chunks, b.at), e \in chunks :
            c.size < Fixup(n) /\ FindFree(e, Fixup(n)) /\ Moved(b, e.data, n, c.size)
      BY DEF ReallocMoves
    <2>4. c.size \in Nat /\ 0 < c.size /\ b.size <= c.size
      BY <1>1, TheChunk
    <2>5. c.size <= n
      BY SMTT(60), <2>2, <2>3, <2>4
    <2>6. e.data \in Addr /\ \A d \in live : d.at # e.data
      <3>1. ArenaInv(chunks, base, Hi)
        BY <1>1, SoundFacts
      <3> QED
        BY <1>1, <2>2, <2>3, <3>1, Found DEF ArenaInv, GoodArena, Chunk
    <2> QED
      BY <1>1, <2>1, <2>2, <2>3, <2>4, <2>5, <2>6, MovedContents
  <1> QED
    BY <1>1, CallContents DEF ReallocMoves

\* realloc of a block of the master in a fork: the size that on_unknown_realloc
\* answers is that of the master's chunk, which has room for the block.
LEMMA MasterContents ==
    ASSUME IInv, IInv', ContentsInv, NEW b \in live, NEW n \in Sizes, ReallocMaster(b, n)
    PROVE  ContentsInv'
  <1>1. ASSUME Sound PROVE Holds(live', mem') /\ (post => PostHolds(mem'))
    <2>1. Sound'
      BY <1>1 DEF Sound, ReallocMaster
    <2>2. b.size \in Nat /\ b.tag \in Tags /\ n \in Nat
      BY <1>1, ReallocFacts
    <2>3. PICK e \in chunks, old_len \in MasterSize(b) :
            FindFree(e, Fixup(n)) /\ Moved(b, e.data, n, Least(old_len, n))
      BY DEF ReallocMaster
    <2>4. ArenaInv(chunks, base, Hi) /\ LiveInv(live, chunks, Masters)
      BY <1>1, SoundFacts
    <2>5. b \in master.live
      <3>1. ~HasChunk(b, chunks)
        BY DEF ReallocMaster, HasChunk, InUse, UsedAt
      <3>2. b \in Masters
        BY <2>4, <3>1 DEF LiveInv
      <3> QED
        BY <3>2 DEF Masters, ReallocMaster
    <2>6. old_len \in Nat /\ b.size <= old_len
      <3>1. phase # "main"
        BY DEF ReallocMaster
      <3>2. \A c \in UsedAt(master.chunks, b.at) : c.size \in Nat /\ b.size <= c.size
        BY <2>5, <3>1 DEF ContentsInv
      <3> QED
        BY <2>3, <3>2 DEF MasterSize
    <2>7. PICK kept : kept = Least(old_len, n)
      OBVIOUS
    <2>8. kept \in Nat /\ kept <= n /\ (b.size <= kept \/ n <= kept)
      BY SMTT(60), <2>2, <2>6, <2>7 DEF Least
    <2>9. e.data \in Addr /\ \A d \in live : d.at # e.data
      BY <1>1, <2>2, <2>3, <2>4, Found DEF ArenaInv, GoodArena, Chunk
    <2> QED
      BY <1>1, <2>1, <2>2, <2>3, <2>7, <2>8, <2>9, MovedContents
  <1>2. Runs
    BY DEF ReallocMaster, Runs
  <1> QED
    BY <1>1, <1>2, CallContents DEF ReallocMaster

\* The Scripts: the fork begins with the master's memory and the master's blocks.
LEMMA ScriptContents ==
    ASSUME IInv, IInv', ContentsInv, WaitForRequests \/ Fork \/ AllocatePost \/ EndFork
    PROVE  ContentsInv'
  <1>1. CASE WaitForRequests
    <2>0. Sound /\ phase = "main" /\ phase' = "idle"
      BY <1>1 DEF WaitForRequests, Sound
    <2>1. /\ master'.chunks = chunks /\ master'.live = live /\ master'.mem = mem
          /\ mem' = mem /\ post' = post
      BY <1>1 DEF WaitForRequests
    <2>2. Holds(live, mem) /\ post = FALSE
      BY <2>0 DEF ContentsInv
    <2>3. \A b \in live : \A c \in UsedAt(chunks, b.at) : c.size \in Nat /\ b.size <= c.size
      BY <2>0, TheChunk
    <2>4. ~Sound'
      BY <2>0 DEF Sound
    <2> QED
      BY <2>0, <2>1, <2>2, <2>3, <2>4 DEF ContentsInv
  <1>2. CASE Fork
    <2>1. /\ phase = "idle" /\ phase' = "fork" /\ live' = master.live
          /\ mem' = mem /\ post' = post /\ master' = master
      BY <1>2 DEF Fork
    <2>2. mem = master.mem /\ post = FALSE /\ Holds(master.live, master.mem)
      BY <2>1 DEF ContentsInv
    <2> QED
      BY <2>1, <2>2 DEF ContentsInv
  <1>3. CASE AllocatePost
    <2>1. /\ phase = "fork" /\ phase' = phase /\ live' = live /\ master' = master
          /\ watermark' = watermark /\ mem' = Fill(HeapEnd, PostSize, Posted)
      BY <1>3 DEF AllocatePost
    <2>2. ASSUME Sound PROVE Holds(live', mem') /\ PostHolds(mem')
      <3>1. ApartCells
        BY <2>2, CellsApart
      <3>2. Holds(live, mem)
        BY <2>2 DEF ContentsInv
      <3>3. \A a \in Addr : mem'[a] = IF a \in Cells(HeapEnd, PostSize) THEN Posted ELSE mem[a]
        BY <2>1 DEF Fill
      <3>4. PostHolds(mem')
        BY <3>1, <3>3 DEF ApartCells, PostHolds
      <3>5. \A b \in live : \A a \in Cells(b.at, b.size) :
              a \in Addr /\ a \notin Cells(HeapEnd, PostSize)
        BY <3>1 DEF ApartCells
      <3>6. Holds(live', mem')
        BY <2>1, <3>2, <3>3, <3>5 DEF Holds
      <3> QED
        BY <3>4, <3>6
    <2>3. Sound' = Sound
      BY <2>1 DEF Sound
    <2> QED
      BY <2>1, <2>2, <2>3 DEF ContentsInv
  <1>4. CASE EndFork
    <2>1. /\ phase = "fork" /\ phase' = "idle" /\ mem' = master.mem /\ post' = FALSE
          /\ master' = master
      BY <1>4 DEF EndFork
    <2>2. ~Sound'
      BY <2>1 DEF Sound
    <2> QED
      BY <2>1, <2>2 DEF ContentsInv
  <1> QED
    BY <1>1, <1>2, <1>3, <1>4

LEMMA StutterContents ==
    ASSUME ContentsInv, UNCHANGED vars
    PROVE  ContentsInv'
  <1>1. Sound' = Sound
    BY DEF vars, Sound
  <1> QED
    BY <1>1 DEF vars, ContentsInv

LEMMA NextContents == IInv /\ IInv' /\ ContentsInv /\ [Next]_vars => ContentsInv'
  <1> SUFFICES ASSUME IInv, IInv', ContentsInv, [Next]_vars PROVE ContentsInv'
    OBVIOUS
  <1>1. CASE SystemCall
    BY <1>1, MallocContents, FreeContents, StaysContents, GrowsContents, MovesContents,
       MasterContents DEF SystemCall
  <1>2. CASE WaitForRequests \/ Fork \/ AllocatePost \/ EndFork
    BY <1>2, ScriptContents
  <1> QED
    BY <1>1, <1>2, StutterContents DEF Next

\* Each block holds what was written to it, and so does the POST area, whatever is
\* allocated, freed and reallocated (BlocksIntact): the forks read the master's
\* blocks, and a block that realloc moves takes its contents along, also when it is
\* one of the master that the fork's arena does not know.
THEOREM HeapIntact == Spec => []BlocksIntact
  <1>1. Init => IInv /\ ContentsInv
    BY InitInv DEF Init, ContentsInv, Holds
  <1>2. IInv /\ ContentsInv => BlocksIntact
    BY DEF IInv, ContentsInv, BlocksIntact, Sound, Room, Holds, PostHolds
  <1> QED
    BY <1>1, <1>2, NextInv, NextContents, PTL DEF Spec

-----------------------------------------------------------------------------
(* Coalescing: what is free is found.                                      *)

\* The chunks A leave no gap in [lo, hi), and no two free ones follow each other.
Tiled(A, lo, hi) ==
    /\ \A x \in Nat : lo <= x /\ x < hi => \E c \in A : c.data <= x /\ x < c.data + c.size
    /\ \A c, d \in A : c.free /\ d.free /\ c # d => c.data + c.size # d.data

\* What the provers need to know of a chunk.
LEMMA ChunkFacts ==
    ASSUME NEW lo \in Nat, NEW hi \in Nat, hi < Word, NEW A, GoodArena(A, lo, hi), NEW c \in A
    PROVE  /\ c.data \in Nat /\ c.size \in Nat /\ lo <= c.data /\ c.data + c.size <= hi
           /\ Plus(c.data, c.size) = c.data + c.size
           /\ \A d \in A : d # c => d.data + d.size <= c.data \/ c.data + c.size <= d.data
  BY SMTT(60), Ends DEF GoodArena, Chunk, Addr, Plus

\* The rest of a chunk that is split is followed by what followed the chunk.
LEMMA SplitTiled ==
    ASSUME NEW lo \in Nat, NEW hi \in Nat, hi < Word,
           GoodArena(chunks, lo, hi), Tiled(chunks, lo, hi),
           NEW c \in chunks, c.free, NEW n \in Nat, 0 < n, n <= c.size
    PROVE  Tiled(Split(c, n), lo, hi)
  <1>1. PICK u, rest : /\ u = [data |-> c.data, size |-> n, free |-> FALSE]
                       /\ rest = [data |-> Plus(c.data, n), size |-> c.size - n, free |-> TRUE]
    OBVIOUS
  <1>2. PICK S : S = Split(c, n)
    OBVIOUS
  <1>3. S = (chunks \ {c}) \cup {u} \cup {d \in {rest} : c.size > n}
    BY <1>1, <1>2 DEF Split
  <1>4. u.data = c.data /\ u.size = n /\ ~u.free
    BY <1>1
  <1>5. c.data \in Nat /\ c.size \in Nat /\ lo <= c.data /\ c.data + c.size <= hi
    BY ChunkFacts
  <1>6. c.size > n => rest.data = c.data + n /\ rest.size = c.size - n /\ rest.free
    BY SMTT(60), <1>1, <1>5, Ends DEF Plus
  <1>7. \A d \in chunks : /\ d.data \in Nat /\ d.size \in Nat
                          /\ d # c => d.data + d.size <= c.data \/ c.data + c.size <= d.data
    BY ChunkFacts
  <1>8. ASSUME NEW x \in Nat, lo <= x, x < hi
        PROVE  \E d \in S : d.data <= x /\ x < d.data + d.size
    <2>1. PICK d \in chunks : d.data <= x /\ x < d.data + d.size
      BY <1>8 DEF Tiled
    <2>2. CASE d # c
      BY <1>3, <2>1, <2>2
    <2>3. CASE d = c /\ x < c.data + n
      BY <1>3, <1>4, <2>1, <2>3
    <2>4. CASE d = c /\ ~(x < c.data + n)
      <3>1. c.size > n /\ c.data + n <= x /\ x < (c.data + n) + (c.size - n)
        BY SMTT(60), <1>5, <2>1, <2>4
      <3> QED
        BY <1>3, <1>6, <3>1
    <2> QED
      BY <2>2, <2>3, <2>4
  <1>9. ASSUME NEW d \in S, NEW e \in S, d.free, e.free, d # e PROVE d.data + d.size # e.data
    <2>1. d # u /\ e # u
      BY <1>4, <1>9
    <2>2. CASE d \in chunks \ {c} /\ e \in chunks \ {c}
      BY <1>9, <2>2 DEF Tiled
    <2>3. CASE d = rest /\ c.size > n
      <3>1. e \in chunks /\ e # c
        BY <1>3, <1>9, <2>1, <2>3
      <3>2. c.data + c.size # e.data
        BY <1>9, <3>1 DEF Tiled
      <3> QED
        BY SMTT(60), <1>5, <1>6, <2>3, <3>2
    <2>4. CASE e = rest /\ c.size > n
      <3>1. d \in chunks /\ d # c
        BY <1>3, <1>9, <2>1, <2>4
      <3>2. d.data + d.size <= c.data \/ c.data + c.size <= d.data
        BY <1>7, <3>1
      <3>3. d.data \in Nat /\ d.size \in Nat
        BY <1>7, <3>1
      <3> QED
        BY SMTT(60), <1>5, <1>6, <2>4, <3>2, <3>3
    <2> QED
      BY <1>3, <2>1, <2>2, <2>3, <2>4
  <1>10. Tiled(S, lo, hi)
    BY <1>8, <1>9 DEF Tiled
  <1> QED
    BY <1>2, <1>10

\* A freed chunk is merged with both neighbours, so that what is next to it is in use.
LEMMA MergeTiled ==
    ASSUME NEW lo \in Nat, NEW hi \in Nat, hi < Word, NEW A, GoodArena(A, lo, hi),
           Tiled(A, lo, hi), NEW c \in A, ~c.free, c.size > 0
    PROVE  Tiled(InternalFree(A, c), lo, hi)
  <1>1. PICK S : S = InternalFree(A, c)
    OBVIOUS
  <1>2. PICK first \in A, last \in A, g \in Chunk :
             /\ S = (A \ {c, first, last}) \cup {g}
             /\ g.data = first.data /\ g.data + g.size = last.data + last.size
             /\ g.free /\ g.size > 0
             /\ first = c \/ (first.free /\ first.data + first.size = c.data)
             /\ last = c \/ (last.free /\ last.data = c.data + c.size)
             /\ \A d \in A : d.free /\ d.data + d.size = c.data => d = first
             /\ \A d \in A : d.free /\ d.data = c.data + c.size => d = last
    BY SMTT(60), <1>1, MergeIs
  <1>3. \A d \in A : d.data \in Nat /\ d.size \in Nat
    BY ChunkFacts
  <1>4. ASSUME NEW x \in Nat, lo <= x, x < hi
        PROVE  \E d \in S : d.data <= x /\ x < d.data + d.size
    <2>1. PICK d \in A : d.data <= x /\ x < d.data + d.size
      BY <1>4 DEF Tiled
    <2>2. CASE d \notin {c, first, last}
      BY <1>2, <2>1, <2>2
    <2>3. CASE d \in {c, first, last}
      <3>1. /\ c.data \in Nat /\ c.size \in Nat /\ first.data \in Nat /\ first.size \in Nat
            /\ last.data \in Nat /\ last.size \in Nat
        BY <1>3
      <3>2. g.data <= x /\ x < g.data + g.size
        BY SMTT(60), <1>2, <2>1, <2>3, <3>1
      <3> QED
        BY <1>2, <3>2
    <2> QED
      BY <2>2, <2>3
  <1>5. ASSUME NEW d \in S, NEW e \in S, d.free, e.free, d # e PROVE d.data + d.size # e.data
    <2>1. CASE d # g /\ e # g
      BY <1>2, <1>5, <2>1 DEF Tiled
    <2>2. CASE d = g
      <3>1. e \in A /\ e # last /\ e # c
        BY <1>2, <1>5, <2>2
      <3>2. last.data + last.size # e.data
        BY <1>2, <1>5, <3>1 DEF Tiled
      <3> QED
        BY <1>2, <2>2, <3>2
    <2>3. CASE e = g
      <3>1. d \in A /\ d # first /\ d # c
        BY <1>2, <1>5, <2>3
      <3>2. d.data + d.size # first.data
        BY <1>2, <1>5, <3>1 DEF Tiled
      <3> QED
        BY <1>2, <2>3, <3>2
    <2> QED
      BY <2>1, <2>2, <2>3
  <1>6. Tiled(S, lo, hi)
    BY <1>4, <1>5 DEF Tiled
  <1> QED
    BY <1>1, <1>6

\* What is left of a chunk that realloc took is followed by what followed it.
LEMMA SubsumeTiled ==
    ASSUME NEW lo \in Nat, NEW hi \in Nat, hi < Word,
           GoodArena(chunks, lo, hi), Tiled(chunks, lo, hi),
           NEW c \in chunks, ~c.free, c.size > 0, NEW n \in Nat, c.size < n,
           NEW d \in Growable(c, n)
    PROVE  Tiled(Subsume(c, d, n), lo, hi)
  <1>1. PICK u, rest :
          /\ u = [data |-> c.data, size |-> n, free |-> FALSE]
          /\ rest = [data |-> Plus(c.data, n), size |-> c.size + d.size - n, free |-> TRUE]
    OBVIOUS
  <1>2. PICK S : S = Subsume(c, d, n)
    OBVIOUS
  <1>3. S = (chunks \ {c, d}) \cup {u} \cup {e \in {rest} : c.size + d.size > n}
    BY <1>1, <1>2 DEF Subsume
  <1>4. u.data = c.data /\ u.size = n /\ ~u.free
    BY <1>1
  <1>5. /\ c.data \in Nat /\ c.size \in Nat /\ Plus(c.data, c.size) = c.data + c.size
        /\ d \in chunks /\ d.data \in Nat /\ d.size \in Nat /\ d.data + d.size <= hi
    BY ChunkFacts DEF Growable, NextFree
  <1>6. d.free /\ d # c /\ d.data = c.data + c.size /\ c.size + d.size >= n
    BY <1>5 DEF Growable, NextFree
  <1>7. c.size + d.size > n => /\ rest.data = c.data + n /\ rest.size = c.size + d.size - n
                               /\ rest.free
    BY SMTT(60), <1>1, <1>5, <1>6, Ends DEF Plus
  <1>8. ASSUME NEW x \in Nat, lo <= x, x < hi
        PROVE  \E e \in S : e.data <= x /\ x < e.data + e.size
    <2>1. PICK e \in chunks : e.data <= x /\ x < e.data + e.size
      BY <1>8 DEF Tiled
    <2>2. CASE e \notin {c, d}
      BY <1>3, <2>1, <2>2
    <2>3. CASE e \in {c, d} /\ x < c.data + n
      <3>1. u.data <= x /\ x < u.data + u.size
        BY SMTT(60), <1>4, <1>5, <1>6, <2>1, <2>3
      <3> QED
        BY <1>3, <3>1
    <2>4. CASE e \in {c, d} /\ ~(x < c.data + n)
      <3>1. /\ c.size + d.size > n
            /\ c.data + n <= x /\ x < (c.data + n) + (c.size + d.size - n)
        BY SMTT(60), <1>5, <1>6, <2>1, <2>4
      <3> QED
        BY <1>3, <1>7, <3>1
    <2> QED
      BY <2>2, <2>3, <2>4
  <1>9. ASSUME NEW e \in S, NEW f \in S, e.free, f.free, e # f PROVE e.data + e.size # f.data
    <2>1. e # u /\ f # u
      BY <1>4, <1>9
    <2>2. CASE e \in chunks \ {c, d} /\ f \in chunks \ {c, d}
      BY <1>9, <2>2 DEF Tiled
    <2>3. CASE e = rest /\ c.size + d.size > n
      <3>1. f \in chunks /\ f # d
        BY <1>3, <1>9, <2>1, <2>3
      <3>2. d.data + d.size # f.data
        BY <1>5, <1>6, <1>9, <3>1 DEF Tiled
      <3> QED
        BY SMTT(60), <1>5, <1>6, <1>7, <2>3, <3>2
    <2>4. CASE f = rest /\ c.size + d.size > n
      <3>1. e \in chunks /\ e # c /\ e # d
        BY <1>3, <1>9, <2>1, <2>4
      <3>2. /\ e.data \in Nat /\ e.size \in Nat
            /\ e.data + e.size <= c.data \/ c.data + c.size <= e.data
            /\ e.data + e.size <= d.data \/ d.data + d.size <= e.data
        BY SMTT(60), <1>5, <3>1, ChunkFacts
      <3> QED
        BY SMTT(60), <1>5, <1>6, <1>7, <2>4, <3>2
    <2> QED
      BY <1>3, <2>1, <2>2, <2>3, <2>4
  <1>10. Tiled(S, lo, hi)
    BY <1>8, <1>9 DEF Tiled
  <1> QED
    BY <1>2, <1>10

TiledInv == Sound => Tiled(chunks, base, Hi)

LEMMA CallTiled ==
    ASSUME UNCHANGED <<phase, base, post, master, watermark>>,
           Sound => Tiled(chunks', base, Hi)
    PROVE  TiledInv'
  <1>1. Sound' = Sound /\ Hi' = Hi /\ base' = base
    BY DEF Sound, Hi
  <1> QED
    BY <1>1 DEF TiledInv

\* The chunk that find_free finds, and a sound guest's arena once it is split.
LEMMA FoundTiled ==
    ASSUME IInv, TiledInv, Sound, NEW n \in Sizes, NEW c \in chunks, FindFree(c, Fixup(n))
    PROVE  Tiled(Split(c, Fixup(n)), base, Hi)
  <1>1. ArenaInv(chunks, base, Hi) /\ base \in Nat /\ Hi \in Nat /\ Hi < Word
    BY SoundFacts
  <1>2. Fixup(n) \in Nat /\ 0 < Fixup(n)
    BY SMTT(60), HeapAssumption DEF Fixup
  <1>3. c.free /\ Fixup(n) <= c.size
    BY <1>2 DEF FindFree, Fits
  <1> QED
    BY <1>1, <1>2, <1>3, SplitTiled DEF TiledInv, ArenaInv

\* Every system call leaves the arena tiled.
LEMMA CallsTiled ==
    ASSUME IInv, TiledInv, SystemCall
    PROVE  TiledInv'
  <1>1. ASSUME NEW n \in Sizes, NEW t \in Tags, Malloc(n, t) PROVE TiledInv'
    BY <1>1, FoundTiled, CallTiled DEF Malloc
  <1>2. ASSUME NEW b \in live, Free(b) PROVE TiledInv'
    <2>1. ASSUME Sound PROVE Tiled(chunks', base, Hi)
      <3>1. ArenaInv(chunks, base, Hi) /\ base \in Nat /\ Hi \in Nat /\ Hi < Word
        BY <2>1, SoundFacts
      <3>2. CASE UsedAt(chunks, b.at) = {}
        BY <1>2, <2>1, <3>2 DEF Free, FreedChunks, TiledInv
      <3>3. CASE UsedAt(chunks, b.at) # {}
        <4>1. PICK c : c = CHOOSE d \in UsedAt(chunks, b.at) : TRUE
          OBVIOUS
        <4>2. c \in UsedAt(chunks, b.at)
          BY <3>3, <4>1
        <4>3. c \in chunks /\ c.size > 0 /\ ~c.free
          BY <2>1, <4>2, TheChunk
        <4>4. chunks' = InternalFree(chunks, c)
          BY <1>2, <3>3, <4>1 DEF Free, FreedChunks
        <4> QED
          BY <2>1, <3>1, <4>3, <4>4, MergeTiled DEF TiledInv, ArenaInv
      <3> QED
        BY <3>2, <3>3
    <2> QED
      BY <1>2, <2>1, CallTiled DEF Free
  <1>3. ASSUME NEW b \in live, NEW n \in Sizes, ReallocStays(b, n) PROVE TiledInv'
    BY <1>3, CallTiled DEF ReallocStays, TiledInv
  <1>4. ASSUME NEW b \in live, NEW n \in Sizes, ReallocGrows(b, n) PROVE TiledInv'
    <2>1. ASSUME Sound PROVE Tiled(chunks', base, Hi)
      <3>1. ArenaInv(chunks, base, Hi) /\ base \in Nat /\ Hi \in Nat /\ Hi < Word
        BY <2>1, SoundFacts
      <3>2. PICK c \in UsedAt(chunks, b.at) : \E d \in Growable(c, Fixup(n)) :
              c.size < Fixup(n) /\ chunks' = Subsume(c, d, Fixup(n))
        BY <1>4 DEF ReallocGrows
      <3>3. PICK d \in Growable(c, Fixup(n)) :
              c.size < Fixup(n) /\ chunks' = Subsume(c, d, Fixup(n))
        BY <3>2
      <3>4. c \in chunks /\ c.size > 0 /\ ~c.free
        BY <2>1, TheChunk
      <3>5. Fixup(n) \in Nat
        BY HeapAssumption DEF Fixup
      <3> QED
        BY <2>1, <3>1, <3>3, <3>4, <3>5, SubsumeTiled DEF TiledInv, ArenaInv
    <2> QED
      BY <1>4, <2>1, CallTiled DEF ReallocGrows
  <1>5. ASSUME NEW b \in live, NEW n \in Sizes, ReallocMoves(b, n) PROVE TiledInv'
    <2>1. ASSUME Sound PROVE Tiled(chunks', base, Hi)
      <3>1. base \in Nat /\ Hi \in Nat /\ Hi < Word /\ b.tag \in Tags
        BY <2>1, SoundFacts, ReallocFacts
      <3>2. PICK c \in UsedAt(chunks, b.at), e \in chunks :
              FindFree(e, Fixup(n)) /\ chunks' = InternalFree(Split(e, Fixup(n)), c)
        BY <1>5 DEF ReallocMoves
      <3>3. PICK S : S = Split(e, Fixup(n))
        OBVIOUS
      <3>4. Tiled(S, base, Hi) /\ ArenaInv(S, base, Hi) /\ InUse(chunks) \subseteq InUse(S)
        BY <2>1, <3>1, <3>2, <3>3, FoundTiled, Found
      <3>5. c \in InUse(chunks) /\ c.size > 0 /\ ~c.free
        BY <2>1, TheChunk
      <3>6. c \in S
        BY <3>4, <3>5 DEF InUse
      <3> QED
        BY <3>1, <3>2, <3>3, <3>4, <3>5, <3>6, MergeTiled DEF ArenaInv
    <2> QED
      BY <1>5, <2>1, CallTiled DEF ReallocMoves
  <1>6. ASSUME NEW b \in live, NEW n \in Sizes, ReallocMaster(b, n) PROVE TiledInv'
    BY <1>6, FoundTiled, CallTiled DEF ReallocMaster
  <1> QED
    BY <1>1, <1>2, <1>3, <1>4, <1>5, <1>6 DEF SystemCall

\* A new arena is one free chunk from end to end.
LEMMA NewTiled ==
    ASSUME NEW lo \in Nat, NEW hi \in Nat, lo <= hi
    PROVE  Tiled(NewChunks(lo, hi), lo, hi)
  <1>1. PICK c : c = [data |-> lo, size |-> Minus(hi, lo), free |-> TRUE]
    OBVIOUS
  <1>2. c.data = lo /\ c.size = hi - lo
    BY <1>1 DEF Minus
  <1>3. NewChunks(lo, hi) = {c}
    BY <1>1 DEF NewChunks
  <1> QED
    BY SMTT(60), <1>2, <1>3 DEF Tiled

LEMMA NextTiled == IInv /\ TiledInv /\ [Next]_vars => TiledInv'
  <1> SUFFICES ASSUME IInv, TiledInv, [Next]_vars PROVE TiledInv'
    OBVIOUS
  <1>1. CASE SystemCall
    BY <1>1, CallsTiled
  <1>2. CASE WaitForRequests
    BY <1>2 DEF WaitForRequests, TiledInv, Sound
  <1>3. CASE Fork
    <2>1. /\ phase = "idle" /\ phase' = "fork" /\ base' = watermark /\ watermark' = watermark
          /\ chunks' = NewChunks(watermark, ForkEnd)
      BY <1>3 DEF Fork
    <2>2. watermark \in Nat
      BY SMTT(60), <2>1, Ends DEF IInv, MasterInv, Addr
    <2>3. Hi' = ForkEnd /\ (Sound' => watermark <= ForkEnd)
      BY <2>1 DEF Hi, Sound
    <2>4. watermark <= ForkEnd => Tiled(NewChunks(watermark, ForkEnd), watermark, ForkEnd)
      BY <2>2, Ends, NewTiled
    <2> QED
      BY <2>1, <2>3, <2>4 DEF TiledInv
  <1>4. CASE AllocatePost
    BY <1>4 DEF AllocatePost, TiledInv, Sound, Hi
  <1>5. CASE EndFork
    BY <1>5 DEF EndFork, TiledInv, Sound
  <1>6. CASE UNCHANGED vars
    BY <1>6 DEF vars, TiledInv, Sound, Hi
  <1> QED
    BY <1>1, <1>2, <1>3, <1>4, <1>5, <1>6 DEF Next

\* A run that no block has lies in one free chunk: where the chunk that holds its
\* first unit ends, another free one would have to follow.
LEMMA TiledFound == IInv /\ TiledInv => FreeIsFound
  <1> SUFFICES ASSUME IInv, TiledInv, Runs, Room, NEW a \in base .. Hi, NEW n \in 1 .. Hi - a,
                      Cells(a, n) \cap UNION {Cells(c.data, c.size) :
                                                c \in {c \in chunks : ~c.free}} = {}
               PROVE  Fits(n) # {}
    BY DEF FreeIsFound, Hi
  <1>1. Sound
    BY DEF Sound, Runs, Room
  <1>2. /\ GoodArena(chunks, base, Hi) /\ base \in Nat /\ Hi \in Nat /\ Hi < Word
        /\ Tiled(chunks, base, Hi) /\ \A c \in chunks : ~c.free => c.size > 0
    BY <1>1, SoundFacts DEF TiledInv, ArenaInv, InUse
  <1>3. a \in Nat /\ n \in Nat /\ 0 < n /\ base <= a /\ a + n <= Hi
    BY SMTT(60), <1>2
  <1>4. \A x \in Nat : a <= x /\ x < a + n => x \in Cells(a, n)
    <2>1. a \in Addr /\ a + n <= Word
      BY SMTT(60), <1>2, <1>3, Ends DEF Addr
    <2>2. \A x \in Nat : x < a + n => x \in Addr
      BY SMTT(60), <1>2, <1>3, Ends DEF Addr
    <2> QED
      BY <1>3, <2>1, <2>2, CellsInterval
  <1>5. ASSUME NEW c \in chunks, NEW x \in Nat, a <= x, x < a + n,
               c.data <= x, x < c.data + c.size
        PROVE  c.free
    <2> SUFFICES ASSUME ~c.free PROVE FALSE
      OBVIOUS
    <2>1. c.data \in Nat /\ c.size \in Nat /\ c.data + c.size <= Hi
      BY <1>2, ChunkFacts
    <2>2. c.data \in Addr /\ x \in Addr /\ c.data + c.size <= Word
      BY SMTT(60), <1>2, <1>5, <2>1, Ends DEF Addr
    <2>3. x \in Cells(c.data, c.size)
      BY <1>5, <2>1, <2>2, CellsInterval
    <2>4. x \in Cells(a, n)
      BY <1>4, <1>5
    <2> QED
      BY <2>3, <2>4
  <1>6. PICK c \in chunks : c.data <= a /\ a < c.data + c.size
    <2>1. a < Hi
      BY SMTT(60), <1>2, <1>3
    <2> QED
      BY <1>2, <1>3, <2>1 DEF Tiled
  <1>7. c.free /\ c.data \in Nat /\ c.size \in Nat /\ c.data + c.size <= Hi
    BY SMTT(60), <1>2, <1>3, <1>5, <1>6, ChunkFacts
  <1>8. a + n <= c.data + c.size
    <2> SUFFICES ASSUME ~(a + n <= c.data + c.size) PROVE FALSE
      OBVIOUS
    <2>1. PICK x : x = c.data + c.size
      OBVIOUS
    <2>2. x \in Nat /\ a <= x /\ x < a + n /\ base <= x /\ x < Hi
      BY SMTT(60), <1>2, <1>3, <1>6, <1>7, <2>1
    <2>3. PICK d \in chunks : d.data <= x /\ x < d.data + d.size
      BY <1>2, <2>2 DEF Tiled
    <2>4. d.free
      BY <1>5, <2>2, <2>3
    <2>5. d # c
      BY SMTT(60), <1>7, <2>1, <2>3
    <2>6. /\ d.data \in Nat /\ d.size \in Nat
          /\ d.data + d.size <= c.data \/ c.data + c.size <= d.data
      BY <1>2, <2>5, ChunkFacts
    <2>7. c.data + c.size = d.data
      BY SMTT(60), <1>7, <2>1, <2>3, <2>6
    <2> QED
      BY <1>2, <1>7, <2>4, <2>5, <2>7 DEF Tiled
  <1>9. c.size >= n
    BY SMTT(60), <1>3, <1>6, <1>7, <1>8
  <1> QED
    BY <1>7, <1>9 DEF Fits

\* malloc answers 0 only when there is no room (FreeIsFound): free chunks that follow
\* each other are always one chunk, so that find_free finds any run of free units.
THEOREM HeapCoalesced == Spec => []FreeIsFound
  <1>1. Init => TiledInv
    BY NewTiled, Ends DEF Init, TiledInv, Hi
  <1> QED
    BY <1>1, InitInv, NextInv, NextTiled, TiledFound, PTL DEF Spec
==============================================================================
