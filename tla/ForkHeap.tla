------------------------------ MODULE ForkHeap ------------------------------
(***************************************************************************)
(* The heap of a guest: the Arena of libriscv (native_heap.hpp), the       *)
(* system calls on it (native_libc.cpp), and the two Scripts that have     *)
(* one: the master, whose main() allocates before it waits for requests,   *)
(* and a fork of it, whose own arena begins where the master's blocks end  *)
(* (the fork constructor in script.cpp).  Forks share nothing they write,  *)
(* so there is one at a time.                                              *)
(*                                                                         *)
(* Memory is in units of the arena's alignment, and an address is a number *)
(* below Word (PointerType is uint32_t).  The linked list of chunks is the *)
(* set of them, in the order of their addresses from the base on.          *)
(***************************************************************************)
EXTENDS Naturals, FiniteSets

CONSTANTS
    HeapAddress,    \* memory.heap_address(): the end of the program's data
    ArenaBase,      \* where mmap_allocate put the master's arena
    MaxHeap,        \* max_heap() of the tenant
    Word,           \* how many addresses there are
    PostSize,       \* size of the area for the data of a POST
    Sizes,          \* sizes that guests ask for
    Tags,           \* what guests write in their blocks
    MaxChunks,      \* m_max_chunks: chunks of an arena, free ones included
    MaxBlocks,      \* bound: blocks that a guest holds
    Posted,         \* the data of a POST
    Junk            \* what is in memory that no block holds

HeapEnd == ArenaBase + MaxHeap

\* Where the arena of a fork ends: `remaining' is counted from heap_address(), not
\* from where the master's arena begins.
ForkEnd == HeapAddress + MaxHeap

ASSUME HeapAssumption ==
    /\ HeapAddress \in Nat /\ ArenaBase \in Nat /\ MaxHeap \in Nat
    /\ Word \in Nat /\ PostSize \in Nat /\ MaxChunks \in Nat /\ MaxBlocks \in Nat
    /\ 0 < HeapAddress /\ HeapAddress <= ArenaBase
    /\ HeapEnd + PostSize < Word
    /\ Sizes \subseteq Nat
    /\ Junk \notin Tags /\ Posted \notin Tags /\ Junk # Posted

VARIABLES
    phase,          \* "main": the master runs, "idle": no fork, "fork": one runs
    base,           \* first address of the running guest's arena
    chunks,         \* chunks of that arena
    live,           \* blocks that the guest has: address, size asked for, contents
    mem,            \* what is in memory
    post,           \* whether the fork has a POST area, after the heap
    master,         \* chunks, live and mem of the master when it waits
    watermark       \* m_arena_watermark

vars == <<phase, base, chunks, live, mem, post, master, watermark>>

Addr == 0 .. Word - 1
Chunk == [data : Addr, size : Addr, free : BOOLEAN]
Block == [at : Addr, size : Addr, tag : Tags]
Contents == Tags \cup {Posted, Junk}

(* Faulty variants of the definition that the name begins with, one for    *)
(* each way in which the code could be wrong.  Nothing below uses them.    *)
IsWatermark_base(w) == w = ArenaBase
MasterSize_unknown(b) == {0}
PrevFree_notMerged(A, c) == {}

-----------------------------------------------------------------------------
(* The arena.                                                              *)

\* Arithmetic on PointerType.
Plus(a, b) == IF a + b < Word THEN a + b ELSE a + b - Word
Minus(a, b) == IF a >= b THEN a - b ELSE a + Word - b

\* fixup_size: at least one unit.
Fixup(n) == IF n = 0 THEN 1 ELSE n

\* Arena(base, end): one free chunk.
NewChunks(from, end) == {[data |-> from, size |-> Minus(end, from), free |-> TRUE]}

Fits(n) == {c \in chunks : c.free /\ c.size >= n}

\* find_free: the first in the list that is large enough.  (An arena that has
\* wrapped is not followed to address 0, which callers take for a failure.)
FindFree(c, n) ==
    c.data # 0 /\ c \in Fits(n) /\ \A d \in Fits(n) : Minus(c.data, base) <= Minus(d.data, base)

\* begin_find_used: the chunk handed out at p.
UsedAt(A, p) == {c \in A : ~c.free /\ c.data = p}

\* The neighbours of c in A, when they are free.
NextFree(A, c) == {d \in A : d.free /\ d.data = Plus(c.data, c.size) /\ d # c}
PrevFree(A, c) == {d \in A : d.free /\ Plus(d.data, d.size) = c.data /\ d # c}

\* split_next: c gets size n, and a free chunk after it the rest.
Split(c, n) ==
    (chunks \ {c}) \cup {[data |-> c.data, size |-> n, free |-> FALSE]} \cup
    {d \in {[data |-> Plus(c.data, n), size |-> c.size - n, free |-> TRUE]} : c.size > n}

\* new_chunk throws when all slots are taken.
SplitRoom(c, n) == c.size > n => Cardinality(chunks) < MaxChunks

\* internal_free: c and its free neighbours become one free chunk.
Merged(first, last) ==
    [data |-> first.data, free |-> TRUE,
     size |-> Minus(Plus(last.data, last.size), first.data)]

InternalFree(A, c) ==
    LET before == PrevFree(A, c)
        after == NextFree(A, c)
        first == IF before = {} THEN c ELSE CHOOSE d \in before : TRUE
        last == IF after = {} THEN c ELSE CHOOSE d \in after : TRUE
    IN  (A \ ({c} \cup before \cup after)) \cup {Merged(first, last)}

\* subsume_next: c grows to size n at the cost of the free chunk d after it.
Subsume(c, d, n) ==
    (chunks \ {c, d}) \cup {[data |-> c.data, size |-> n, free |-> FALSE]} \cup
    {e \in {[data |-> Plus(c.data, n), size |-> c.size + d.size - n, free |-> TRUE]} :
        c.size + d.size > n}

\* high_watermark: no block that is handed out ends after w.
IsWatermark(w) ==
    LET ends == {ArenaBase} \cup {Plus(c.data, c.size) : c \in {c \in chunks : ~c.free}}
    IN  w \in ends /\ \A e \in ends : e <= w

-----------------------------------------------------------------------------
(* The system calls.  A guest frees and reallocates only blocks that it    *)
(* has, and writes all of a block and nothing else.  A call that answers 0 *)
(* changes nothing and is not a step.                                      *)

Runs == phase \in {"main", "fork"}

Cells(p, n) == {Plus(p, i) : i \in 0 .. n - 1}

Fill(p, n, t) == [a \in Addr |-> IF a \in Cells(p, n) THEN t ELSE mem[a]]

\* malloc and calloc, and guest_alloc of the host.
Malloc(n, t) ==
    /\ Runs
    /\ Cardinality(live) < MaxBlocks
    /\ \E c \in chunks :
         /\ FindFree(c, Fixup(n)) /\ SplitRoom(c, Fixup(n))
         /\ chunks' = Split(c, Fixup(n))
         /\ live' = live \cup {[at |-> c.data, size |-> n, tag |-> t]}
         /\ mem' = Fill(c.data, n, t)
    /\ UNCHANGED <<phase, base, post, master, watermark>>

\* free, and guest_free of the host.  In a fork, blocks of the master are not known
\* to the arena: on_unknown_free does nothing.
FreedChunks(b) ==
    IF UsedAt(chunks, b.at) = {} THEN chunks
    ELSE InternalFree(chunks, CHOOSE c \in UsedAt(chunks, b.at) : TRUE)

Free(b) ==
    /\ Runs
    /\ chunks' = FreedChunks(b)
    /\ live' = live \ {b}
    /\ mem' = Fill(b.at, b.size, Junk)
    /\ UNCHANGED <<phase, base, post, master, watermark>>

\* The guest has the block b at `to' now, with n units: the first `kept' are what
\* memcpy brought there, and the guest writes those that the block did not have.
Moved(b, to, n, kept) ==
    /\ live' = (live \ {b}) \cup {[at |-> to, size |-> n, tag |-> b.tag]}
    /\ mem' = [a \in Addr |->
                 IF a \in Cells(to, n) \ Cells(to, b.size) THEN b.tag
                 ELSE IF a \in Cells(to, kept) THEN mem[Plus(b.at, Minus(a, to))]
                 ELSE IF a \in Cells(to, n) THEN mem[a]
                 ELSE IF a \in Cells(b.at, b.size) THEN Junk
                 ELSE mem[a]]

Least(m, n) == IF m <= n THEN m ELSE n

\* realloc of a chunk that is large enough already.
ReallocStays(b, n) ==
    /\ Runs
    /\ \E c \in UsedAt(chunks, b.at) : c.size >= Fixup(n)
    /\ Moved(b, b.at, n, Least(b.size, n))
    /\ UNCHANGED <<phase, base, chunks, post, master, watermark>>

Growable(c, n) == {d \in NextFree(chunks, c) : c.size + d.size >= n}

\* realloc into the free chunk that follows.
ReallocGrows(b, n) ==
    /\ Runs
    /\ \E c \in UsedAt(chunks, b.at) : \E d \in Growable(c, Fixup(n)) :
         /\ c.size < Fixup(n)
         /\ chunks' = Subsume(c, d, Fixup(n))
    /\ Moved(b, b.at, n, b.size)
    /\ UNCHANGED <<phase, base, post, master, watermark>>

\* realloc to another chunk: malloc, then free, then the contents are copied.
ReallocMoves(b, n) ==
    /\ Runs
    /\ \E c \in UsedAt(chunks, b.at), e \in chunks :
         /\ c.size < Fixup(n) /\ Growable(c, Fixup(n)) = {}
         /\ FindFree(e, Fixup(n)) /\ SplitRoom(e, Fixup(n))
         /\ chunks' = InternalFree(Split(e, Fixup(n)), c)
         /\ Moved(b, e.data, n, c.size)
    /\ UNCHANGED <<phase, base, post, master, watermark>>

\* on_unknown_realloc: a fork reallocates a block of the master.
MasterSize(b) == {c.size : c \in UsedAt(master.chunks, b.at)}

ReallocMaster(b, n) ==
    /\ phase = "fork" /\ UsedAt(chunks, b.at) = {}
    /\ \E e \in chunks, old_len \in MasterSize(b) :
         /\ FindFree(e, Fixup(n)) /\ SplitRoom(e, Fixup(n))
         /\ chunks' = Split(e, Fixup(n))
         /\ Moved(b, e.data, n, Least(old_len, n))
    /\ UNCHANGED <<phase, base, post, master, watermark>>

-----------------------------------------------------------------------------
(* The Scripts.                                                            *)

\* The master's machine is complete: main() has allocated nothing yet.
Init ==
    /\ phase = "main" /\ base = ArenaBase
    /\ chunks = NewChunks(ArenaBase, HeapEnd)
    /\ live = {} /\ mem = [a \in Addr |-> Junk] /\ post = FALSE
    /\ master = [chunks |-> {}, live |-> {}, mem |-> mem]
    /\ watermark = ArenaBase

\* The end of machine_initialize.  The master does not run again.
WaitForRequests ==
    /\ phase = "main"
    /\ phase' = "idle"
    /\ \E w \in Addr : IsWatermark(w) /\ watermark' = w
    /\ master' = [chunks |-> chunks, live |-> live, mem |-> mem]
    /\ chunks' = {} /\ live' = {} /\ base' = ArenaBase
    /\ UNCHANGED <<mem, post>>

\* The fork constructor: all memory is the master's until it is written.
Fork ==
    /\ phase = "idle"
    /\ phase' = "fork"
    /\ base' = watermark
    /\ chunks' = NewChunks(watermark, ForkEnd)
    /\ live' = master.live
    /\ UNCHANGED <<mem, post, master, watermark>>

\* allocate_post_data: mmap_allocate goes on where the heap ends.
AllocatePost ==
    /\ phase = "fork" /\ ~post
    /\ post' = TRUE
    /\ mem' = Fill(HeapEnd, PostSize, Posted)
    /\ UNCHANGED <<phase, base, chunks, live, master, watermark>>

\* ~Script.  That is also what becomes of a fork that faults: when the arena has no
\* slot for another chunk, and when a block of the master cannot be reallocated
\* (the system call copies to address 0 then).
EndFork ==
    /\ phase = "fork"
    /\ phase' = "idle"
    /\ chunks' = {} /\ live' = {} /\ base' = ArenaBase
    /\ mem' = master.mem /\ post' = FALSE
    /\ UNCHANGED <<master, watermark>>

SystemCall ==
    \/ \E n \in Sizes, t \in Tags : Malloc(n, t)
    \/ \E b \in live : Free(b)
    \/ \E b \in live, n \in Sizes :
         ReallocStays(b, n) \/ ReallocGrows(b, n) \/ ReallocMoves(b, n) \/ ReallocMaster(b, n)

Next == SystemCall \/ WaitForRequests \/ Fork \/ AllocatePost \/ EndFork

Spec == Init /\ [][Next]_vars

-----------------------------------------------------------------------------
(* Properties.                                                             *)

\* The type invariant.
TypeOK ==
    /\ phase \in {"main", "idle", "fork"}
    /\ base \in Addr /\ watermark \in Addr
    /\ chunks \subseteq Chunk /\ live \subseteq Block
    /\ mem \in [Addr -> Contents] /\ post \in BOOLEAN
    /\ master \in [chunks : SUBSET Chunk, live : SUBSET Block, mem : [Addr -> Contents]]

\* What the master has allocated leaves something for a fork: ForkEnd - watermark
\* does not wrap.
Room == phase = "main" \/ watermark <= ForkEnd

\* `The fork's allocator covers only [watermark, heap_end), i.e. the region beyond
\* everything the master has ever allocated' (script.cpp:64), while there is room:
\* the blocks that a guest has, those of the master and its own, are in the heap
\* and do not overlap.
BlocksApart ==
    Room =>
      /\ \A b \in live : ArenaBase <= b.at /\ b.at + b.size <= HeapEnd
      /\ \A b, d \in live : b # d => b.at + b.size <= d.at \/ d.at + d.size <= b.at

\* Whatever is allocated, freed and reallocated, by the master and then by the
\* fork, each block still holds what was written to it, and so does the area of
\* the POST data (`return the old size so the ecall layer can memcpy the contents',
\* script.cpp:70).
BlocksIntact ==
    Room =>
      /\ \A b \in live : \A a \in Cells(b.at, b.size) : mem[a] = b.tag
      /\ post => \A a \in Cells(HeapEnd, PostSize) : mem[a] = Posted

\* malloc answers 0 only when there is no room: a run of n units of the arena that
\* no block has is found, however it came about (`Adjacent free chunks are
\* coalesced immediately', native_heap.hpp).
FreeIsFound ==
    LET end == IF phase = "main" THEN HeapEnd ELSE ForkEnd
        Taken == UNION {Cells(c.data, c.size) : c \in {c \in chunks : ~c.free}}
    IN  Runs /\ Room =>
          \A a \in base .. end : \A n \in 1 .. end - a :
            Cells(a, n) \cap Taken = {} => Fits(n) # {}
=============================================================================
