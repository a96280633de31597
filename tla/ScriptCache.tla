----------------------------- MODULE ScriptCache -----------------------------
(***************************************************************************)
(* The compiled regexes of a program (Cache<vre>, script_cache.hpp): a     *)
(* master machine compiles some while it is initialised, every fork of it  *)
(* borrows them and may compile and delete more, and each machine frees    *)
(* what it owns in ~Script.  The cache of directors is the same template.  *)
(*                                                                         *)
(* A handle is the place in the cache that regex_compile has returned, and *)
(* lives in guest memory, which a fork inherits from its master.  Places   *)
(* count from 1 here.  A regex is known to the cache by the CRC-32 of its  *)
(* pattern alone.                                                          *)
(***************************************************************************)
EXTENDS Naturals, Sequences

CONSTANTS
    Masters,        \* master machines, one for each program that is loaded
    Tasks,          \* tasks, each with at most one fork
    Patterns,       \* regex patterns
    Hash,           \* Hash[p]: the CRC-32 of a pattern
    MaxEntries,     \* m_max_entries
    MaxRegex,       \* bound: regexes that are ever compiled
    NoRegex,        \* the null pointer
    NoMaster        \* no machine

ASSUME CacheAssumption ==
    /\ Masters \cap Tasks = {} /\ NoMaster \notin Masters
    /\ Hash \in [Patterns -> Nat]
    /\ MaxEntries \in Nat /\ MaxRegex \in Nat
    /\ NoRegex \notin Nat

Scripts == Masters \cup Tasks

VARIABLES
    program,        \* the master that new forks are made from
    state,          \* state[s]: "none", "init" (a master in main) or "open"
    parent,         \* parent[t]: the master of a fork
    cache,          \* cache[s]: the entries in use, m_size of them
    handles,        \* handles[s]: the handles in the guest's memory
    compiled,       \* compiled[r]: the hash of the pattern of regex r
    freed           \* the regexes given to VRE_free

vars == <<program, state, parent, cache, handles, compiled, freed>>

Init ==
    /\ program = NoMaster
    /\ state = [s \in Scripts |-> "none"]
    /\ parent = [t \in Tasks |-> NoMaster]
    /\ cache = [s \in Scripts |-> <<>>]
    /\ handles = [s \in Scripts |-> {}]
    /\ compiled = <<>>
    /\ freed = {}

(* Faulty variants of the definition that the name begins with, one for    *)
(* each way in which the code could be wrong.  Nothing below uses them.    *)
Loan_owned(e) == e
Manage_noLimit(c, r, h) == Append(c, [item |-> r, hash |-> h, non_owned |-> FALSE])
Find_anyEntry(c, h) == 1 .. Len(c)
LoanFrom_offByOne(c) ==
    [i \in 1 .. Len(c) - 1 |-> [c[i + 1] EXCEPT !.non_owned = TRUE]]
Owned_all(s) == {cache[s][i].item : i \in 1 .. Len(cache[s])} \ {NoRegex}

-----------------------------------------------------------------------------
(* The cache.                                                              *)

FreeEntry == [item |-> NoRegex, hash |-> 0, non_owned |-> FALSE]

\* find: the places of entries with that hash, a freed one has hash 0.
Find(c, h) == {i \in 1 .. Len(c) : c[i].hash = h}

\* The first of them.
First(places) == CHOOSE i \in places : \A j \in places : i <= j

\* manage: the regex goes to the end; with no room left it throws.
Manage(c, r, h) ==
    IF Len(c) < MaxEntries
    THEN Append(c, [item |-> r, hash |-> h, non_owned |-> FALSE])
    ELSE c

\* loan_from: its loop appends the entries in use, now borrowed.
Loan(e) == [e EXCEPT !.non_owned = TRUE]
InUse(e) == e.item # NoRegex
LoanFrom(c) ==
    LET dst[i \in 0 .. Len(c)] ==
          IF i = 0 THEN <<>>
          ELSE IF InUse(c[i]) THEN Append(dst[i - 1], Loan(c[i]))
          ELSE dst[i - 1]
    IN  dst[Len(c)]

\* What foreach_owned finds in ~Script.
Owned(s) ==
    {cache[s][i].item : i \in {j \in 1 .. Len(cache[s]) : ~cache[s][j].non_owned}}
        \ {NoRegex}

-----------------------------------------------------------------------------
(* The guest's system calls.                                               *)

Running(s) == state[s] = IF s \in Masters THEN "init" ELSE "open"

Remember(s, h, i) ==
    handles' = [handles EXCEPT ![s] = @ \cup {[hash |-> h, place |-> i, own |-> TRUE]}]

\* regex_compile of a pattern whose hash is known.
CompileKnown(s, p) ==
    /\ Running(s)
    /\ Find(cache[s], Hash[p]) # {}
    /\ Remember(s, Hash[p], First(Find(cache[s], Hash[p])))
    /\ UNCHANGED <<program, state, parent, cache, compiled, freed>>

\* regex_compile of a new pattern.  When manage throws, nobody keeps the regex,
\* and the guest gets an exception in place of a handle.
CompileNew(s, p) ==
    /\ Running(s)
    /\ Find(cache[s], Hash[p]) = {}
    /\ Len(compiled) < MaxRegex
    /\ compiled' = Append(compiled, Hash[p])
    /\ cache' = [cache EXCEPT ![s] = Manage(@, Len(compiled) + 1, Hash[p])]
    /\ IF Len(cache'[s]) > Len(cache[s])
       THEN Remember(s, Hash[p], Len(cache'[s]))
       ELSE UNCHANGED handles
    /\ UNCHANGED <<program, state, parent, freed>>

\* regex_delete of a handle: the entry is cleared, and its place stays in use.
Delete(s, i) ==
    /\ Running(s)
    /\ i <= Len(cache[s])
    /\ cache' = [cache EXCEPT ![s][i] = FreeEntry]
    /\ handles' = [handles EXCEPT ![s] = {h \in @ : h.place # i}]
    /\ UNCHANGED <<program, state, parent, compiled, freed>>

-----------------------------------------------------------------------------
(* Machines come and go.                                                   *)

\* ~Script: owned regexes are freed.
Destruct(s) ==
    /\ freed' = freed \cup Owned(s)
    /\ state' = [state EXCEPT ![s] = "none"]
    /\ cache' = [cache EXCEPT ![s] = <<>>]
    /\ handles' = [handles EXCEPT ![s] = {}]

\* A program is loaded, and its main runs.
Construct(m) ==
    /\ state[m] = "none"
    /\ state' = [state EXCEPT ![m] = "init"]
    /\ UNCHANGED <<program, parent, cache, handles, compiled, freed>>

\* main waits for requests, and the program is installed.
Install(m) ==
    /\ state[m] = "init"
    /\ state' = [state EXCEPT ![m] = "open"]
    /\ program' = m
    /\ UNCHANGED <<parent, cache, handles, compiled, freed>>

\* main has thrown.
InitFails(m) ==
    /\ state[m] = "init"
    /\ Destruct(m)
    /\ UNCHANGED <<program, parent, compiled>>

\* The constructor of a fork; its memory is that of the master.
Fork(t) ==
    /\ state[t] = "none" /\ program # NoMaster
    /\ state' = [state EXCEPT ![t] = "open"]
    /\ parent' = [parent EXCEPT ![t] = program]
    /\ cache' = [cache EXCEPT ![t] = LoanFrom(cache[program])]
    /\ handles' = [handles EXCEPT ![t] = {[h EXCEPT !.own = FALSE] : h \in handles[program]}]
    /\ UNCHANGED <<program, compiled, freed>>

\* The task ends.
End(t) ==
    /\ state[t] = "open"
    /\ Destruct(t)
    /\ parent' = [parent EXCEPT ![t] = NoMaster]
    /\ UNCHANGED <<program, compiled>>

\* The last shared_ptr to a replaced program is given up (module LiveUpdate).
Release(m) ==
    /\ state[m] = "open" /\ m # program
    /\ \A t \in Tasks : parent[t] # m
    /\ Destruct(m)
    /\ UNCHANGED <<program, parent, compiled>>

-----------------------------------------------------------------------------
Next ==
    \/ \E s \in Scripts :
         \/ \E p \in Patterns : CompileKnown(s, p) \/ CompileNew(s, p)
         \/ \E i \in 1 .. MaxEntries : Delete(s, i)
    \/ \E m \in Masters : Construct(m) \/ Install(m) \/ InitFails(m) \/ Release(m)
    \/ \E t \in Tasks : Fork(t) \/ End(t)

Spec == Init /\ [][Next]_vars

-----------------------------------------------------------------------------
(* Properties.                                                             *)

Entry == [item : 1 .. MaxRegex \cup {NoRegex}, hash : Nat, non_owned : BOOLEAN]
Handle == [hash : Nat, place : 1 .. MaxEntries, own : BOOLEAN]

\* The type invariant; no cache outgrows its array.
TypeOK ==
    /\ program \in Masters \cup {NoMaster}
    /\ state \in [Scripts -> {"none", "init", "open"}]
    /\ parent \in [Tasks -> Masters \cup {NoMaster}]
    /\ \A s \in Scripts : /\ Len(cache[s]) <= MaxEntries
                          /\ \A i \in 1 .. Len(cache[s]) : cache[s][i] \in Entry
    /\ handles \in [Scripts -> SUBSET Handle]
    /\ Len(compiled) <= MaxRegex
    /\ freed \subseteq 1 .. MaxRegex

\* A regex that any machine can still match with was not freed, whatever its
\* master, the other forks and replaced programs free.
RegexAlive ==
    \A s \in Scripts : \A i \in 1 .. Len(cache[s]) : cache[s][i].item \notin freed

\* `free any owned regex pointers' (script.cpp:142): a regex is freed by one
\* machine, once.
FreedOnce ==
    \A s, r \in Scripts : \A i \in 1 .. Len(cache[s]), j \in 1 .. Len(cache[r]) :
        (/\ cache[s][i].item = cache[r][j].item /\ InUse(cache[s][i])
         /\ ~cache[s][i].non_owned /\ ~cache[r][j].non_owned) => s = r /\ i = j

\* Where a handle leads to a regex of its pattern (as far as hashes tell).
Leads(s, h) ==
    /\ h.place <= Len(cache[s])
    /\ cache[s][h.place].item # NoRegex
    /\ compiled[cache[s][h.place].item] = h.hash

\* Where it leads to a freed place, which has the hash 0: find answers such a
\* place for a pattern whose CRC-32 is 0, as that of the empty pattern is.
LeadsNowhere(s, h) ==
    /\ h.hash = 0
    /\ h.place <= Len(cache[s])
    /\ ~InUse(cache[s][h.place])

\* `Return the regex handle' (script_functions.cpp:911): until the guest deletes
\* it, a handle that a machine got from regex_compile leads to that regex,
\* whatever else it compiles and deletes, and also when the cache is full.  Only
\* for a pattern of hash 0 may it lead to a freed place instead.
OwnHandles ==
    \A s \in Scripts : \A h \in handles[s] : h.own => Leads(s, h) \/ LeadsNowhere(s, h)

\* `Load the compiled regexes of the source' (script.cpp:89): the handles that
\* a fork finds in its memory lead to the regexes of its master, also after the
\* master was replaced, if the master has deleted none (loan_from closes gaps).
InheritedHandles ==
    \A t \in Tasks :
        (state[t] = "open" /\ \A i \in 1 .. Len(cache[parent[t]]) : InUse(cache[parent[t]][i]))
        => \A h \in handles[t] : ~h.own => Leads(t, h)

-----------------------------------------------------------------------------
(* The inductive invariant behind these properties.                        *)

\* An entry in use has a compiled regex and its hash, a freed one has hash 0.
EntryInv(e) ==
    IF InUse(e) THEN e.item \in 1 .. Len(compiled) /\ e.hash = compiled[e.item]
                ELSE e.hash = 0
EntriesInv == \A s \in Scripts : \A i \in 1 .. Len(cache[s]) : EntryInv(cache[s][i])

\* The program and the masters of the forks are complete, so they compile and
\* delete no more; a machine that does not exist has nothing.
MachinesInv ==
    /\ program # NoMaster => state[program] = "open"
    /\ \A s \in Scripts : state[s] = "none" => cache[s] = <<>> /\ handles[s] = {}
    /\ \A t \in Tasks : /\ state[t] \in {"none", "open"}
                        /\ state[t] = "open" => /\ parent[t] \in Masters
                                                /\ state[parent[t]] = "open"

\* A master owns all that it has.
MastersInv ==
    \A m \in Masters : /\ \A i \in 1 .. Len(cache[m]) : ~cache[m][i].non_owned
                       /\ \A h \in handles[m] : h.own

\* What a fork has borrowed is still in the cache of its master.
LoansInv ==
    \A t \in Tasks : \A i \in 1 .. Len(cache[t]) :
        InUse(cache[t][i]) /\ cache[t][i].non_owned =>
            \E j \in 1 .. Len(cache[parent[t]]) :
                cache[parent[t]][j].item = cache[t][i].item

\* Who has and who frees a regex, at every step of compile, delete, fork and
\* ~Script: it implies RegexAlive and FreedOnce.
OwnershipInv ==
    /\ cache \in [Scripts -> Seq(Entry)] /\ compiled \in Seq(Nat)
    /\ freed \subseteq 1 .. Len(compiled)
    /\ EntriesInv /\ MachinesInv /\ MastersInv /\ LoansInv
    /\ RegexAlive /\ FreedOnce
==============================================================================
