--------------------------- MODULE StateTransfer ---------------------------
(***************************************************************************)
(* The storage machines of one tenant: the remote calls that its forks     *)
(* make into them, and the state that a live update moves from the storage *)
(* of the old program to that of the new one.                              *)
(*                                                                         *)
(* A storage holds the set of tasks whose remote write it has.  A task     *)
(* calls under storage_mtx; an updater calls on_live_update, copies the    *)
(* result and calls on_resume_update without it.  Two threads that execute *)
(* in one machine at once leave its contents unspecified (tainted), and so *)
(* does a guest function that faults half-way.  How instances are made,    *)
(* installed and freed is in module LiveUpdate; here an update begins with *)
(* the exchange.                                                           *)
(***************************************************************************)
EXTENDS Naturals, FiniteSets

CONSTANTS
    Updaters,       \* threads that run a live update
    Tasks,          \* request and fetch tasks
    Serializers,    \* the instances whose program registers on_live_update
    Resumers,       \* the instances whose program registers on_resume_update
    MaxInst,        \* bound: number of instances
    NoInst,         \* no instance
    NoTask,         \* no task
    Stale,          \* a captured reference to a Script that is gone
    Garbage         \* in a serialized state: bytes the guest did not write

ASSUME StorageAssumption ==
    /\ MaxInst \in Nat \ {0}
    /\ NoInst \notin Nat
    /\ NoTask \notin Tasks /\ Stale \notin Tasks /\ Stale # NoTask
    /\ Garbage \notin Tasks
    /\ Updaters \cap Tasks = {}

Inst == 1 .. MaxInst

VARIABLES
    made,           \* instances made so far
    program,        \* SandboxTenant::program
    storage,        \* storage[i]: the tasks whose writes i's storage has
    tainted,        \* instances whose storage contents are unspecified
    storage_mtx,    \* storage_mtx[i]: the task that holds the mutex
    inside,         \* inside[i]: the threads executing in i's storage machine
    fault_handler,  \* fault_handler[i]: Script captured by its page fault handler
    updater,        \* updater[u]: program counter and locals of a live update
    task            \* task[t]: program counter and Script::m_inst of a fork

vars == <<made, program, storage, tainted, storage_mtx, inside, fault_handler, updater, task>>

IdleUpdater == [pc |-> "idle", inst |-> NoInst, old |-> NoInst, ser |-> {}, before |-> {},
                result |-> "none"]
IdleTask == [pc |-> "idle", m_inst |-> NoInst]

\* The tenant has been loaded.
Init ==
    /\ made = 1 /\ program = 1
    /\ storage = [i \in Inst |-> {}]
    /\ tainted = {}
    /\ storage_mtx = [i \in Inst |-> NoTask]
    /\ inside = [i \in Inst |-> {}]
    /\ fault_handler = [i \in Inst |-> NoTask]
    /\ updater = [u \in Updaters |-> IdleUpdater]
    /\ task = [t \in Tasks |-> IdleTask]

\* What becomes unspecified when somebody starts to execute in i's storage.
Raced(i) == IF inside[i] = {} THEN {} ELSE {i}

Goto(u, pc) == updater' = [updater EXCEPT ![u].pc = pc]
Answer(u, r) == updater' = [updater EXCEPT ![u] = [@ EXCEPT !.pc = "return", !.result = r]]

-----------------------------------------------------------------------------
(* Faulty variants of the definition that the name begins with, one for    *)
(* each way in which the code could be wrong.  Nothing below uses them.    *)
Lockable_always(t) == TRUE
Restored_nothing(u) == {}
Unlocked_onSuccess(t) == {storage_mtx}
SharedPages_once(t) ==
    IF fault_handler[task[t].m_inst] # NoTask THEN fault_handler
    ELSE [fault_handler EXCEPT ![task[t].m_inst] = t]

-----------------------------------------------------------------------------
(* The state transfer of riscv_update and riscv_update_file.               *)

\* State is transferred when the old program serializes and the new one resumes.
AfterSwap(from, to) ==
    IF from \in Serializers /\ to \in Resumers THEN "serialize" ELSE "return"

\* History: the writes that i's storage has, and those that an update which is
\* still transferring into i has to bring.
Completed(i) ==
    storage[i] \cup UNION {updater[v].before : v \in {w \in Updaters :
                             updater[w].inst = i /\ updater[w].pc # "return"}}

\* A new instance is complete and atomic_exchange puts it in the program's place.
Exchange(u) ==
    /\ updater[u].pc = "idle"
    /\ made < MaxInst
    /\ made' = made + 1
    /\ program' = made + 1
    /\ updater' = [updater EXCEPT ![u] =
                     [pc |-> AfterSwap(program, made + 1), inst |-> made + 1,
                      old |-> program, ser |-> {}, before |-> Completed(program),
                      result |-> "ok"]]
    /\ UNCHANGED <<storage, tainted, storage_mtx, inside, fault_handler, task>>

\* on_live_update is called in the old storage machine; no mutex is taken.
SerializeEnter(u) ==
    /\ updater[u].pc = "serialize"
    /\ inside' = [inside EXCEPT ![updater[u].old] = @ \cup {u}]
    /\ tainted' = tainted \cup Raced(updater[u].old)
    /\ Goto(u, "serializing")
    /\ UNCHANGED <<made, program, storage, storage_mtx, fault_handler, task>>

\* Script::call swallows a guest fault: the two result registers then hold
\* anything.  The data stays where it is in the old machine.
SerializeReturn(u) ==
    /\ updater[u].pc = "serializing"
    /\ \E data \in {storage[updater[u].old], {Garbage}} :
         updater' = [updater EXCEPT ![u] = [@ EXCEPT !.pc = "copy", !.ser = data]]
    /\ UNCHANGED <<made, program, storage, tainted, storage_mtx, inside, fault_handler, task>>

\* What memcpy finds where the serialized state was left.
Copied(u) == IF updater[u].old \in tainted THEN {Garbage} ELSE updater[u].ser

\* guest_alloc in the new storage machine, which forks of the new program may
\* already be calling, and memcpy out of the old one.
CopyState(u) ==
    /\ updater[u].pc = "copy"
    /\ updater' = [updater EXCEPT ![u] =
                     [@ EXCEPT !.pc = "resuming", !.ser = Copied(u)]]
    /\ inside' = [inside EXCEPT ![updater[u].old] = @ \ {u},
                                ![updater[u].inst] = @ \cup {u}]
    /\ tainted' = tainted \cup Raced(updater[u].inst)
    /\ UNCHANGED <<made, program, storage, storage_mtx, fault_handler, task>>

\* The copy throws.  The memory limit of a storage machine is enforced by the
\* page fault handler that a remote_call leaves in it, so it is only then that
\* the exception can be OUT_OF_MEMORY.
CopyThrows(u) ==
    /\ updater[u].pc = "copy"
    /\ \/ Answer(u, "machine_exception")
       \/ fault_handler[updater[u].inst] # NoTask /\ Answer(u, "not_applied")
    /\ inside' = [inside EXCEPT ![updater[u].old] = @ \ {u}]
    /\ tainted' = tainted \cup Raced(updater[u].inst)
    /\ UNCHANGED <<made, program, storage, storage_mtx, fault_handler, task>>

Restored(u) == updater[u].ser
Intact(u) == Garbage \notin updater[u].ser

\* on_resume_update replaces the state of the new program by the one it is given.
ResumeReturn(u) ==
    /\ updater[u].pc = "resuming"
    /\ Intact(u)
    /\ storage' = [storage EXCEPT ![updater[u].inst] = Restored(u)]
    /\ inside' = [inside EXCEPT ![updater[u].inst] = @ \ {u}]
    /\ Goto(u, "return")
    /\ UNCHANGED <<made, program, tainted, storage_mtx, fault_handler, task>>

\* It faults, or was given garbage; the exception is swallowed.
ResumeFaults(u) ==
    /\ updater[u].pc = "resuming"
    /\ tainted' = tainted \cup {updater[u].inst}
    /\ inside' = [inside EXCEPT ![updater[u].inst] = @ \ {u}]
    /\ Goto(u, "return")
    /\ UNCHANGED <<made, program, storage, storage_mtx, fault_handler, task>>

Return(u) ==
    /\ updater[u].pc = "return"
    /\ updater' = [updater EXCEPT ![u] = IdleUpdater]
    /\ UNCHANGED <<made, program, storage, tainted, storage_mtx, inside, fault_handler, task>>

-----------------------------------------------------------------------------
(* Forks and their remote calls.                                           *)

Fork(t) ==
    /\ task[t].pc = "idle"
    /\ task' = [task EXCEPT ![t] = [pc |-> "open", m_inst |-> program]]
    /\ UNCHANGED <<made, program, storage, tainted, storage_mtx, inside, fault_handler, updater>>

Lockable(t) == storage_mtx[task[t].m_inst] = NoTask

\* scoped_lock of storage_mtx, then the storage machine runs for the task.
EnterStorage(t, pc) ==
    /\ task[t].pc = "open"
    /\ Lockable(t)
    /\ storage_mtx' = [storage_mtx EXCEPT ![task[t].m_inst] = t]
    /\ inside' = [inside EXCEPT ![task[t].m_inst] = @ \cup {t}]
    /\ tainted' = tainted \cup Raced(task[t].m_inst)
    /\ task' = [task EXCEPT ![t].pc = pc]
    /\ UNCHANGED <<made, program, storage, updater>>

\* remote_call shares the caller's pages with the storage machine.
SharedPages(t) == [fault_handler EXCEPT ![task[t].m_inst] = t]

RemoteCall(t) ==
    /\ EnterStorage(t, "remote")
    /\ fault_handler' = SharedPages(t)

\* remote_strcall copies its argument and leaves the handlers alone.
RemoteStrcall(t) ==
    /\ EnterStorage(t, "strcall")
    /\ UNCHANGED fault_handler

\* remote_call from the storage machine itself: nothing refuses it, and it
\* locks the mutex that its own call holds.
NestedCall(t) ==
    /\ task[t].pc \in {"remote", "strcall"}
    /\ task' = [task EXCEPT ![t].pc = "blocked"]
    /\ UNCHANGED <<made, program, storage, tainted, storage_mtx, inside, fault_handler, updater>>

\* The lock goes with its scope, by return as by exception.
Unlocked(t) == {[storage_mtx EXCEPT ![task[t].m_inst] = NoTask]}

LeaveStorage(t) ==
    /\ task[t].pc \in {"remote", "strcall"}
    /\ inside' = [inside EXCEPT ![task[t].m_inst] = @ \ {t}]
    /\ task' = [task EXCEPT ![t].pc = "open"]
    /\ UNCHANGED <<made, program, fault_handler, updater>>

\* The remote function has done its write.
RemoteReturn(t) ==
    /\ LeaveStorage(t)
    /\ storage' = [storage EXCEPT ![task[t].m_inst] = @ \cup {t}]
    /\ storage_mtx' = [storage_mtx EXCEPT ![task[t].m_inst] = NoTask]
    /\ UNCHANGED tainted

\* An exception before or after the remote function has run (no memory for its
\* argument or its result, a null result), or a guest function that faulted.
RemoteFails(t) ==
    /\ LeaveStorage(t)
    /\ tainted' \in {tainted, tainted \cup {task[t].m_inst}}
    /\ storage' \in {storage, [storage EXCEPT ![task[t].m_inst] = @ \cup {t}]}
    /\ storage_mtx' \in Unlocked(t)

\* The handlers of a fork that is gone.
Handlers(t) == [i \in Inst |-> IF fault_handler[i] = t THEN Stale ELSE fault_handler[i]]

\* ~Script.
End(t) ==
    /\ task[t].pc = "open"
    /\ task' = [task EXCEPT ![t] = IdleTask]
    /\ fault_handler' = Handlers(t)
    /\ UNCHANGED <<made, program, storage, tainted, storage_mtx, inside, updater>>

-----------------------------------------------------------------------------
UpdateStep(u) ==
    \/ SerializeEnter(u) \/ SerializeReturn(u) \/ CopyState(u) \/ CopyThrows(u)
    \/ ResumeReturn(u) \/ ResumeFaults(u) \/ Return(u)

TaskStep(t) ==
    \/ Fork(t) \/ RemoteCall(t) \/ RemoteStrcall(t) \/ NestedCall(t)
    \/ RemoteReturn(t) \/ RemoteFails(t) \/ End(t)

Next ==
    \/ \E u \in Updaters : Exchange(u) \/ UpdateStep(u)
    \/ \E t \in Tasks : TaskStep(t)

Spec == Init /\ [][Next]_vars

(* Guest code runs under an instruction limit: a call that has entered a   *)
(* storage machine comes out of it, unless it makes a nested call.         *)
Fairness ==
    /\ \A u \in Updaters : WF_vars(UpdateStep(u))
    /\ \A t \in Tasks : WF_vars(RemoteReturn(t) \/ RemoteFails(t))

FairSpec == Spec /\ Fairness

-----------------------------------------------------------------------------
(* Properties.                                                             *)

MaybeInst == Inst \cup {NoInst}
UpdatePCs == {"idle", "serialize", "serializing", "copy", "resuming", "return"}
UpdaterType ==
    [pc : UpdatePCs, inst : MaybeInst, old : MaybeInst,
     ser : SUBSET (Tasks \cup {Garbage}), before : SUBSET Tasks,
     result : {"none", "ok", "machine_exception", "not_applied"}]
InRemote == {"remote", "strcall", "blocked"}
TaskType == [pc : {"idle", "open"} \cup InRemote, m_inst : MaybeInst]

\* The type invariant.
TypeOK ==
    /\ made \in Inst /\ program \in Inst
    /\ storage \in [Inst -> SUBSET Tasks]
    /\ tainted \subseteq Inst
    /\ storage_mtx \in [Inst -> Tasks \cup {NoTask}]
    /\ inside \in [Inst -> SUBSET (Updaters \cup Tasks)]
    /\ fault_handler \in [Inst -> Tasks \cup {NoTask, Stale}]
    /\ updater \in [Updaters -> UpdaterType]
    /\ task \in [Tasks -> TaskType]

\* `Serialized access to storage' (script_functions.cpp:211, 276), between
\* forks: a task executes in a storage machine only as the holder of its mutex,
\* so never two at once, through every exception.
RemoteCallsExclusive ==
    \A i \in Inst : inside[i] \cap Tasks = {storage_mtx[i]} \ {NoTask}

\* `Serialized access to storage', between all threads, the updaters included.
SerializedAccess ==
    \A i \in Inst : Cardinality(inside[i]) <= 1

\* `Transfer serialized state if both machines support it'
\* (live_update.cpp:164): the writes that were complete when the program was
\* exchanged are in the new storage when the update answers success, unless a
\* fault or a race has spoilt one of the two machines.
TransferCarriesState ==
    \A u \in Updaters :
        (/\ updater[u].pc = "return" /\ updater[u].result = "ok"
         /\ AfterSwap(updater[u].old, updater[u].inst) = "serialize"
         /\ {updater[u].old, updater[u].inst} \cap tainted = {})
            => updater[u].before \subseteq storage[updater[u].inst]

\* While a remote_call runs, the page fault handler of the storage machine is
\* the one of its own caller, whose heap it shares: neither that of a fork
\* which is gone nor that of another one (script_functions.cpp:224).
HandlerIsCallers ==
    \A t \in Tasks : task[t].pc = "remote" => fault_handler[task[t].m_inst] = t

\* `VMs are created and destroyed per-request for zero state leakage'
\* (README.md:10): no storage machine runs with the page fault handler of a
\* fork that is gone.  It does: a remote_strcall or a transfer after a
\* remote_call whose fork has ended.
HandlerOfLiveFork ==
    \A i \in Inst : inside[i] # {} => fault_handler[i] # Stale

\* storage_mtx is released again after every remote call, whatever throws in
\* it; the one exception is a guest that makes a nested call.
LockReleased ==
    \A i \in Inst :
        storage_mtx[i] # NoTask ~>
            storage_mtx[i] = NoTask \/ task[storage_mtx[i]].pc = "blocked"

-----------------------------------------------------------------------------
(* The inductive invariants behind RemoteCallsExclusive and, for updates   *)
(* that do not overlap, TransferCarriesState.                              *)

\* Open forks and running updates have their instances, and an update has two.
LocalsInv ==
    /\ program <= made
    /\ \A u \in Updaters :
         updater[u].pc # "idle" =>
            /\ updater[u].inst \in 1 .. made /\ updater[u].old \in 1 .. made
            /\ updater[u].inst # updater[u].old
    /\ \A t \in Tasks : task[t].pc # "idle" => task[t].m_inst \in Inst

\* The holder of storage_mtx is the task that is in its remote call.
MutexInv ==
    /\ \A t \in Tasks : task[t].pc \in InRemote => storage_mtx[task[t].m_inst] = t
    /\ \A i \in Inst : storage_mtx[i] # NoTask =>
          task[storage_mtx[i]].pc \in InRemote /\ task[storage_mtx[i]].m_inst = i

\* Where the state to be transferred is, by program counter.
TransferInv ==
    \A u \in Updaters :
        /\ updater[u].pc = "idle" => updater[u].inst = NoInst
        /\ updater[u].pc \in {"serialize", "serializing"} =>
             updater[u].before \subseteq storage[updater[u].old]
        /\ updater[u].pc \in {"copy", "resuming"} =>
             Garbage \in updater[u].ser \/ updater[u].before \subseteq updater[u].ser
=============================================================================
