----------------------------- MODULE LiveUpdate -----------------------------
(***************************************************************************)
(* One tenant's program: how it is loaded, forked by requests, replaced    *)
(* while requests run, stored on disk and brought back after a crash.      *)
(*                                                                         *)
(* Updaters are the worker threads inside riscv_update (the live_update    *)
(* and live_debug backends) or riscv_update_file; Tasks are the request    *)
(* and fetch tasks, each of which owns at most one forked Script.  A       *)
(* machine instance is a number, given out when its construction begins.   *)
(* shared_ptr<MachineInstance> is modelled by the places that hold one     *)
(* (program, debug_program, an updater's inst and old, a task's prog and   *)
(* m_inst_ref): the step that gives up the last holder destroys the        *)
(* instance.  m_inst is a plain C++ reference and keeps nothing alive.     *)
(* What the storage machines hold, and how it moves from the old to the    *)
(* new one, is in module StateTransfer.                                    *)
(***************************************************************************)
EXTENDS Naturals, Sequences

CONSTANTS
    Updaters,       \* threads that run a live update
    Tasks,          \* request and fetch tasks
    Binaries,       \* the programs that are uploaded or found on disk
    Ops,            \* the operations in use: "update", "debug", "file"
    AppendArgs,     \* values of append_argument
    MainArgs,       \* values given to add_main_argument
    Filename,       \* the form of config.filename
    Reload,         \* whether other VCLs are loaded while an update is under way
    MaxInst,        \* bound: instances whose construction begins
    MaxArgs,        \* bound: length of argv that add_main_argument may reach
    NoInst,         \* the null shared_ptr
    NoArg,          \* append_argument is not given
    Source,         \* file contents: C++ that builds
    Empty,          \* file contents after fopen(..., "wb")
    Torn            \* file contents that are no program

ASSUME ConstantsAssumption ==
    /\ MaxInst \in Nat /\ MaxArgs \in Nat
    /\ NoInst \notin Nat
    /\ Binaries # {}
    /\ {Source, Empty, Torn} \cap Binaries = {} /\ Source # Empty /\ Empty # Torn
    /\ Filename \in {"plain", "source", "other"}
    /\ NoArg \notin AppendArgs
    /\ Ops \subseteq {"update", "debug", "file"}
    /\ Reload \in BOOLEAN

Inst == 1 .. MaxInst
Modes == {"storage", "request"}       \* RISCV_MODE of the two machines

VARIABLES
    up,             \* the process runs
    program,        \* SandboxTenant::program
    debug_program,  \* SandboxTenant::debug_program
    installed,      \* history: the instances that were ever in one of the two
    made,           \* number of instances whose construction has begun
    binary,         \* binary[i]: MachineInstance::binary
    main_args,      \* main_args[i][m]: arguments main() of machine m was given
    ready,          \* the instances whose constructor has returned
    destroyed,      \* the instances that no longer exist
    argv,           \* TenantGroup::argv
    config_argv,    \* history: the arguments asked for by configuration
    file,           \* contents of the file config.filename
    loader,         \* finalize_tenants in another VCL
    updater,        \* updater[u]: program counter and locals of a live update
    task            \* task[t]: program counter, local and Script of a request

slotVars   == <<program, debug_program, installed>>
instVars   == <<made, binary, main_args, ready>>
configVars == <<up, argv, config_argv>>
vars == <<slotVars, instVars, destroyed, configVars, file, loader, updater, task>>

IdleLoader == [pc |-> "idle", inst |-> NoInst]
IdleUpdater ==
    [pc |-> "idle", op |-> "update", new |-> NoInst, arg |-> NoArg, inst |-> NoInst,
     old |-> NoInst, old_argv |-> <<>>, result |-> "none"]
IdleTask == [pc |-> "idle", prog |-> NoInst, m_inst |-> NoInst, m_inst_ref |-> NoInst]

Init ==
    /\ up = FALSE
    /\ program = NoInst /\ debug_program = NoInst /\ installed = {}
    /\ made = 0
    /\ binary = [i \in Inst |-> CHOOSE b \in Binaries : TRUE]
    /\ main_args = [i \in Inst |-> [m \in Modes |-> <<>>]]
    /\ ready = {} /\ destroyed = {}
    /\ argv = <<>> /\ config_argv = <<>>
    /\ file \in Binaries \cup {Source, Torn, Empty}
    /\ loader = IdleLoader
    /\ updater = [u \in Updaters |-> IdleUpdater]
    /\ task = [t \in Tasks |-> IdleTask]

(* The shared_ptr holders of an instance.  Destroy is the last conjunct of *)
(* a step that assigns to a holder: an instance that loses its last holder *)
(* is gone.                                                                *)
Held(i) ==
    \/ i = program \/ i = debug_program
    \/ \E u \in Updaters : i = updater[u].inst \/ i = updater[u].old
    \/ \E t \in Tasks : i = task[t].prog \/ i = task[t].m_inst_ref

Destroy == destroyed' = destroyed \cup {i \in Inst : Held(i) /\ ~Held(i)'}

-----------------------------------------------------------------------------
(* The process: SandboxTenant::load at vcl_init, and a crash.              *)

\* The binaries that load may get.  A plain name is read as it stands.  A name in
\* .cpp is read as source and built, which fails once an update has stored an ELF
\* there.  One with dollar variables or rust: names a file or a project that no
\* update writes: riscv_update stores under config.filename itself.
Loadable ==
    {b \in Binaries : /\ Filename = "plain" => file = b
                      /\ Filename = "source" => file = Source}

\* An instance is constructed from the file and becomes the program; when the
\* file cannot be read or its main does not end in wait_for_requests, the
\* tenant has no program.  No request runs before vcl_init has returned.
Boot ==
    /\ ~up
    /\ up' = TRUE
    /\ \E base \in {<<>>} \cup {<<a>> : a \in AppendArgs \cup MainArgs} :
         /\ argv' = base
         /\ config_argv' = base
         /\ \/ /\ made < MaxInst
               /\ made' = made + 1
               /\ \E b \in Loadable : binary' = [binary EXCEPT ![made + 1] = b]
               /\ main_args' = [main_args EXCEPT ![made + 1] = [m \in Modes |-> base]]
               /\ ready' = ready \cup {made + 1}
               /\ program' = made + 1
               /\ installed' = installed \cup {made + 1}
            \/ UNCHANGED <<instVars, program, installed>>
    /\ UNCHANGED <<debug_program, destroyed, file, loader, updater, task>>

\* Everything in memory is lost; the file stays as it is at that moment.
Crash ==
    /\ up
    /\ up' = FALSE
    /\ program' = NoInst /\ debug_program' = NoInst
    /\ destroyed' = 1 .. made
    /\ argv' = <<>> /\ config_argv' = <<>>
    /\ loader' = IdleLoader
    /\ updater' = [u \in Updaters |-> IdleUpdater]
    /\ task' = [t \in Tasks |-> IdleTask]
    /\ UNCHANGED <<installed, instVars, file>>

\* add_main_argument in the vcl_init of another VCL, while this one serves.
AppendMainArgument(a) ==
    /\ up
    /\ Reload \/ \A u \in Updaters : updater[u].pc \in {"idle", "return"}
    /\ Len(argv) < MaxArgs /\ Len(config_argv) < MaxArgs
    /\ argv' = Append(argv, a)
    /\ config_argv' = Append(config_argv, a)
    /\ UNCHANGED <<slotVars, instVars, destroyed, up, file, loader, updater, task>>

-----------------------------------------------------------------------------
(* finalize_tenants in the vcl_init of another VCL: a tenant without a     *)
(* program is loaded again, while requests and updates run.                *)

\* no_program_loaded() is true, and load() is called.
FinalizeCheck ==
    /\ Reload /\ up /\ loader.pc = "idle"
    /\ program = NoInst
    /\ loader' = [loader EXCEPT !.pc = "load"]
    /\ UNCHANGED <<slotVars, instVars, destroyed, configVars, file, updater, task>>

\* file_loader, or a build; the constructor starts on what was read, storage machine first.
LoadBegin ==
    /\ loader.pc = "load"
    /\ made < MaxInst
    /\ made' = made + 1
    /\ \E b \in Loadable : binary' = [binary EXCEPT ![made + 1] = b]
    /\ main_args' = [main_args EXCEPT ![made + 1]["storage"] = argv]
    /\ loader' = [pc |-> "construct", inst |-> made + 1]
    /\ UNCHANGED <<slotVars, ready, destroyed, configVars, file, updater, task>>

\* The instance is complete and is assigned to the program.
LoadDone ==
    /\ loader.pc = "construct"
    /\ main_args' = [main_args EXCEPT ![loader.inst]["request"] = argv]
    /\ ready' = ready \cup {loader.inst}
    /\ program' = loader.inst
    /\ installed' = installed \cup {loader.inst}
    /\ loader' = IdleLoader
    /\ UNCHANGED <<debug_program, made, binary, configVars, file, updater, task>>
    /\ Destroy

\* The file cannot be read or the constructor throws: the program is set to null.
LoadFails ==
    /\ loader.pc \in {"load", "construct"}
    /\ program' = NoInst
    /\ loader' = IdleLoader
    /\ UNCHANGED <<debug_program, installed, instVars, configVars, file, updater, task>>
    /\ Destroy

-----------------------------------------------------------------------------
(* Live update: riscv_update and riscv_update_file.                        *)

Goto(u, pc) == updater' = [updater EXCEPT ![u].pc = pc]
Answer(u, r) == updater' = [updater EXCEPT ![u] = [@ EXCEPT !.pc = "return", !.result = r]]

(* Faulty variants of the definition that the name begins with, one for    *)
(* each way in which the code could be wrong.  Nothing below uses them.    *)
StorageReady_skipsScript(u) ==
    /\ updater' = [updater EXCEPT ![u].pc = "exchange", ![u].inst = updater[u].new]
    /\ UNCHANGED <<slotVars, ready>>
ConstructorThrows_noCatch(u) == Answer(u, "failed") /\ UNCHANGED <<slotVars, ready>>
ConstructorThrows_unloads(u) ==
    Answer(u, "failed") /\ program' = NoInst /\ UNCHANGED <<debug_program, installed, ready>>
TransferThrows_rollsBack(u) ==
    /\ updater[u].old # NoInst
    /\ Answer(u, "failed") /\ program' = updater[u].old
    /\ UNCHANGED <<debug_program, installed>>
OpenFails_unnoticed(u) == file' = file /\ Answer(u, "ok")
LeaveScope_leaksOld(u) == updater' = [updater EXCEPT ![u].pc = "idle", ![u].inst = NoInst]
SelfReference_missing(t) == NoInst
ForkedFrom_readsAgain(t) == program

\* The upload is empty or larger than max_size, or there is no workspace for
\* the response; for riscv_update_file, the file cannot be read.
UpdateRefused(u) ==
    /\ up /\ updater[u].pc = "idle"
    /\ Answer(u, "refused")
    /\ UNCHANGED <<slotVars, instVars, destroyed, configVars, file, loader, task>>

FirstStep(arg) == IF arg # NoArg THEN "append" ELSE "init_storage"

\* Construction of an instance of binary b begins: the ELF is loaded.
\* riscv_update_file first takes the argv that it will put back.
UpdateBegin(u, op, b, arg) ==
    /\ up /\ updater[u].pc = "idle"
    /\ made < MaxInst
    /\ made' = made + 1
    /\ binary' = [binary EXCEPT ![made + 1] = b]
    /\ updater' = [updater EXCEPT ![u] =
                     [@ EXCEPT !.pc = FirstStep(arg), !.op = op, !.arg = arg,
                               !.new = made + 1, !.old_argv = argv]]
    /\ UNCHANGED <<slotVars, main_args, ready, destroyed, configVars, file, loader, task>>

\* A copy of the old argv with the extra argument.
Extended(u) == Append(updater[u].old_argv, updater[u].arg)

\* atomic_store of that copy.
AppendArgument(u) ==
    /\ updater[u].pc = "append"
    /\ argv' = Extended(u)
    /\ Goto(u, "init_storage")
    /\ UNCHANGED <<slotVars, instVars, destroyed, up, config_argv, file, loader, task>>

\* The constructor throws: riscv_update answers at once, riscv_update_file
\* puts the argv back first.
ConstructorThrows(u) ==
    /\ IF updater[u].op = "file" THEN Goto(u, "unwind") ELSE Answer(u, "failed")
    /\ UNCHANGED <<slotVars, ready>>

StorageReady(u) == Goto(u, "init_script") /\ UNCHANGED <<slotVars, ready>>

\* machine_initialize of the storage machine: main() gets a snapshot of argv.
InitStorage(u) ==
    /\ updater[u].pc = "init_storage"
    /\ main_args' = [main_args EXCEPT ![updater[u].new]["storage"] = argv]
    /\ StorageReady(u) \/ ConstructorThrows(u)
    /\ UNCHANGED <<made, binary, configVars, file, loader, task>>
    /\ Destroy

\* The same for the machine that requests fork; with it the instance is complete.
ScriptReady(u) ==
    /\ ready' = ready \cup {updater[u].new}
    /\ updater' = [updater EXCEPT ![u] =
                     [@ EXCEPT !.inst = updater[u].new,
                               !.pc = IF updater[u].op = "file" THEN "restore"
                                      ELSE "exchange"]]
    /\ UNCHANGED slotVars

InitScript(u) ==
    /\ updater[u].pc = "init_script"
    /\ main_args' = [main_args EXCEPT ![updater[u].new]["request"] = argv]
    /\ ScriptReady(u) \/ ConstructorThrows(u)
    /\ UNCHANGED <<made, binary, configVars, file, loader, task>>
    /\ Destroy

\* The argv taken at the start is put back, after success and after failure.
RestoreArgv(u) ==
    /\ updater[u].pc \in {"restore", "unwind"}
    /\ argv' = updater[u].old_argv
    /\ IF updater[u].pc = "restore" THEN Goto(u, "exchange") ELSE Answer(u, "failed")
    /\ UNCHANGED <<slotVars, instVars, destroyed, up, config_argv, file, loader, task>>

\* atomic_exchange of the program with the new instance.
ExchangeProgram(u) ==
    /\ updater[u].op # "debug"
    /\ updater' = [updater EXCEPT ![u] = [@ EXCEPT !.pc = "transfer", !.old = program]]
    /\ program' = updater[u].inst
    /\ UNCHANGED debug_program

\* The same of the debug program.
ExchangeDebug(u) ==
    /\ updater[u].op = "debug"
    /\ updater' = [updater EXCEPT ![u] = [@ EXCEPT !.pc = "transfer", !.old = debug_program]]
    /\ debug_program' = updater[u].inst
    /\ UNCHANGED program

Exchange(u) ==
    /\ updater[u].pc = "exchange"
    /\ ExchangeProgram(u) \/ ExchangeDebug(u)
    /\ installed' = installed \cup {updater[u].inst}
    /\ UNCHANGED <<instVars, configVars, file, loader, task>>
    /\ Destroy

\* Only possible where there is a state to transfer; the swap stays.
TransferThrows(u) ==
    /\ updater[u].old # NoInst
    /\ Answer(u, "failed")
    /\ UNCHANGED slotVars

\* Only riscv_update proper goes on to store the program.
TransferDone(u) ==
    /\ IF updater[u].op = "update" THEN Goto(u, "open_file") ELSE Answer(u, "ok")
    /\ UNCHANGED slotVars

\* The state transfer (StateTransfer) is over, was not needed, or has thrown.
Transfer(u) ==
    /\ updater[u].pc = "transfer"
    /\ TransferThrows(u) \/ TransferDone(u)
    /\ UNCHANGED <<instVars, configVars, file, loader, task>>
    /\ Destroy

OpenFails(u) == file' = file /\ Answer(u, "not_written")

\* file_writer: fopen truncates the file.
OpenFile(u) ==
    /\ updater[u].pc = "open_file"
    /\ \/ file' = Empty /\ Goto(u, "write_file")
       \/ OpenFails(u)
    /\ UNCHANGED <<slotVars, instVars, destroyed, configVars, loader, task>>

\* fwrite from offset 0, and fclose.  A short count is noticed.  What fclose
\* cannot flush is not, and neither is what another writer has written since the
\* truncation: the rest of a longer program may stay behind a shorter one.
WriteFile(u) ==
    /\ updater[u].pc = "write_file"
    /\ \/ file' = binary[updater[u].inst] /\ Answer(u, "ok")
       \/ file' = Torn /\ (Answer(u, "ok") \/ Answer(u, "not_written"))
    /\ UNCHANGED <<slotVars, instVars, destroyed, configVars, loader, task>>

LeaveScope(u) == updater' = [updater EXCEPT ![u] = IdleUpdater]

\* The locals go out of scope; the two shared_ptrs among them are given up.
Return(u) ==
    /\ updater[u].pc = "return"
    /\ LeaveScope(u)
    /\ UNCHANGED <<slotVars, instVars, configVars, file, loader, task>>
    /\ Destroy

-----------------------------------------------------------------------------
(* Requests: SandboxTenant::vmfork, and the end of the task.               *)

\* atomic_load of the program or of the debug program.
VmforkLoad(t, from) ==
    /\ up /\ task[t].pc = "idle"
    /\ from # NoInst
    /\ task' = [task EXCEPT ![t] = [@ EXCEPT !.pc = "fork", !.prog = from]]
    /\ UNCHANGED <<slotVars, instVars, destroyed, configVars, file, loader, updater>>

ForkedFrom(t) == task[t].prog

\* assign_instance: m_inst_ref takes over the local shared_ptr.
SelfReference(t) == ForkedFrom(t)

\* The Script is constructed from prog->script and gets its self-reference.
VmforkConstruct(t) ==
    /\ task[t].pc = "fork"
    /\ task' = [task EXCEPT ![t] = [pc |-> "open", prog |-> NoInst,
                  m_inst |-> ForkedFrom(t), m_inst_ref |-> SelfReference(t)]]
    /\ UNCHANGED <<slotVars, instVars, configVars, file, loader, updater>>
    /\ Destroy

\* No workspace for the Script, or its constructor throws.
VmforkFails(t) ==
    /\ task[t].pc = "fork"
    /\ task' = [task EXCEPT ![t] = IdleTask]
    /\ UNCHANGED <<slotVars, instVars, configVars, file, loader, updater>>
    /\ Destroy

\* The task ends and ~Script runs: members go in the reverse order of their
\* declaration, so m_inst_ref (declared last) before the machine (first).
ReleaseInst(t) ==
    /\ task[t].pc = "open"
    /\ task' = [task EXCEPT ![t] = [@ EXCEPT !.pc = "closing", !.m_inst_ref = NoInst]]
    /\ UNCHANGED <<slotVars, instVars, configVars, file, loader, updater>>
    /\ Destroy

ReleaseMachine(t) ==
    /\ task[t].pc = "closing"
    /\ task' = [task EXCEPT ![t] = IdleTask]
    /\ UNCHANGED <<slotVars, instVars, destroyed, configVars, file, loader, updater>>

-----------------------------------------------------------------------------
UpdateStart(u) ==
    \/ UpdateRefused(u)
    \/ \E op \in Ops, b \in Binaries :
          \E arg \in {NoArg} \cup (IF op = "file" THEN AppendArgs ELSE {}) :
            UpdateBegin(u, op, b, arg)

UpdateStep(u) ==
    \/ AppendArgument(u) \/ InitStorage(u) \/ InitScript(u) \/ RestoreArgv(u)
    \/ Exchange(u) \/ Transfer(u) \/ OpenFile(u) \/ WriteFile(u) \/ Return(u)

TaskStep(t) ==
    \/ VmforkLoad(t, program) \/ VmforkLoad(t, debug_program)
    \/ VmforkConstruct(t) \/ VmforkFails(t)
    \/ ReleaseInst(t) \/ ReleaseMachine(t)

Next ==
    \/ Boot
    \/ Crash
    \/ \E a \in MainArgs : AppendMainArgument(a)
    \/ FinalizeCheck \/ LoadBegin \/ LoadDone \/ LoadFails
    \/ \E u \in Updaters : UpdateStart(u) \/ UpdateStep(u)
    \/ \E t \in Tasks : TaskStep(t)

Spec == Init /\ [][Next]_vars

(* Every step of an update is finite computation: guest code runs under an *)
(* instruction limit, and nothing on the way waits for another thread.     *)
(* Tasks end for the same reason.  Nothing makes an update or a request    *)
(* begin, and nothing makes the process crash or restart.                  *)
Fairness ==
    /\ \A u \in Updaters : WF_vars(UpdateStep(u))
    /\ \A t \in Tasks :
         /\ WF_vars(VmforkConstruct(t) \/ VmforkFails(t))
         /\ WF_vars(ReleaseInst(t))
         /\ WF_vars(ReleaseMachine(t))

FairSpec == Spec /\ Fairness

-----------------------------------------------------------------------------
(* Properties.                                                             *)

UpdatePCs == {"idle", "append", "init_storage", "init_script", "unwind", "restore",
              "exchange", "transfer", "open_file", "write_file", "return"}
Results == {"none", "refused", "failed", "not_written", "ok"}
ArgSeqs == Seq(AppendArgs \cup MainArgs)
MaybeInst == Inst \cup {NoInst}
LoaderType == [pc : {"idle", "load", "construct"}, inst : MaybeInst]
UpdaterType ==
    [pc : UpdatePCs, op : {"update", "debug", "file"}, new : MaybeInst,
     arg : AppendArgs \cup {NoArg}, inst : MaybeInst, old : MaybeInst,
     old_argv : ArgSeqs, result : Results]
TaskType ==
    [pc : {"idle", "fork", "open", "closing"}, prog : MaybeInst, m_inst : MaybeInst,
     m_inst_ref : MaybeInst]

\* The type invariant.
TypeOK ==
    /\ up \in BOOLEAN
    /\ program \in MaybeInst /\ debug_program \in MaybeInst
    /\ installed \subseteq Inst
    /\ made \in 0 .. MaxInst
    /\ binary \in [Inst -> Binaries]
    /\ main_args \in [Inst -> [Modes -> ArgSeqs]]
    /\ ready \subseteq Inst /\ destroyed \subseteq Inst
    /\ argv \in ArgSeqs /\ config_argv \in ArgSeqs
    /\ file \in Binaries \cup {Source, Torn, Empty}
    /\ loader \in LoaderType
    /\ updater \in [Updaters -> UpdaterType]
    /\ task \in [Tasks -> TaskType]

\* `This creates a self-reference, which ensures that open Script instances will
\* keep the machine instance alive' (sandbox_tenant.cpp:153): whatever is
\* swapped, dropped or reloaded, the instance that an open fork reads its pages
\* and callbacks from is complete and still exists.
ForkInstanceAlive ==
    \A t \in Tasks : task[t].pc = "open" => task[t].m_inst \in ready \ destroyed

\* A shared_ptr that somebody can still read, the two program slots included,
\* never leads to an instance whose constructor has not returned (make_shared
\* comes before atomic_exchange) or that was destroyed.
HeldIsUsable ==
    \A i \in Inst : Held(i) => i \in ready \ destroyed

\* A replaced program does not come back, and no instance is installed twice:
\* what a slot receives in a step is new to both slots.
NoInstanceTwice ==
    [][\A i \in installed : /\ program' = i => program = i
                            /\ debug_program' = i => debug_program = i]_vars

\* `If the machine fails to load, the old machine will be kept running'
\* (vmod_riscv.vcc): while the process is up, a tenant that has a program has
\* one from then on.  (Only load() in another VCL may assign null over a program
\* that was installed after it found none.)
ProgramKept ==
    [][up /\ up' /\ program # NoInst /\ loader.pc = "idle" => program' # NoInst]_vars

\* The arguments that an update is to start both of its machines with.
MainArgv(u) ==
    IF updater[u].arg = NoArg THEN config_argv ELSE Append(config_argv, updater[u].arg)

\* The string given as append_argument `is appended to the main() arguments of
\* the program' (vmod_riscv.vcc) of this update and no other: both machines of
\* the new instance were started with the configured arguments and, last, their
\* own one, and `Restore the original argv now that the machine is fully
\* constructed' (live_update.cpp:158), when no update is under way the
\* arguments are the configured ones.
ArgvRestored ==
    /\ up /\ (\A u \in Updaters : updater[u].pc \in {"idle", "return"})
         => argv = config_argv
    /\ \A u \in Updaters : updater[u].pc = "exchange" =>
           \A m \in Modes : main_args[updater[u].inst][m] = MainArgv(u)

\* `the initialization was successful, and we can proceed to store the program
\* to disk' (live_update.cpp:104): what is stored is empty, torn, or a program
\* whose two machines were initialised; of a plain filename, a crash brings back
\* no other.
StoredWasInitialised ==
    [][file' # file => \/ file' \in {Empty, Torn}
                       \/ \E i \in ready : binary[i] = file']_vars

\* When every updater has answered `Update successful' (live_update.cpp:116), the
\* file holds the program that is running, or is torn as fclose has failed: it
\* never holds a program that was replaced.
StoredProgramIsRunning ==
    (\A u \in Updaters : updater[u].op = "update" /\ updater[u].result = "ok")
        => program # NoInst /\ file \in {binary[program], Torn}

\* `Delete this last' (script.hpp:142): as long as any part of a fork's machine
\* exists, so does the instance it was forked from.  It does not: m_inst_ref is
\* declared last, so it is the first that ~Script destroys.
DeleteThisLast ==
    \A t \in Tasks : task[t].pc \in {"open", "closing"} => task[t].m_inst \notin destroyed

\* A replaced program is freed in the end: when its last fork is gone, no
\* reference to it is left behind.
ReplacedIsFreed ==
    \A i \in Inst :
        i \in installed /\ i \notin {program, debug_program} ~> i \in destroyed

\* Forks and swaps behave as the hot-swappable slot of module HotSwap.
HS == INSTANCE HotSwap WITH
        current <- program, debug <- debug_program, used <- installed,
        running <- [t \in Tasks |-> IF task[t].pc = "fork" THEN task[t].prog
                                    ELSE task[t].m_inst]

\* Every request runs the instance that was current when it forked, from its
\* atomic_load to the end of ~Script, and each swap is one step of the slot.
ImplementsHotSwap == HS!Spec

-----------------------------------------------------------------------------
(* The inductive invariant behind ForkInstanceAlive, NoInstanceTwice and   *)
(* ImplementsHotSwap.                                                      *)

Constructing == {"append", "init_storage", "init_script"}
Complete == {"restore", "exchange"}
Installed == {"transfer", "open_file", "write_file"}

\* Instance numbers are given out in order.
NumbersInv == ready \cup destroyed \cup installed \subseteq 1 .. made

\* The locals of an updater and the members of a fork, by program counter.
LocalsInv ==
    /\ \A u \in Updaters :
         /\ updater[u].pc = "append" => updater[u].arg \in AppendArgs
         /\ updater[u].pc \in Complete => updater[u].inst = updater[u].new
         /\ updater[u].pc \in Complete \cup Installed => updater[u].inst \in Inst
    /\ \A t \in Tasks :
         /\ task[t].pc = "idle" => task[t].m_inst = NoInst
         /\ task[t].pc = "fork" => task[t].prog \in Inst
         /\ task[t].pc \in {"open", "closing"} => task[t].m_inst \in Inst
         /\ task[t].pc = "open" => task[t].m_inst_ref = task[t].m_inst

\* An instance that is not installed yet belongs to one thread, and exists in
\* part only until its constructor has returned.
PendingUpdater(u) ==
    /\ updater[u].pc \in Constructing \cup Complete =>
         updater[u].new \in (1 .. made) \ installed
    /\ updater[u].pc \in Constructing => updater[u].new \notin ready \cup destroyed
PendingApart(u, v) ==
    u # v /\ updater[u].pc \in Constructing \cup Complete
          /\ updater[v].pc \in Constructing \cup Complete
       => updater[u].new # updater[v].new
PendingLoader ==
    loader.pc = "construct" =>
      /\ loader.inst \in (1 .. made) \ (installed \cup ready \cup destroyed)
      /\ \A u \in Updaters :
           updater[u].pc \in Constructing \cup Complete => updater[u].new # loader.inst
PendingInv ==
    /\ \A u \in Updaters : PendingUpdater(u)
    /\ \A u, v \in Updaters : PendingApart(u, v)
    /\ PendingLoader

\* What holds of the instances, their holders and their makers at every step of
\* load, vmfork, ~Script and the two update functions, and implies
\* ForkInstanceAlive.
LifetimeInv == NumbersInv /\ LocalsInv /\ PendingInv /\ HeldIsUsable

-----------------------------------------------------------------------------
(* The inductive invariant behind ArgvRestored and StoredProgramIsRunning, *)
(* for one updater and no other VCL.                                       *)

Solo == ~Reload /\ \E u : Updaters = {u}

\* The shared argv, and the arguments of the two machines, along an update.
ArgvInv(u) ==
    /\ updater[u].op # "file" => updater[u].arg = NoArg
    /\ updater[u].pc \in Constructing \cup {"unwind", "restore"} =>
         updater[u].old_argv = config_argv
    /\ updater[u].pc \in {"init_storage", "init_script"} => argv = MainArgv(u)
    /\ updater[u].pc \notin {"init_storage", "init_script", "unwind", "restore"} =>
         argv = config_argv
    /\ updater[u].pc \in Complete \cup {"init_script"} =>
         main_args[updater[u].new]["storage"] = MainArgv(u)
    /\ updater[u].pc \in Complete => main_args[updater[u].new]["request"] = MainArgv(u)

\* The program and the file, from the exchange to the answer.
StoreInv(u) ==
    /\ updater[u].result = "ok" => updater[u].pc = "return"
    /\ updater[u].pc \in {"open_file", "write_file"} => updater[u].op = "update"
    /\ updater[u].op = "update" /\ updater[u].pc \in Installed => program = updater[u].inst
    /\ updater[u].op = "update" /\ updater[u].result = "ok" =>
         program \in 1 .. made /\ file \in {binary[program], Torn}

\* What holds while no other VCL is loaded and before the process runs.
QuietInv == loader.pc = "idle" /\ (~up => \A u \in Updaters : updater[u] = IdleUpdater)

SoloInv == QuietInv /\ \A u \in Updaters : ArgvInv(u) /\ StoreInv(u)
=============================================================================
