-------------------------- MODULE LiveUpdateProofs --------------------------
(***************************************************************************)
(* Proofs about LiveUpdate, for any number of updaters, tasks, programs    *)
(* and instances.                                                          *)
(***************************************************************************)
EXTENDS LiveUpdate, TLAPS

\* A leaf is left to Zenon, unless it names another prover.
USE ZenonT(60)

\* The arguments are sequences, and stay so when one is appended.
LEMMA AppendType ==
    ASSUME NEW s \in ArgSeqs, NEW a \in AppendArgs \cup MainArgs
    PROVE  Append(s, a) \in ArgSeqs
  BY SMTT(60) DEF ArgSeqs

\* The empty argv is a sequence of arguments.
LEMMA EmptyType == <<>> \in ArgSeqs
  BY SMTT(60) DEF ArgSeqs

\* Writing one component of one updater's record keeps it an updater's record.
LEMMA GotoType ==
    ASSUME updater \in [Updaters -> UpdaterType], NEW u \in Updaters, NEW pc \in UpdatePCs,
           Goto(u, pc)
    PROVE  updater' \in [Updaters -> UpdaterType]
  BY SMTT(60) DEF Goto, UpdaterType

\* An updater's record with an answer is an updater's record.
LEMMA AnswerType ==
    ASSUME updater \in [Updaters -> UpdaterType], NEW u \in Updaters, NEW r \in Results,
           Answer(u, r)
    PROVE  updater' \in [Updaters -> UpdaterType]
  <1> DEFINE n == [updater[u] EXCEPT !.pc = "return", !.result = r]
  <1>1. n \in UpdaterType
    <2>1. "return" \in UpdatePCs /\ updater[u] \in UpdaterType
      BY DEF UpdatePCs
    <2> QED
      BY <2>1 DEF UpdaterType
  <1>2. updater' = [updater EXCEPT ![u] = n]
    BY DEF Answer
  <1> HIDE DEF n
  <1> QED
    BY <1>1, <1>2

-----------------------------------------------------------------------------
(* The type invariant.                                                     *)

\* The records of idle threads are well-typed.
LEMMA IdleTypes ==
    /\ IdleLoader \in LoaderType
    /\ IdleUpdater \in UpdaterType
    /\ IdleTask \in TaskType
  BY EmptyType DEF IdleLoader, IdleUpdater, IdleTask, LoaderType, UpdaterType, TaskType,
                   UpdatePCs, Results, MaybeInst

\* The initial state is well-typed.
LEMMA InitType == Init => TypeOK
  <1>1. (CHOOSE b \in Binaries : TRUE) \in Binaries
    BY ConstantsAssumption
  <1> SUFFICES ASSUME Init PROVE TypeOK
    OBVIOUS
  <1>2. binary \in [Inst -> Binaries]
    BY <1>1 DEF Init
  <1>3. main_args \in [Inst -> [Modes -> ArgSeqs]]
    BY EmptyType DEF Init
  <1>4. made \in 0 .. MaxInst
    BY SMTT(60), ConstantsAssumption DEF Init
  <1>5. /\ loader \in LoaderType
        /\ updater \in [Updaters -> UpdaterType]
        /\ task \in [Tasks -> TaskType]
    BY IdleTypes DEF Init
  <1>6. argv \in ArgSeqs /\ config_argv \in ArgSeqs
    BY EmptyType DEF Init
  <1> QED
    BY <1>2, <1>3, <1>4, <1>5, <1>6 DEF Init, TypeOK, MaybeInst

\* Destroy only adds instances.
LEMMA DestroyType ==
    ASSUME destroyed \subseteq Inst, Destroy
    PROVE  destroyed' \subseteq Inst
  BY DEF Destroy

\* A new number is an instance.
LEMMA NextInst ==
    ASSUME made \in 0 .. MaxInst, made < MaxInst
    PROVE  made + 1 \in Inst /\ made + 1 \in 0 .. MaxInst
  BY SMTT(60), ConstantsAssumption DEF Inst

\* SandboxTenant::load at the start of the process keeps the types.
LEMMA BootType == TypeOK /\ Boot => TypeOK'
  <1> SUFFICES ASSUME TypeOK, Boot PROVE TypeOK'
    OBVIOUS
  <1> USE DEF TypeOK, MaybeInst
  <1>1. PICK base \in {<<>>} \cup {<<a>> : a \in AppendArgs \cup MainArgs} :
          /\ argv' = base
          /\ config_argv' = base
          /\ \/ /\ made < MaxInst
                /\ made' = made + 1
                /\ \E b \in Loadable : binary' = [binary EXCEPT ![made + 1] = b]
                /\ main_args' = [main_args EXCEPT ![made + 1] = [m \in Modes |-> base]]
                /\ ready' = ready \cup {made + 1}
                /\ program' = made + 1
                /\ installed' = installed \cup {made + 1}
             \/ UNCHANGED <<instVars, program, installed>>
    BY DEF Boot
  <1>2. base \in ArgSeqs
    <2>1. CASE base = <<>>
      BY <2>1, EmptyType
    <2>2. ASSUME NEW a \in AppendArgs \cup MainArgs, base = <<a>> PROVE base \in ArgSeqs
      BY SMTT(60), <2>2 DEF ArgSeqs
    <2> QED
      BY <2>1, <2>2
  <1>3. up' \in BOOLEAN /\ UNCHANGED <<debug_program, destroyed, file, loader, updater, task>>
    BY DEF Boot
  <1>4. CASE UNCHANGED <<instVars, program, installed>>
    BY <1>1, <1>2, <1>3, <1>4 DEF instVars
  <1>5. CASE ~UNCHANGED <<instVars, program, installed>>
    <2>1. made + 1 \in Inst /\ made' \in 0 .. MaxInst
      BY <1>1, <1>5, NextInst
    <2>2. main_args' \in [Inst -> [Modes -> ArgSeqs]]
      BY SMTT(60), <1>1, <1>2, <1>5
    <2>3. binary' \in [Inst -> Binaries]
      BY <1>1, <1>5 DEF Loadable
    <2>4. /\ program' \in MaybeInst /\ ready' \subseteq Inst /\ installed' \subseteq Inst
          /\ argv' \in ArgSeqs /\ config_argv' \in ArgSeqs
      BY <1>1, <1>2, <1>5, <2>1
    <2> QED
      BY <1>3, <2>1, <2>2, <2>3, <2>4
  <1> QED
    BY <1>4, <1>5

\* A crash keeps the types.
LEMMA CrashType == TypeOK /\ Crash => TypeOK'
  <1> SUFFICES ASSUME TypeOK, Crash PROVE TypeOK'
    OBVIOUS
  <1>1. destroyed' \subseteq Inst
    BY SMTT(60), ConstantsAssumption DEF TypeOK, Crash, Inst
  <1>2. /\ loader' \in LoaderType
        /\ updater' \in [Updaters -> UpdaterType]
        /\ task' \in [Tasks -> TaskType]
    BY IdleTypes DEF Crash
  <1> QED
    BY <1>1, <1>2, EmptyType DEF TypeOK, Crash, MaybeInst, instVars

\* add_main_argument keeps the types.
LEMMA AppendMainArgumentType ==
    ASSUME TypeOK, NEW a \in MainArgs, AppendMainArgument(a)
    PROVE  TypeOK'
  BY AppendType DEF TypeOK, AppendMainArgument, slotVars, instVars

\* finalize_tenants and the load() that it calls keep the types.
LEMMA LoadType ==
    TypeOK /\ LifetimeInv /\ (FinalizeCheck \/ LoadBegin \/ LoadDone \/ LoadFails) => TypeOK'
  <1> SUFFICES ASSUME TypeOK, LifetimeInv,
                      FinalizeCheck \/ LoadBegin \/ LoadDone \/ LoadFails
               PROVE  TypeOK'
    OBVIOUS
  <1> USE DEF TypeOK, LoaderType, MaybeInst, slotVars, instVars, configVars
  <1>1. CASE FinalizeCheck
    BY <1>1 DEF FinalizeCheck
  <1>2. CASE LoadBegin
    BY <1>2, NextInst DEF LoadBegin, Loadable, Modes
  <1>3. CASE LoadDone
    <2>1. loader.inst \in Inst
      BY SMTT(60), <1>3, ConstantsAssumption
         DEF LoadDone, LifetimeInv, PendingInv, PendingLoader, Inst
    <2> QED
      BY <1>3, <2>1, IdleTypes, DestroyType DEF LoadDone, Modes
  <1>4. CASE LoadFails
    BY <1>4, IdleTypes, DestroyType DEF LoadFails
  <1> QED
    BY <1>1, <1>2, <1>3, <1>4

\* The steps of a live update.
LEMMA UpdateStartType ==
    ASSUME TypeOK, NEW u \in Updaters, UpdateStart(u)
    PROVE  TypeOK'
  <1> USE DEF slotVars, instVars, configVars
  <1>1. CASE UpdateRefused(u)
    <2>1. updater' \in [Updaters -> UpdaterType]
      BY <1>1, AnswerType DEF UpdateRefused, TypeOK, Results
    <2> QED
      BY <1>1, <2>1 DEF UpdateRefused, TypeOK
  <1>2. ASSUME NEW op \in Ops, NEW b \in Binaries, NEW arg \in AppendArgs \cup {NoArg},
               UpdateBegin(u, op, b, arg)
        PROVE  TypeOK'
    <2>1. made + 1 \in Inst /\ made' \in 0 .. MaxInst
      BY <1>2, NextInst DEF UpdateBegin, TypeOK
    <2>2. FirstStep(arg) \in UpdatePCs
      BY DEF FirstStep, UpdatePCs
    <2>3. op \in {"update", "debug", "file"}
      BY ConstantsAssumption
    <2>4. updater' \in [Updaters -> UpdaterType]
      <3> DEFINE r == [updater[u] EXCEPT !.pc = FirstStep(arg), !.op = op, !.arg = arg,
                                         !.new = made + 1, !.old_argv = argv]
      <3>1. updater[u] \in UpdaterType /\ argv \in ArgSeqs /\ made + 1 \in MaybeInst
        BY <2>1 DEF TypeOK, MaybeInst
      <3>2. r \in UpdaterType
        BY <2>2, <2>3, <3>1 DEF UpdaterType
      <3>3. updater' = [updater EXCEPT ![u] = r]
        BY <1>2 DEF UpdateBegin
      <3> HIDE DEF r
      <3> QED
        BY <3>2, <3>3 DEF TypeOK
    <2>5. binary' \in [Inst -> Binaries]
      BY <1>2 DEF UpdateBegin, TypeOK
    <2> QED
      BY <1>2, <2>1, <2>4, <2>5 DEF UpdateBegin, TypeOK
  <1> QED
    BY <1>1, <1>2 DEF UpdateStart

\* The store of the extended argv keeps the types.
LEMMA AppendArgumentType ==
    ASSUME TypeOK, LifetimeInv, NEW u \in Updaters, AppendArgument(u)
    PROVE  TypeOK'
  <1>1. updater[u].old_argv \in ArgSeqs /\ updater[u].arg \in AppendArgs
    BY DEF AppendArgument, TypeOK, UpdaterType, LifetimeInv, LocalsInv
  <1>2. argv' \in ArgSeqs
    BY <1>1, AppendType DEF AppendArgument, Extended
  <1>3. updater' \in [Updaters -> UpdaterType]
    BY GotoType DEF AppendArgument, TypeOK, UpdatePCs
  <1> QED
    BY <1>2, <1>3 DEF AppendArgument, TypeOK, slotVars, instVars

\* A constructor that throws leaves a well-typed updater.
LEMMA ConstructorThrowsType ==
    ASSUME TypeOK, NEW u \in Updaters, ConstructorThrows(u)
    PROVE  updater' \in [Updaters -> UpdaterType] /\ UNCHANGED <<slotVars, ready>>
  BY GotoType, AnswerType DEF ConstructorThrows, TypeOK, UpdatePCs, Results

\* Initialising the storage machine keeps the types.
LEMMA InitStorageType ==
    ASSUME TypeOK, NEW u \in Updaters, InitStorage(u)
    PROVE  TypeOK'
  <1>1. updater' \in [Updaters -> UpdaterType] /\ UNCHANGED <<slotVars, ready>>
    BY GotoType, ConstructorThrowsType DEF InitStorage, StorageReady, TypeOK, UpdatePCs
  <1>2. main_args' \in [Inst -> [Modes -> ArgSeqs]]
    BY DEF InitStorage, TypeOK, Modes
  <1> QED
    BY <1>1, <1>2, DestroyType DEF InitStorage, TypeOK, slotVars, configVars

\* Initialising the machine that requests fork keeps the types.
LEMMA InitScriptType ==
    ASSUME TypeOK, LifetimeInv, NEW u \in Updaters, InitScript(u)
    PROVE  TypeOK'
  <1>1. updater[u].new \in Inst
    BY SMTT(60), ConstantsAssumption
       DEF InitScript, TypeOK, LifetimeInv, PendingInv, PendingUpdater, Constructing, Inst
  <1>2. main_args' \in [Inst -> [Modes -> ArgSeqs]]
    BY DEF InitScript, TypeOK, Modes
  <1>3. /\ updater' \in [Updaters -> UpdaterType]
        /\ ready' \subseteq Inst
        /\ UNCHANGED slotVars
    <2>1. CASE ScriptReady(u)
      <3> DEFINE pc == IF updater[u].op = "file" THEN "restore" ELSE "exchange"
                 r == [updater[u] EXCEPT !.inst = updater[u].new, !.pc = pc]
      <3>1. pc \in UpdatePCs
        BY DEF UpdatePCs
      <3>2. updater[u] \in UpdaterType /\ updater[u].new \in MaybeInst
        BY <1>1 DEF TypeOK, MaybeInst
      <3>3. updater' = [updater EXCEPT ![u] = r]
        BY <2>1 DEF ScriptReady
      <3> HIDE DEF pc
      <3>4. r \in UpdaterType
        BY <3>1, <3>2 DEF UpdaterType
      <3> HIDE DEF r
      <3> QED
        BY <1>1, <2>1, <3>3, <3>4 DEF ScriptReady, TypeOK
    <2>2. CASE ConstructorThrows(u)
      BY <2>2, ConstructorThrowsType DEF TypeOK
    <2> QED
      BY <2>1, <2>2 DEF InitScript
  <1> QED
    BY <1>2, <1>3, DestroyType DEF InitScript, TypeOK, slotVars, configVars

\* Putting the argv back keeps the types.
LEMMA RestoreArgvType ==
    ASSUME TypeOK, NEW u \in Updaters, RestoreArgv(u)
    PROVE  TypeOK'
  <1>1. argv' \in ArgSeqs
    BY DEF RestoreArgv, TypeOK, UpdaterType
  <1>2. updater' \in [Updaters -> UpdaterType]
    BY GotoType, AnswerType DEF RestoreArgv, TypeOK, UpdatePCs, Results
  <1> QED
    BY <1>1, <1>2 DEF RestoreArgv, TypeOK, slotVars, instVars

\* The exchange of the program or the debug program keeps the types.
LEMMA ExchangeType ==
    ASSUME TypeOK, LifetimeInv, NEW u \in Updaters, Exchange(u)
    PROVE  TypeOK'
  <1>1. updater[u].inst \in Inst
    BY DEF Exchange, LifetimeInv, LocalsInv, Complete
  <1>2. /\ updater' \in [Updaters -> UpdaterType]
        /\ program' \in MaybeInst /\ debug_program' \in MaybeInst
    <2>1. ASSUME NEW replaced \in MaybeInst,
                 updater' = [updater EXCEPT ![u] = [@ EXCEPT !.pc = "transfer",
                                                             !.old = replaced]]
          PROVE  updater' \in [Updaters -> UpdaterType]
      <3> DEFINE r == [updater[u] EXCEPT !.pc = "transfer", !.old = replaced]
      <3>1. updater[u] \in UpdaterType /\ "transfer" \in UpdatePCs
        BY DEF TypeOK, UpdatePCs
      <3>2. r \in UpdaterType
        BY <3>1 DEF UpdaterType
      <3>3. updater' = [updater EXCEPT ![u] = r]
        BY <2>1
      <3> HIDE DEF r
      <3> QED
        BY <3>2, <3>3 DEF TypeOK
    <2>2. program \in MaybeInst /\ debug_program \in MaybeInst
      BY DEF TypeOK
    <2>3. CASE ExchangeProgram(u)
      BY <1>1, <2>1, <2>2, <2>3 DEF ExchangeProgram, MaybeInst
    <2>4. CASE ExchangeDebug(u)
      BY <1>1, <2>1, <2>2, <2>4 DEF ExchangeDebug, MaybeInst
    <2> QED
      BY <2>3, <2>4 DEF Exchange
  <1> QED
    BY <1>1, <1>2, DestroyType DEF Exchange, TypeOK, instVars, configVars

\* The end of the state transfer keeps the types.
LEMMA TransferType ==
    ASSUME TypeOK, NEW u \in Updaters, Transfer(u)
    PROVE  TypeOK'
  <1>1. updater' \in [Updaters -> UpdaterType] /\ UNCHANGED slotVars
    BY GotoType, AnswerType
       DEF Transfer, TransferThrows, TransferDone, TypeOK, UpdatePCs, Results
  <1> QED
    BY <1>1, DestroyType DEF Transfer, TypeOK, slotVars, instVars, configVars

\* The steps of file_writer keep the types.
LEMMA FileType ==
    ASSUME TypeOK, LifetimeInv, NEW u \in Updaters, OpenFile(u) \/ WriteFile(u)
    PROVE  TypeOK'
  <1>1. updater' \in [Updaters -> UpdaterType]
    BY GotoType, AnswerType
       DEF OpenFile, OpenFails, WriteFile, TypeOK, UpdatePCs, Results
  <1>2. file' \in Binaries \cup {Source, Torn, Empty}
    <2>1. CASE OpenFile(u)
      BY <2>1 DEF OpenFile, OpenFails, TypeOK
    <2>2. CASE WriteFile(u)
      <3>1. updater[u].pc = "write_file"
        BY <2>2 DEF WriteFile
      <3>2. updater[u].inst \in Inst
        BY <3>1 DEF LifetimeInv, LocalsInv, Installed
      <3>3. binary[updater[u].inst] \in Binaries
        BY <3>2 DEF TypeOK
      <3> QED
        BY <2>2, <3>3 DEF WriteFile
    <2> QED
      BY <2>1, <2>2
  <1> QED
    BY <1>1, <1>2 DEF OpenFile, WriteFile, TypeOK, slotVars, instVars, configVars

\* The return of an update keeps the types.
LEMMA ReturnType ==
    ASSUME TypeOK, NEW u \in Updaters, Return(u)
    PROVE  TypeOK'
  <1>1. updater' \in [Updaters -> UpdaterType]
    BY IdleTypes DEF Return, LeaveScope, TypeOK
  <1> QED
    BY <1>1, DestroyType DEF Return, TypeOK, slotVars, instVars, configVars

\* The steps of a request.
LEMMA TaskStepType ==
    ASSUME TypeOK, NEW t \in Tasks, TaskStep(t)
    PROVE  TypeOK'
  <1>1. task' \in [Tasks -> TaskType]
    <2>1. ASSUME NEW from \in MaybeInst, VmforkLoad(t, from)
          PROVE  task' \in [Tasks -> TaskType]
      BY <2>1 DEF VmforkLoad, TypeOK, TaskType
    <2>2. CASE VmforkConstruct(t)
      BY <2>2 DEF VmforkConstruct, ForkedFrom, SelfReference, TypeOK, TaskType, MaybeInst
    <2>3. CASE VmforkFails(t) \/ ReleaseMachine(t)
      BY <2>3, IdleTypes DEF VmforkFails, ReleaseMachine, TypeOK
    <2>4. CASE ReleaseInst(t)
      BY <2>4 DEF ReleaseInst, TypeOK, TaskType, MaybeInst
    <2> QED
      BY <2>1, <2>2, <2>3, <2>4 DEF TaskStep, TypeOK
  <1>2. destroyed' \subseteq Inst
    BY DestroyType
       DEF TaskStep, VmforkLoad, VmforkConstruct, VmforkFails, ReleaseInst, ReleaseMachine, TypeOK
  <1>3. UNCHANGED <<slotVars, instVars, configVars, file, loader, updater>>
    BY DEF TaskStep, VmforkLoad, VmforkConstruct, VmforkFails, ReleaseInst, ReleaseMachine
  <1> QED
    BY <1>1, <1>2, <1>3 DEF TypeOK, slotVars, instVars, configVars

\* Every step keeps the types.
LEMMA TypeStep == TypeOK /\ LifetimeInv /\ [Next]_vars => TypeOK'
  <1> SUFFICES ASSUME TypeOK, LifetimeInv, [Next]_vars PROVE TypeOK'
    OBVIOUS
  <1>1. CASE UNCHANGED vars
    BY <1>1 DEF vars, slotVars, instVars, configVars, TypeOK
  <1>2. ASSUME NEW u \in Updaters, UpdateStep(u) PROVE TypeOK'
    BY <1>2, AppendArgumentType, InitStorageType, InitScriptType, RestoreArgvType,
       ExchangeType, TransferType, FileType, ReturnType DEF UpdateStep
  <1> QED
    BY <1>1, <1>2, BootType, CrashType, AppendMainArgumentType, LoadType, UpdateStartType,
       TaskStepType DEF Next

-----------------------------------------------------------------------------
(* The lifetime invariant.  Every step is first reduced to what it does to *)
(* the one updater or task that takes it; the invariant's conjuncts follow *)
(* from that, one at a time.                                               *)

\* Only the record of u changes.
OthersKeep(u) == \A v \in Updaters \ {u} : updater'[v] = updater[v]

\* u keeps the instance it constructs, the argument and its two shared_ptrs.
LocalsKept(u) ==
    /\ updater'[u].new = updater[u].new /\ updater'[u].arg = updater[u].arg
    /\ updater'[u].inst = updater[u].inst /\ updater'[u].old = updater[u].old

\* Goto moves the program counter of one updater and nothing else.
LEMMA GotoEffect ==
    ASSUME TypeOK, NEW u \in Updaters, NEW pc, Goto(u, pc)
    PROVE  updater'[u].pc = pc /\ LocalsKept(u) /\ OthersKeep(u)
  BY DEF Goto, TypeOK, UpdaterType, LocalsKept, OthersKeep

\* Answer moves one updater to its return and nothing else.
LEMMA AnswerEffect ==
    ASSUME TypeOK, NEW u \in Updaters, NEW r, Answer(u, r)
    PROVE  updater'[u].pc = "return" /\ LocalsKept(u) /\ OthersKeep(u)
  BY DEF Answer, TypeOK, UpdaterType, LocalsKept, OthersKeep

\* Instances keep their holders when no shared_ptr is assigned to.
LEMMA SameHolders ==
    ASSUME NEW u \in Updaters, LocalsKept(u), OthersKeep(u),
           program' = program, debug_program' = debug_program, task' = task
    PROVE  \A i : Held(i)' <=> Held(i)
  BY SMTT(60) DEF LocalsKept, OthersKeep, Held

\* Only instances that were held, hence complete, are destroyed.
LEMMA DestroyedWasReady ==
    ASSUME HeldIsUsable, Destroy
    PROVE  destroyed' \subseteq destroyed \cup ready
  BY DEF HeldIsUsable, Destroy

\* A step keeps HeldIsUsable when each instance it leaves held was held before
\* or is complete and not destroyed.
LEMMA HeldStep ==
    ASSUME HeldIsUsable, Destroy, ready \subseteq ready',
           \A i \in Inst : Held(i)' => Held(i) \/ i \in ready' \ destroyed
    PROVE  HeldIsUsable'
  BY DEF HeldIsUsable, Destroy

\* The same for a step that gives up no shared_ptr.
LEMMA HeldKept ==
    ASSUME HeldIsUsable, destroyed' = destroyed, ready \subseteq ready',
           \A i \in Inst : Held(i)' => Held(i) \/ i \in ready' \ destroyed
    PROVE  HeldIsUsable'
  BY DEF HeldIsUsable

\* Null is no instance, and the records of idle threads hold nothing.
LEMMA IdleFacts ==
    /\ NoInst \notin Inst
    /\ IdleUpdater.pc = "idle" /\ IdleUpdater.inst = NoInst /\ IdleUpdater.old = NoInst
    /\ IdleTask.pc = "idle" /\ IdleTask.prog = NoInst
    /\ IdleTask.m_inst = NoInst /\ IdleTask.m_inst_ref = NoInst
    /\ IdleLoader.pc = "idle"
  BY SMTT(60), ConstantsAssumption DEF IdleUpdater, IdleTask, IdleLoader, Inst

\* When all threads are idle, nothing is expected of their locals.
LEMMA IdleLocals ==
    ASSUME \A u \in Updaters : updater[u].pc = "idle",
           \A t \in Tasks : task[t].pc = "idle" /\ task[t].m_inst = NoInst
    PROVE  LocalsInv
  BY DEF LocalsInv, Complete, Installed

\* The same after a step.
LEMMA IdleLocalsNext ==
    ASSUME \A u \in Updaters : updater'[u].pc = "idle",
           \A t \in Tasks : task'[t].pc = "idle" /\ task'[t].m_inst = NoInst
    PROVE  LocalsInv'
  BY DEF LocalsInv, Complete, Installed

\* Nobody constructs or holds anything at the start.
LEMMA InitLifetime == Init => LifetimeInv
  <1> SUFFICES ASSUME Init PROVE LifetimeInv
    OBVIOUS
  <1>1. \A u \in Updaters : updater[u] = IdleUpdater
    BY DEF Init
  <1>2. \A t \in Tasks : task[t] = IdleTask
    BY DEF Init
  <1>3. \A i \in Inst : ~Held(i)
    BY <1>1, <1>2, IdleFacts DEF Init, Held
  <1>4. NumbersInv /\ HeldIsUsable
    BY <1>3 DEF Init, NumbersInv, HeldIsUsable
  <1>5. LocalsInv
    BY <1>1, <1>2, IdleFacts, IdleLocals
  <1>6. PendingInv
    BY <1>1 DEF Init, PendingInv, PendingUpdater, PendingApart, PendingLoader, IdleUpdater,
           IdleLoader, Constructing, Complete
  <1> QED
    BY <1>4, <1>5, <1>6 DEF LifetimeInv

\* A step by which one updater only moves on, without going back to an earlier
\* phase, keeps the invariant.
LEMMA MoveStep ==
    ASSUME LifetimeInv, NEW u \in Updaters, LocalsKept(u), OthersKeep(u),
           UNCHANGED <<slotVars, ready, made, loader, task>>,
           Destroy \/ destroyed' = destroyed,
           updater'[u].pc # "append",
           updater'[u].pc \in Constructing => updater[u].pc \in Constructing,
           updater'[u].pc \in Complete => updater[u].pc \in Complete,
           updater'[u].pc \in Installed => updater[u].pc \in Complete \cup Installed
    PROVE  LifetimeInv'
  <1> USE DEF LifetimeInv, slotVars
  <1>1. destroyed' = destroyed
    <2>1. \A i : Held(i)' <=> Held(i)
      BY SameHolders
    <2> QED
      BY <2>1 DEF Destroy
  <1>2. HeldIsUsable'
    <2>1. \A i : Held(i)' <=> Held(i)
      BY SameHolders
    <2> QED
      BY <1>1, <2>1, HeldKept
  <1>3. NumbersInv'
    BY <1>1 DEF NumbersInv
  <1>4. LocalsInv'
    BY SMTT(60) DEF LocalsInv, LocalsKept, OthersKeep
  <1>5. PendingInv'
    <2>7. \A v \in Updaters : PendingUpdater(v)'
      BY <1>1 DEF PendingInv, PendingUpdater, LocalsKept, OthersKeep
    <2>8. \A v, w \in Updaters : PendingApart(v, w)'
      <3>1. \A v \in Updaters :
              /\ updater'[v].new = updater[v].new
              /\ updater'[v].pc \in Constructing \cup Complete =>
                   updater[v].pc \in Constructing \cup Complete
        BY DEF LocalsKept, OthersKeep
      <3> QED
        BY <3>1 DEF PendingInv, PendingApart
    <2>9. PendingLoader'
      BY <1>1 DEF PendingInv, PendingUpdater, PendingLoader, LocalsKept, OthersKeep
    <2> QED
      BY <2>7, <2>8, <2>9 DEF PendingInv
  <1> QED
    BY <1>2, <1>3, <1>4, <1>5

\* The updater's steps that neither begin nor end a construction, swap or return.
LEMMA MovesLifetime ==
    ASSUME TypeOK, LifetimeInv, NEW u \in Updaters,
           \/ UpdateRefused(u) \/ AppendArgument(u) \/ InitStorage(u) \/ RestoreArgv(u)
           \/ InitScript(u) /\ ConstructorThrows(u)
           \/ Transfer(u) \/ OpenFile(u) \/ WriteFile(u)
    PROVE  LifetimeInv'
  <1> USE DEF Constructing, Complete, Installed
  <1>1. CASE UpdateRefused(u)
    <2>1. updater'[u].pc = "return" /\ LocalsKept(u) /\ OthersKeep(u)
      BY <1>1, AnswerEffect DEF UpdateRefused
    <2>2. /\ UNCHANGED <<slotVars, ready, made, loader, task>>
          /\ Destroy \/ destroyed' = destroyed
      BY <1>1 DEF UpdateRefused, instVars
    <2> QED
      BY <2>1, <2>2, MoveStep
  <1>2. CASE AppendArgument(u)
    <2>1. /\ updater[u].pc = "append" /\ updater'[u].pc = "init_storage"
          /\ LocalsKept(u) /\ OthersKeep(u)
      BY <1>2, GotoEffect DEF AppendArgument
    <2>2. /\ UNCHANGED <<slotVars, ready, made, loader, task>>
          /\ Destroy \/ destroyed' = destroyed
      BY <1>2 DEF AppendArgument, instVars
    <2> QED
      BY <2>1, <2>2, MoveStep
  <1>3. CASE InitStorage(u)
    <2>1. /\ updater[u].pc = "init_storage"
          /\ updater'[u].pc \in {"init_script", "unwind", "return"}
          /\ LocalsKept(u) /\ OthersKeep(u)
      BY <1>3, GotoEffect, AnswerEffect DEF InitStorage, StorageReady, ConstructorThrows
    <2>2. /\ UNCHANGED <<slotVars, ready, made, loader, task>>
          /\ Destroy \/ destroyed' = destroyed
      BY <1>3 DEF InitStorage, StorageReady, ConstructorThrows
    <2> QED
      BY <2>1, <2>2, MoveStep
  <1>4. CASE RestoreArgv(u)
    <2>1. /\ updater'[u].pc \in {"return", "exchange"}
          /\ updater'[u].pc = "exchange" => updater[u].pc \in Complete
          /\ LocalsKept(u) /\ OthersKeep(u)
      BY <1>4, GotoEffect, AnswerEffect DEF RestoreArgv
    <2>2. /\ UNCHANGED <<slotVars, ready, made, loader, task>>
          /\ Destroy \/ destroyed' = destroyed
      BY <1>4 DEF RestoreArgv, instVars
    <2> QED
      BY <2>1, <2>2, MoveStep
  <1>5. CASE InitScript(u) /\ ConstructorThrows(u)
    <2>1. updater'[u].pc \in {"unwind", "return"} /\ LocalsKept(u) /\ OthersKeep(u)
      BY <1>5, GotoEffect, AnswerEffect DEF InitScript, ConstructorThrows
    <2>2. /\ UNCHANGED <<slotVars, ready, made, loader, task>>
          /\ Destroy \/ destroyed' = destroyed
      BY <1>5 DEF InitScript, ConstructorThrows
    <2> QED
      BY <2>1, <2>2, MoveStep
  <1>6. CASE Transfer(u)
    <2>1. /\ updater[u].pc = "transfer" /\ updater'[u].pc \in {"open_file", "return"}
          /\ LocalsKept(u) /\ OthersKeep(u)
      BY <1>6, GotoEffect, AnswerEffect DEF Transfer, TransferThrows, TransferDone
    <2>2. /\ UNCHANGED <<slotVars, ready, made, loader, task>>
          /\ Destroy \/ destroyed' = destroyed
      BY <1>6 DEF Transfer, TransferThrows, TransferDone, instVars
    <2> QED
      BY <2>1, <2>2, MoveStep
  <1>7. CASE OpenFile(u)
    <2>1. /\ updater[u].pc = "open_file" /\ updater'[u].pc \in {"write_file", "return"}
          /\ LocalsKept(u) /\ OthersKeep(u)
      BY <1>7, GotoEffect, AnswerEffect DEF OpenFile, OpenFails
    <2>2. /\ UNCHANGED <<slotVars, ready, made, loader, task>>
          /\ Destroy \/ destroyed' = destroyed
      BY <1>7 DEF OpenFile, instVars
    <2> QED
      BY <2>1, <2>2, MoveStep
  <1>8. CASE WriteFile(u)
    <2>1. updater'[u].pc = "return" /\ LocalsKept(u) /\ OthersKeep(u)
      BY <1>8, AnswerEffect DEF WriteFile
    <2>2. /\ UNCHANGED <<slotVars, ready, made, loader, task>>
          /\ Destroy \/ destroyed' = destroyed
      BY <1>8 DEF WriteFile, instVars
    <2> QED
      BY <2>1, <2>2, MoveStep
  <1> QED
    BY <1>1, <1>2, <1>3, <1>4, <1>5, <1>6, <1>7, <1>8

\* A new instance gets a number that nothing refers to.
LEMMA UpdateBeginLifetime ==
    ASSUME TypeOK, LifetimeInv, NEW u \in Updaters, NEW op \in Ops, NEW b \in Binaries,
           NEW arg \in AppendArgs \cup {NoArg}, UpdateBegin(u, op, b, arg)
    PROVE  LifetimeInv'
  <1> USE DEF LifetimeInv, slotVars
  <1>1. /\ updater'[u].pc = FirstStep(arg) /\ updater'[u].arg = arg
        /\ updater'[u].new = made + 1
        /\ updater'[u].inst = updater[u].inst /\ updater'[u].old = updater[u].old
        /\ OthersKeep(u)
    BY SMTT(60) DEF UpdateBegin, TypeOK, UpdaterType, OthersKeep
  <1>2. /\ UNCHANGED <<program, debug_program, installed, ready, destroyed, loader, task>>
        /\ made \in Nat /\ made' = made + 1
    BY SMTT(60), ConstantsAssumption DEF UpdateBegin, TypeOK
  <1>3. FirstStep(arg) \in {"append", "init_storage"}
        /\ (FirstStep(arg) = "append" => arg \in AppendArgs)
    BY DEF FirstStep
  <1>4. NumbersInv'
    BY SMTT(60), <1>2 DEF NumbersInv
  <1>5. HeldIsUsable'
    BY SMTT(60), <1>1, <1>2 DEF HeldIsUsable, Held, OthersKeep
  <1>6. LocalsInv'
    BY <1>1, <1>2, <1>3 DEF LocalsInv, OthersKeep, Complete, Installed
  <1>7. PendingInv'
    <2>1. made + 1 \notin 1 .. made /\ 1 .. made \subseteq 1 .. made' /\ made + 1 \in 1 .. made'
      BY SMTT(60), <1>2
    <2>2. made + 1 \notin ready \cup destroyed \cup installed
      BY <2>1 DEF NumbersInv
    <2> HIDE DEF LifetimeInv
    <2>3. PendingInv
      BY DEF LifetimeInv
    <2>7. \A v \in Updaters : PendingUpdater(v)'
      BY <1>1, <1>2, <2>1, <2>2, <2>3 DEF PendingInv, PendingUpdater, OthersKeep
    <2>8. \A v, w \in Updaters : PendingApart(v, w)'
      <3>1. \A v \in Updaters : updater[v].pc \in Constructing \cup Complete =>
                updater[v].new # made + 1
        BY <2>1, <2>3 DEF PendingInv, PendingUpdater
      <3>2. ASSUME NEW v \in Updaters \ {u} PROVE PendingApart(u, v)' /\ PendingApart(v, u)'
        BY <1>1, <3>1 DEF PendingApart, OthersKeep
      <3>3. ASSUME NEW v \in Updaters \ {u}, NEW w \in Updaters \ {u}
            PROVE  PendingApart(v, w)'
        BY <1>1, <2>3 DEF PendingInv, PendingApart, OthersKeep
      <3>4. PendingApart(u, u)'
        BY DEF PendingApart
      <3> QED
        BY <3>2, <3>3, <3>4
    <2>9. PendingLoader'
      BY <1>1, <1>2, <2>1, <2>2, <2>3 DEF PendingInv, PendingUpdater, PendingLoader, OthersKeep
    <2> QED
      BY <2>7, <2>8, <2>9 DEF PendingInv
  <1> QED
    BY <1>4, <1>5, <1>6, <1>7

\* A completed instance gets its first holder, the updater that constructed it.
LEMMA ScriptReadyLifetime ==
    ASSUME TypeOK, LifetimeInv, NEW u \in Updaters, InitScript(u), ScriptReady(u)
    PROVE  LifetimeInv'
  <1> USE DEF LifetimeInv, slotVars
  <1>1. /\ updater[u].pc = "init_script" /\ updater'[u].pc \in Complete
        /\ updater'[u].new = updater[u].new /\ updater'[u].inst = updater[u].new
        /\ updater'[u].old = updater[u].old
        /\ OthersKeep(u)
    BY DEF InitScript, ScriptReady, TypeOK, UpdaterType, OthersKeep, Complete
  <1>2. /\ UNCHANGED <<program, debug_program, installed, made, loader, task>>
        /\ ready' = ready \cup {updater[u].new}
        /\ Destroy
    BY DEF InitScript, ScriptReady
  <1>3. updater[u].new \in 1 .. made /\ updater[u].new \notin ready \cup destroyed \cup installed
    BY <1>1 DEF PendingInv, PendingUpdater, Constructing
  <1>4. updater[u].new \in Inst
    BY SMTT(60), <1>3, ConstantsAssumption DEF TypeOK, Inst
  <1>5. destroyed' \subseteq destroyed \cup ready
    BY <1>2, DestroyedWasReady
  <1>6. NumbersInv'
    BY <1>2, <1>3, <1>5 DEF NumbersInv
  <1>7. HeldIsUsable'
    <2>1. \A i : Held(i)' => Held(i) \/ i = updater[u].new
      BY <1>1, <1>2 DEF Held, OthersKeep
    <2> QED
      BY <1>2, <1>3, <2>1, HeldStep
  <1>8. LocalsInv'
    BY <1>1, <1>2, <1>4 DEF LocalsInv, OthersKeep, Complete, Installed
  <1>9. PendingInv'
    <2> HIDE DEF LifetimeInv
    <2>1. PendingInv
      BY DEF LifetimeInv
    <2>2. updater'[u].pc \notin Constructing /\ updater[u].pc \in Constructing
      BY <1>1 DEF Constructing, Complete
    <2>7. \A v \in Updaters : PendingUpdater(v)'
      <3>1. PendingUpdater(u)'
        BY <1>1, <1>2, <1>3, <1>5, <2>1, <2>2 DEF PendingInv, PendingUpdater
      <3>2. ASSUME NEW v \in Updaters \ {u} PROVE PendingUpdater(v)'
        <4>1. PendingUpdater(v) /\ PendingApart(u, v) /\ updater'[v] = updater[v]
          BY <1>1, <2>1 DEF PendingInv, OthersKeep
        <4> QED
          BY <1>1, <1>2, <1>3, <1>5, <2>1, <2>2, <4>1 DEF PendingUpdater, PendingApart
      <3> QED
        BY <3>1, <3>2
    <2>8. \A v, w \in Updaters : PendingApart(v, w)'
      <3>1. \A v \in Updaters :
              /\ updater'[v].new = updater[v].new
              /\ updater'[v].pc \in Constructing \cup Complete =>
                   updater[v].pc \in Constructing \cup Complete
        BY <1>1, <2>2 DEF OthersKeep
      <3> QED
        BY <2>1, <3>1 DEF PendingInv, PendingApart
    <2>9. PendingLoader'
      BY <1>1, <1>2, <1>3, <1>5, <2>1, <2>2
         DEF PendingInv, PendingUpdater, PendingLoader, OthersKeep
    <2> QED
      BY <2>7, <2>8, <2>9 DEF PendingInv
  <1> QED
    BY <1>6, <1>7, <1>8, <1>9

\* atomic_exchange hands the updater's instance to the slot and the slot's to
\* the updater.
LEMMA ExchangeLifetime ==
    ASSUME TypeOK, LifetimeInv, NEW u \in Updaters, Exchange(u)
    PROVE  LifetimeInv'
  <1> USE DEF LifetimeInv
  <1>1. /\ updater[u].pc = "exchange" /\ updater'[u].pc = "transfer"
        /\ updater'[u].new = updater[u].new /\ updater'[u].inst = updater[u].inst
        /\ OthersKeep(u)
        /\ \/ /\ updater'[u].old = program
              /\ program' = updater[u].inst /\ debug_program' = debug_program
           \/ /\ updater'[u].old = debug_program
              /\ debug_program' = updater[u].inst /\ program' = program
    BY DEF Exchange, ExchangeProgram, ExchangeDebug, TypeOK, UpdaterType, OthersKeep
  <1>2. /\ UNCHANGED <<made, ready, loader, task>>
        /\ installed' = installed \cup {updater[u].inst}
        /\ Destroy
    BY DEF Exchange, instVars
  <1>3. updater[u].inst \in Inst /\ updater[u].inst = updater[u].new
        /\ updater[u].new \in 1 .. made
    BY <1>1 DEF LocalsInv, PendingInv, PendingUpdater, Complete
  <1>4. destroyed' \subseteq destroyed \cup ready
    BY <1>2, DestroyedWasReady
  <1>5. NumbersInv'
    BY <1>2, <1>3, <1>4 DEF NumbersInv
  <1>6. HeldIsUsable'
    <2>1. \A i : Held(i)' => Held(i)
      BY <1>1, <1>2 DEF Held, OthersKeep
    <2> QED
      BY <1>2, <2>1, HeldStep
  <1>7. LocalsInv'
    BY <1>1, <1>2, <1>3 DEF LocalsInv, OthersKeep, Complete, Installed
  <1>8. PendingInv'
    <2> HIDE DEF LifetimeInv
    <2>1. PendingInv
      BY DEF LifetimeInv
    <2>2. /\ updater'[u].pc \notin Constructing \cup Complete
          /\ updater[u].pc \in Constructing \cup Complete
      BY <1>1 DEF Constructing, Complete
    <2>7. \A v \in Updaters : PendingUpdater(v)'
      <3>1. PendingUpdater(u)'
        BY <1>1, <1>2, <1>3, <1>4, <2>1, <2>2 DEF PendingInv, PendingUpdater
      <3>2. ASSUME NEW v \in Updaters \ {u} PROVE PendingUpdater(v)'
        <4>1. PendingUpdater(v) /\ PendingApart(u, v) /\ updater'[v] = updater[v]
          BY <1>1, <2>1 DEF PendingInv, OthersKeep
        <4> QED
          BY <1>1, <1>2, <1>3, <1>4, <2>1, <2>2, <4>1 DEF PendingUpdater, PendingApart
      <3> QED
        BY <3>1, <3>2
    <2>8. \A v, w \in Updaters : PendingApart(v, w)'
      <3>1. \A v \in Updaters :
              /\ updater'[v].new = updater[v].new
              /\ updater'[v].pc \in Constructing \cup Complete =>
                   updater[v].pc \in Constructing \cup Complete
        BY <1>1, <2>2 DEF OthersKeep
      <3> QED
        BY <2>1, <3>1 DEF PendingInv, PendingApart
    <2>9. PendingLoader'
      BY <1>1, <1>2, <1>3, <1>4, <2>1, <2>2
         DEF PendingInv, PendingUpdater, PendingLoader, OthersKeep
    <2> QED
      BY <2>7, <2>8, <2>9 DEF PendingInv
  <1> QED
    BY <1>5, <1>6, <1>7, <1>8

\* The end of an update gives up its two shared_ptrs.
LEMMA ReturnLifetime ==
    ASSUME TypeOK, LifetimeInv, NEW u \in Updaters, Return(u)
    PROVE  LifetimeInv'
  <1> USE DEF LifetimeInv, slotVars
  <1>1. /\ updater'[u].pc = "idle"
        /\ updater'[u].inst = NoInst /\ updater'[u].old = NoInst
        /\ OthersKeep(u)
    BY DEF Return, LeaveScope, IdleUpdater, TypeOK, OthersKeep
  <1>2. UNCHANGED <<program, debug_program, installed, made, ready, loader, task>> /\ Destroy
    BY DEF Return, instVars
  <1>3. destroyed' \subseteq destroyed \cup ready
    BY <1>2, DestroyedWasReady
  <1>4. NumbersInv'
    BY <1>2, <1>3 DEF NumbersInv
  <1>5. HeldIsUsable'
    <2>1. \A i \in Inst : Held(i)' => Held(i)
      BY <1>1, <1>2, IdleFacts DEF Held, OthersKeep
    <2> QED
      BY <1>2, <2>1, HeldStep
  <1>6. LocalsInv'
    BY <1>1, <1>2 DEF LocalsInv, OthersKeep, Complete, Installed
  <1>7. PendingInv'
    BY SMTT(60), <1>1, <1>2, <1>3 DEF PendingInv, PendingUpdater, PendingApart, PendingLoader,
           OthersKeep, Constructing, Complete
  <1> QED
    BY <1>4, <1>5, <1>6, <1>7

\* A fork takes its reference from a slot, hands it to the Script and gives it
\* up; it never holds an instance that nobody held before.
LEMMA TaskStepLifetime ==
    ASSUME TypeOK, LifetimeInv, NEW t \in Tasks, TaskStep(t)
    PROVE  LifetimeInv'
  <1> USE DEF LifetimeInv
  <1>1. /\ UNCHANGED <<program, debug_program, installed, made, ready, loader, updater>>
        /\ Destroy \/ destroyed' = destroyed
    BY DEF TaskStep, VmforkLoad, VmforkConstruct, VmforkFails, ReleaseInst, ReleaseMachine,
           slotVars, instVars
  <1>2. \A s \in Tasks \ {t} : task'[s] = task[s]
    BY DEF TaskStep, VmforkLoad, VmforkConstruct, VmforkFails, ReleaseInst, ReleaseMachine,
           TypeOK
  <1> DEFINE Taken ==
        /\ task'[t].prog \in {task[t].prog, program, debug_program, NoInst}
        /\ task'[t].m_inst_ref \in {task[t].m_inst_ref, task[t].prog, NoInst}
        /\ task'[t].pc = "idle" => task'[t].m_inst = NoInst
        /\ task'[t].pc = "fork" => task'[t].prog \in Inst
        /\ task'[t].pc \in {"open", "closing"} => task'[t].m_inst \in Inst
        /\ task'[t].pc = "open" => task'[t].m_inst_ref = task'[t].m_inst
  <1>3. Taken
    <2>1. ASSUME NEW from \in {program, debug_program}, VmforkLoad(t, from) PROVE Taken
      <3>1. from \in Inst
        BY <2>1 DEF VmforkLoad, TypeOK, MaybeInst
      <3>2. task'[t].pc = "fork" /\ task'[t].prog = from
            /\ task'[t].m_inst_ref = task[t].m_inst_ref
        BY <2>1 DEF VmforkLoad, TypeOK, TaskType
      <3> QED
        BY <3>1, <3>2
    <2>2. CASE VmforkConstruct(t)
      BY <2>2 DEF VmforkConstruct, ForkedFrom, SelfReference, LocalsInv, TypeOK
    <2>3. CASE VmforkFails(t) \/ ReleaseMachine(t)
      <3>1. task'[t] = IdleTask
        BY <2>3 DEF VmforkFails, ReleaseMachine, TypeOK
      <3> QED
        BY <3>1, IdleFacts
    <2>4. CASE ReleaseInst(t)
      BY <2>4 DEF ReleaseInst, LocalsInv, TypeOK, TaskType
    <2> QED
      BY <2>1, <2>2, <2>3, <2>4 DEF TaskStep
  <1>4. \A i \in Inst : Held(i)' => Held(i)
    BY SMTT(60), <1>1, <1>2, <1>3, IdleFacts DEF Held
  <1>5. destroyed' \subseteq destroyed \cup ready
    BY <1>1, DestroyedWasReady
  <1>6. NumbersInv'
    BY <1>1, <1>5 DEF NumbersInv
  <1>7. HeldIsUsable'
    BY <1>1, <1>4, HeldStep, HeldKept
  <1>8. LocalsInv'
    BY <1>1, <1>2, <1>3 DEF LocalsInv
  <1>9. PendingInv'
    BY <1>1, <1>5 DEF PendingInv, PendingUpdater, PendingApart, PendingLoader
  <1> QED
    BY <1>6, <1>7, <1>8, <1>9

\* Boot installs a complete instance under a new number.
LEMMA BootLifetime == TypeOK /\ LifetimeInv /\ Boot => LifetimeInv'
  <1> SUFFICES ASSUME TypeOK, LifetimeInv, Boot PROVE LifetimeInv'
    OBVIOUS
  <1> USE DEF LifetimeInv
  <1>1. UNCHANGED <<debug_program, destroyed, loader, updater, task>>
    BY DEF Boot
  <1>2. CASE UNCHANGED <<instVars, program, installed>>
    BY <1>1, <1>2 DEF instVars, NumbersInv, LocalsInv, PendingInv, PendingUpdater,
           PendingApart, PendingLoader, HeldIsUsable, Held
  <1>3. CASE /\ made' = made + 1 /\ ready' = ready \cup {made + 1}
             /\ program' = made + 1 /\ installed' = installed \cup {made + 1}
    <2>1. /\ made + 1 \notin 1 .. made /\ 1 .. made \subseteq 1 .. made'
          /\ made + 1 \in 1 .. made'
      BY SMTT(60), <1>3, ConstantsAssumption DEF TypeOK
    <2>2. made + 1 \notin ready \cup destroyed \cup installed
      BY <2>1 DEF NumbersInv
    <2>3. NumbersInv'
      BY <1>1, <1>3, <2>1 DEF NumbersInv
    <2>4. LocalsInv'
      BY <1>1 DEF LocalsInv
    <2>5. PendingInv'
      BY <1>1, <1>3, <2>1 DEF PendingInv, PendingUpdater, PendingApart, PendingLoader
    <2>6. HeldIsUsable'
      <3>1. \A i : Held(i)' => Held(i) \/ i = made + 1
        BY <1>1, <1>3 DEF Held
      <3> QED
        BY <1>1, <1>3, <2>2, <3>1, HeldKept
    <2> QED
      BY <2>3, <2>4, <2>5, <2>6
  <1> QED
    BY <1>2, <1>3 DEF Boot

\* After a crash nobody holds anything.
LEMMA CrashLifetime == TypeOK /\ LifetimeInv /\ Crash => LifetimeInv'
  <1> SUFFICES ASSUME TypeOK, LifetimeInv, Crash PROVE LifetimeInv'
    OBVIOUS
  <1>1. \A u \in Updaters : updater'[u] = IdleUpdater
    BY DEF Crash
  <1>2. \A t \in Tasks : task'[t] = IdleTask
    BY DEF Crash
  <1>3. \A i \in Inst : ~Held(i)'
    BY <1>1, <1>2, IdleFacts DEF Crash, Held
  <1>4. NumbersInv' /\ HeldIsUsable'
    BY <1>3 DEF Crash, instVars, LifetimeInv, NumbersInv, HeldIsUsable
  <1>5. LocalsInv'
    BY <1>1, <1>2, IdleFacts, IdleLocalsNext
  <1>6. PendingInv'
    BY <1>1 DEF Crash, PendingInv, PendingUpdater, PendingApart, PendingLoader, IdleUpdater,
           IdleLoader, Constructing, Complete
  <1> QED
    BY <1>4, <1>5, <1>6 DEF LifetimeInv

\* finalize_tenants: an instance under construction belongs to the loader alone.
LEMMA LoadLifetime ==
    ASSUME TypeOK, LifetimeInv, FinalizeCheck \/ LoadBegin \/ LoadDone \/ LoadFails
    PROVE  LifetimeInv'
  <1> USE DEF LifetimeInv, slotVars, instVars
  <1>1. CASE FinalizeCheck
    <2>1. loader'.pc = "load"
          /\ UNCHANGED <<slotVars, made, ready, destroyed, updater, task>>
      BY <1>1 DEF FinalizeCheck, TypeOK, LoaderType
    <2> QED
      BY <2>1 DEF NumbersInv, LocalsInv, PendingInv, PendingUpdater, PendingApart,
             PendingLoader, HeldIsUsable, Held
  <1>2. CASE LoadBegin
    <2>1. /\ loader'.pc = "construct" /\ loader'.inst = made + 1 /\ made' = made + 1
          /\ UNCHANGED <<slotVars, ready, destroyed, updater, task>>
      BY <1>2 DEF LoadBegin
    <2>2. /\ made + 1 \notin 1 .. made /\ 1 .. made \subseteq 1 .. made'
          /\ made + 1 \in 1 .. made'
      BY SMTT(60), <2>1, ConstantsAssumption DEF TypeOK
    <2>3. NumbersInv' /\ LocalsInv' /\ HeldIsUsable'
      BY <2>1, <2>2 DEF NumbersInv, LocalsInv, HeldIsUsable, Held
    <2>4. PendingInv'
      <3>1. made + 1 \notin ready \cup destroyed \cup installed
        BY <2>2 DEF NumbersInv
      <3> QED
        BY <2>1, <2>2, <3>1 DEF PendingInv, PendingUpdater, PendingApart, PendingLoader
    <2> QED
      BY <2>3, <2>4
  <1>3. CASE LoadDone
    <2>1. /\ loader.pc = "construct" /\ loader'.pc = "idle"
          /\ ready' = ready \cup {loader.inst} /\ program' = loader.inst
          /\ installed' = installed \cup {loader.inst}
          /\ UNCHANGED <<debug_program, made, updater, task>> /\ Destroy
      BY <1>3 DEF LoadDone, IdleLoader
    <2>2. loader.inst \in 1 .. made /\ loader.inst \notin ready \cup destroyed \cup installed
      BY <2>1 DEF PendingInv, PendingLoader
    <2>3. destroyed' \subseteq destroyed \cup ready
      BY <2>1, DestroyedWasReady
    <2>4. NumbersInv' /\ LocalsInv'
      BY <2>1, <2>2, <2>3 DEF NumbersInv, LocalsInv
    <2>5. HeldIsUsable'
      <3>1. \A i : Held(i)' => Held(i) \/ i = loader.inst
        BY <2>1 DEF Held
      <3> QED
        BY <2>1, <2>2, <3>1, HeldStep
    <2>6. PendingInv'
      BY <2>1, <2>2, <2>3 DEF PendingInv, PendingUpdater, PendingApart, PendingLoader
    <2> QED
      BY <2>4, <2>5, <2>6
  <1>4. CASE LoadFails
    <2>1. /\ loader'.pc = "idle" /\ program' = NoInst
          /\ UNCHANGED <<debug_program, installed, made, ready, updater, task>> /\ Destroy
      BY <1>4 DEF LoadFails, IdleLoader
    <2>2. destroyed' \subseteq destroyed \cup ready
      BY <2>1, DestroyedWasReady
    <2>3. NumbersInv' /\ LocalsInv' /\ PendingInv'
      BY <2>1, <2>2 DEF NumbersInv, LocalsInv, PendingInv, PendingUpdater, PendingApart,
             PendingLoader
    <2>4. HeldIsUsable'
      <3>1. \A i \in Inst : Held(i)' => Held(i)
        BY <2>1, IdleFacts DEF Held
      <3> QED
        BY <2>1, <3>1, HeldStep
    <2> QED
      BY <2>3, <2>4
  <1> QED
    BY <1>1, <1>2, <1>3, <1>4

\* Every step of load, live_update, vmfork and ~Script keeps the invariant.
LEMMA LifetimeStep == TypeOK /\ LifetimeInv /\ [Next]_vars => LifetimeInv'
  <1> SUFFICES ASSUME TypeOK, LifetimeInv, [Next]_vars PROVE LifetimeInv'
    OBVIOUS
  <1>1. CASE UNCHANGED vars
    BY <1>1
       DEF vars, slotVars, instVars, LifetimeInv, NumbersInv, LocalsInv, PendingInv,
           PendingUpdater, PendingApart, PendingLoader,
                HeldIsUsable, Held
  <1>2. ASSUME NEW a \in MainArgs, AppendMainArgument(a) PROVE LifetimeInv'
    BY <1>2
       DEF AppendMainArgument, slotVars, instVars, LifetimeInv, NumbersInv, LocalsInv,
                PendingInv, PendingUpdater, PendingApart, PendingLoader, HeldIsUsable, Held
  <1>3. ASSUME NEW u \in Updaters, UpdateStart(u) PROVE LifetimeInv'
    BY <1>3, MovesLifetime, UpdateBeginLifetime DEF UpdateStart
  <1>4. ASSUME NEW u \in Updaters, UpdateStep(u) PROVE LifetimeInv'
    <2>1. CASE InitScript(u)
      BY <2>1, MovesLifetime, ScriptReadyLifetime DEF InitScript
    <2> QED
      BY <1>4, <2>1, MovesLifetime, ExchangeLifetime, ReturnLifetime DEF UpdateStep
  <1> QED
    BY <1>1, <1>2, <1>3, <1>4, BootLifetime, CrashLifetime, LoadLifetime, TaskStepLifetime
       DEF Next

-----------------------------------------------------------------------------
(* The theorems.                                                           *)

\* The state stays well-typed and the lifetime invariant holds, whatever threads
\* do load, live_update, vmfork and ~Script, and whenever the process crashes.
THEOREM Lifetime == Spec => [](TypeOK /\ LifetimeInv)
  <1>1. Init => TypeOK /\ LifetimeInv
    BY InitType, InitLifetime
  <1>2. TypeOK /\ LifetimeInv /\ [Next]_vars => (TypeOK /\ LifetimeInv)'
    BY TypeStep, LifetimeStep
  <1> QED
    BY <1>1, <1>2, PTL DEF Spec

\* The type invariant holds throughout.
THEOREM TypeCorrect == Spec => []TypeOK
  BY Lifetime, PTL

\* The self-reference that vmfork gives to a Script keeps the instance it was
\* forked from alive and complete for as long as the Script is open.
THEOREM ForkAlive == Spec => []ForkInstanceAlive
  <1>1. TypeOK /\ LifetimeInv => ForkInstanceAlive
    BY DEF LifetimeInv, LocalsInv, HeldIsUsable, Held, ForkInstanceAlive
  <1> QED
    BY <1>1, Lifetime, PTL

\* atomic_exchange and load only ever put an instance into a slot that neither
\* slot has had before.
THEOREM NeverInstalledTwice == Spec => NoInstanceTwice
  <1> DEFINE Once == \A i \in installed : /\ program' = i => program = i
                                          /\ debug_program' = i => debug_program = i
  <1>1. TypeOK /\ LifetimeInv /\ [Next]_vars => Once \/ UNCHANGED vars
    <2> SUFFICES ASSUME TypeOK, LifetimeInv, Next PROVE Once
      OBVIOUS
    <2>1. CASE Boot
      <3>1. made + 1 \notin installed
        BY SMTT(60), ConstantsAssumption DEF LifetimeInv, NumbersInv, TypeOK
      <3> QED
        BY <2>1, <3>1 DEF Boot
    <2>2. CASE Crash
      BY <2>2, IdleFacts DEF Crash, TypeOK
    <2>3. CASE LoadDone
      BY <2>3 DEF LoadDone, LifetimeInv, PendingInv, PendingLoader
    <2>4. CASE LoadFails
      BY <2>4, IdleFacts DEF LoadFails, TypeOK
    <2>5. CASE FinalizeCheck \/ LoadBegin \/ \E a \in MainArgs : AppendMainArgument(a)
      BY <2>5 DEF FinalizeCheck, LoadBegin, AppendMainArgument, slotVars
    <2>6. ASSUME NEW u \in Updaters, Exchange(u) PROVE Once
      <3>1. updater[u].inst \notin installed
        BY <2>6 DEF Exchange, LifetimeInv, LocalsInv, PendingInv, PendingUpdater, Complete
      <3> QED
        BY <2>6, <3>1 DEF Exchange, ExchangeProgram, ExchangeDebug
    <2>7. ASSUME NEW u \in Updaters, UpdateStart(u) \/ UpdateStep(u), ~Exchange(u)
          PROVE  UNCHANGED slotVars
      BY <2>7 DEF UpdateStart, UpdateRefused, UpdateBegin, UpdateStep, AppendArgument,
                  InitStorage, StorageReady, ConstructorThrows, InitScript, ScriptReady,
                  RestoreArgv, Transfer, TransferThrows, TransferDone, OpenFile, WriteFile,
                  Return
    <2>8. ASSUME NEW t \in Tasks, TaskStep(t) PROVE UNCHANGED slotVars
      BY <2>8 DEF TaskStep, VmforkLoad, VmforkConstruct, VmforkFails, ReleaseInst,
                  ReleaseMachine
    <2> QED
      BY <2>1, <2>2, <2>3, <2>4, <2>5, <2>6, <2>7, <2>8 DEF Next, slotVars
  <1> QED
    BY <1>1, Lifetime, PTL DEF Spec, NoInstanceTwice

\* Loads, swaps, forks and crashes are those of a hot-swappable slot: a request
\* runs, to its end, the instance that was in the slot at its atomic_load.
THEOREM HotSwapImplemented == Spec => ImplementsHotSwap
  <1> DEFINE Running(t) == IF task[t].pc = "fork" THEN task[t].prog ELSE task[t].m_inst
             RunningMap == [t \in Tasks |-> Running(t)]
             Inv == TypeOK /\ LifetimeInv
  <1>1. Init => HS!Init
    <2> SUFFICES ASSUME Init PROVE HS!Init
      OBVIOUS
    <2>1. \A t \in Tasks : Running(t) = NoInst
      BY IdleFacts DEF Init
    <2> QED
      BY <2>1 DEF Init, HS!Init
  <1>2. Inv /\ [Next]_vars => [HS!Next]_HS!vars
    <2> SUFFICES ASSUME Inv, [Next]_vars PROVE HS!Next \/ UNCHANGED HS!vars
      OBVIOUS
    <2> USE DEF HS!vars
    <2>1. CASE UNCHANGED vars
      BY <2>1 DEF vars, slotVars
    <2>2. CASE Boot
      <3>1. made + 1 \notin installed
        BY SMTT(60), ConstantsAssumption DEF LifetimeInv, NumbersInv, TypeOK
      <3>2. CASE UNCHANGED <<program, installed>>
        BY <2>2, <3>2 DEF Boot
      <3>3. CASE made < MaxInst /\ program' = made + 1 /\ installed' = installed \cup {made + 1}
        <4>1. made + 1 \in Inst
          BY <3>3, NextInst DEF TypeOK
        <4> QED
          BY <2>2, <3>1, <3>3, <4>1 DEF Boot, HS!Next, HS!Install
      <3> QED
        BY <2>2, <3>2, <3>3 DEF Boot
    <2>3. CASE Crash
      BY <2>3 DEF Crash, IdleTask, HS!Next, HS!Restart
    <2>4. CASE FinalizeCheck \/ LoadBegin
      BY <2>4 DEF FinalizeCheck, LoadBegin, slotVars
    <2>9. CASE LoadDone
      <3>1. loader.inst \in (1 .. made) \ installed
        BY <2>9 DEF LoadDone, LifetimeInv, PendingInv, PendingLoader
      <3>2. made \in 0 .. MaxInst
        BY DEF TypeOK
      <3>3. loader.inst \in Inst \ installed
        BY SMTT(60), <3>1, <3>2, ConstantsAssumption DEF Inst
      <3> QED
        BY <2>9, <3>3 DEF LoadDone, HS!Next, HS!Install
    <2>10. CASE LoadFails
      BY <2>10 DEF LoadFails, HS!Next, HS!Unload
    <2>5. ASSUME NEW a \in MainArgs, AppendMainArgument(a) PROVE UNCHANGED HS!vars
      BY <2>5 DEF AppendMainArgument, slotVars
    <2>6. ASSUME NEW u \in Updaters, Exchange(u) PROVE HS!Next
      <3>1. updater[u].inst \in Inst \ installed
        BY <2>6
           DEF Exchange, LifetimeInv, LocalsInv, PendingInv, PendingUpdater, Complete
      <3>2. CASE ExchangeProgram(u)
        BY <2>6, <3>1, <3>2 DEF Exchange, ExchangeProgram, HS!Next, HS!Install
      <3>3. CASE ExchangeDebug(u)
        BY <2>6, <3>1, <3>3 DEF Exchange, ExchangeDebug, HS!Next, HS!InstallDebug
      <3> QED
        BY <2>6, <3>2, <3>3 DEF Exchange
    <2>7. ASSUME NEW u \in Updaters, UpdateStart(u) \/ UpdateStep(u), ~Exchange(u)
          PROVE  UNCHANGED HS!vars
      <3>1. UNCHANGED <<slotVars, task>>
        BY <2>7 DEF UpdateStart, UpdateRefused, UpdateBegin, UpdateStep, AppendArgument,
                    InitStorage, StorageReady, ConstructorThrows, InitScript, ScriptReady,
                    RestoreArgv, Transfer, TransferThrows, TransferDone, OpenFile, WriteFile,
                    Return
      <3> QED
        BY <3>1 DEF slotVars
    <2>8. ASSUME NEW t \in Tasks, TaskStep(t) PROVE HS!Next \/ UNCHANGED HS!vars
      <3>1. UNCHANGED slotVars
        BY <2>8 DEF TaskStep, VmforkLoad, VmforkConstruct, VmforkFails, ReleaseInst,
                    ReleaseMachine
      <3>2. ASSUME NEW from \in {program, debug_program}, VmforkLoad(t, from) PROVE HS!Fork(t)
        <4>1. task[t].pc = "idle" /\ task[t].m_inst = NoInst /\ from # NoInst
          BY <3>2 DEF VmforkLoad, LifetimeInv, LocalsInv
        <4>2. RunningMap' = [RunningMap EXCEPT ![t] = from]
          BY <3>2 DEF VmforkLoad, TypeOK, TaskType
        <4> QED
          BY <3>1, <4>1, <4>2 DEF HS!Fork, slotVars
      <3>3. CASE VmforkConstruct(t)
        <4>1. RunningMap' = RunningMap
          BY <3>3 DEF VmforkConstruct, ForkedFrom, TypeOK
        <4> QED
          BY <3>1, <4>1 DEF slotVars
      <3>4. CASE VmforkFails(t) \/ ReleaseMachine(t)
        <4>1. RunningMap' = [RunningMap EXCEPT ![t] = NoInst]
          <5>1. task' = [task EXCEPT ![t] = IdleTask]
            BY <3>4 DEF VmforkFails, ReleaseMachine
          <5>2. (\A s \in Tasks \ {t} : task'[s] = task[s]) /\ task'[t] = IdleTask
            BY <5>1 DEF TypeOK
          <5>3. Running(t)' = NoInst
            BY <5>2, IdleFacts
          <5>4. \A s \in Tasks \ {t} : Running(s)' = Running(s)
            BY <5>2
          <5> HIDE DEF Running
          <5> QED
            BY <5>3, <5>4
        <4>2. RunningMap[t] # NoInst
          BY <3>4, IdleFacts DEF VmforkFails, ReleaseMachine, LifetimeInv, LocalsInv
        <4> QED
          BY <3>1, <4>1, <4>2 DEF HS!Next, HS!End, slotVars
      <3>5. CASE ReleaseInst(t)
        <4>1. RunningMap' = RunningMap
          BY <3>5 DEF ReleaseInst, TypeOK, TaskType
        <4> QED
          BY <3>1, <4>1 DEF slotVars
      <3> QED
        BY <2>8, <3>2, <3>3, <3>4, <3>5 DEF TaskStep, HS!Next
    <2> QED
      BY <2>1, <2>2, <2>3, <2>4, <2>5, <2>6, <2>7, <2>8, <2>9, <2>10 DEF Next
  <1> QED
    BY <1>1, <1>2, Lifetime, PTL DEF Spec, ImplementsHotSwap, HS!Spec

\* No update, however it fails, leaves a tenant without the program it had.
THEOREM ProgramStays == Spec => ProgramKept
  <1> DEFINE Kept == up /\ up' /\ program # NoInst /\ loader.pc = "idle" => program' # NoInst
  <1>1. TypeOK /\ LifetimeInv /\ [Next]_vars => Kept
    <2> SUFFICES ASSUME TypeOK, LifetimeInv, Next, up, up', program # NoInst,
                        loader.pc = "idle"
                 PROVE  program' # NoInst
      BY DEF vars, slotVars
    <2>1. CASE Boot \/ Crash
      BY <2>1 DEF Boot, Crash
    <2>2. CASE FinalizeCheck \/ LoadBegin \/ LoadDone \/ LoadFails
      BY <2>2 DEF FinalizeCheck, LoadBegin, LoadDone, LoadFails
    <2>3. ASSUME NEW a \in MainArgs, AppendMainArgument(a) PROVE program' # NoInst
      BY <2>3 DEF AppendMainArgument, slotVars
    <2>4. ASSUME NEW u \in Updaters, Exchange(u) PROVE program' # NoInst
      <3>1. updater[u].inst \in Inst
        BY <2>4 DEF Exchange, LifetimeInv, LocalsInv, Complete
      <3>2. updater[u].inst # NoInst
        BY SMTT(60), <3>1, ConstantsAssumption DEF Inst
      <3> QED
        BY <2>4, <3>2 DEF Exchange, ExchangeProgram, ExchangeDebug
    <2>5. ASSUME NEW u \in Updaters, UpdateStart(u) \/ UpdateStep(u), ~Exchange(u)
          PROVE  UNCHANGED slotVars
      BY <2>5 DEF UpdateStart, UpdateRefused, UpdateBegin, UpdateStep, AppendArgument,
                  InitStorage, StorageReady, ConstructorThrows, InitScript, ScriptReady,
                  RestoreArgv, Transfer, TransferThrows, TransferDone, OpenFile, WriteFile,
                  Return
    <2>6. ASSUME NEW t \in Tasks, TaskStep(t) PROVE UNCHANGED slotVars
      BY <2>6 DEF TaskStep, VmforkLoad, VmforkConstruct, VmforkFails, ReleaseInst,
                  ReleaseMachine
    <2> QED
      BY <2>1, <2>2, <2>3, <2>4, <2>5, <2>6 DEF Next, slotVars
  <1> QED
    BY <1>1, Lifetime, PTL DEF Spec, ProgramKept

\* What live_update.cpp:104 stores is, for any number of concurrent updates, the
\* program of an instance whose two machines were initialised, or is torn.
THEOREM OnlyInitialisedIsStored == Spec => StoredWasInitialised
  <1> DEFINE Good == file' # file => \/ file' \in {Empty, Torn}
                                     \/ \E i \in ready : binary[i] = file'
  <1>1. TypeOK /\ LifetimeInv /\ [Next]_vars => Good
    <2> SUFFICES ASSUME TypeOK, LifetimeInv, Next, file' # file
                 PROVE  file' \in {Empty, Torn} \/ \E i \in ready : binary[i] = file'
      BY DEF vars
    <2>1. PICK u \in Updaters : OpenFile(u) \/ WriteFile(u)
      BY DEF Next, Boot, Crash, AppendMainArgument, FinalizeCheck, LoadBegin, LoadDone,
             LoadFails, UpdateStart, UpdateRefused, UpdateBegin, UpdateStep, AppendArgument,
             InitStorage, InitScript, RestoreArgv, Exchange, Transfer, Return, TaskStep,
             VmforkLoad, VmforkConstruct, VmforkFails, ReleaseInst, ReleaseMachine
    <2>2. CASE OpenFile(u)
      BY <2>2 DEF OpenFile, OpenFails
    <2>3. CASE WriteFile(u)
      <3>1. updater[u].inst \in ready
        BY <2>3 DEF WriteFile, LifetimeInv, LocalsInv, Installed, HeldIsUsable, Held
      <3> QED
        BY <2>3, <3>1 DEF WriteFile
    <2> QED
      BY <2>1, <2>2, <2>3
  <1> QED
    BY <1>1, Lifetime, PTL DEF Spec, StoredWasInitialised

-----------------------------------------------------------------------------
(* One updater and no other VCL: the arguments, the file and the program.  *)

\* u keeps the locals that ArgvInv and StoreInv read.
RecordKept(u) ==
    /\ updater'[u].op = updater[u].op /\ updater'[u].new = updater[u].new
    /\ updater'[u].arg = updater[u].arg /\ updater'[u].inst = updater[u].inst
    /\ updater'[u].old_argv = updater[u].old_argv

\* Goto keeps all locals and the answer.
LEMMA GotoKeeps ==
    ASSUME TypeOK, NEW u \in Updaters, NEW pc, Goto(u, pc)
    PROVE  updater'[u].pc = pc /\ RecordKept(u) /\ updater'[u].result = updater[u].result
  BY DEF Goto, TypeOK, UpdaterType, RecordKept

\* Answer keeps all locals.
LEMMA AnswerKeeps ==
    ASSUME TypeOK, NEW u \in Updaters, NEW r, Answer(u, r)
    PROVE  updater'[u].pc = "return" /\ RecordKept(u) /\ updater'[u].result = r
  BY DEF Answer, TypeOK, UpdaterType, RecordKept

\* An update that has begun runs in a process that is up.
LEMMA UpWhileUpdating ==
    ASSUME QuietInv, NEW u \in Updaters, updater[u].pc # "idle"
    PROVE  up
  BY IdleFacts DEF QuietInv

\* The steps that leave the process up keep QuietInv.
LEMMA StaysUp ==
    ASSUME QuietInv, up', loader' = loader
    PROVE  QuietInv'
  BY DEF QuietInv

\* The instance under construction has a number.
LEMMA NewIsInst ==
    ASSUME TypeOK, LifetimeInv, NEW u \in Updaters,
           updater[u].pc \in Constructing \cup Complete
    PROVE  updater[u].new \in Inst
  <1>1. updater[u].new \in 1 .. made /\ made \in 0 .. MaxInst
    BY DEF LifetimeInv, PendingInv, PendingUpdater, TypeOK
  <1> QED
    BY SMTT(60), <1>1, ConstantsAssumption DEF Inst

\* The arguments along an update, as a step leaves them at its program counter.
LEMMA ArgvAppend ==
    ASSUME NEW u \in Updaters, updater'[u].pc = "append", updater'[u].op = "file",
           updater'[u].old_argv = config_argv', argv' = config_argv'
    PROVE  ArgvInv(u)'
  BY DEF ArgvInv, Complete

LEMMA ArgvStorage ==
    ASSUME NEW u \in Updaters, updater'[u].pc = "init_storage",
           updater'[u].op # "file" => updater'[u].arg = NoArg,
           updater'[u].old_argv = config_argv', argv' = MainArgv(u)'
    PROVE  ArgvInv(u)'
  BY DEF ArgvInv, Complete

LEMMA ArgvScript ==
    ASSUME NEW u \in Updaters, updater'[u].pc = "init_script",
           updater'[u].op # "file" => updater'[u].arg = NoArg,
           updater'[u].old_argv = config_argv', argv' = MainArgv(u)',
           main_args'[updater'[u].new]["storage"] = MainArgv(u)'
    PROVE  ArgvInv(u)'
  BY DEF ArgvInv, Complete

LEMMA ArgvUnwind ==
    ASSUME NEW u \in Updaters, updater'[u].pc = "unwind", updater'[u].op = "file",
           updater'[u].old_argv = config_argv'
    PROVE  ArgvInv(u)'
  BY DEF ArgvInv, Complete

LEMMA ArgvComplete ==
    ASSUME NEW u \in Updaters, updater'[u].pc \in Complete,
           updater'[u].op # "file" => updater'[u].arg = NoArg,
           updater'[u].old_argv = config_argv',
           updater'[u].pc = "exchange" => argv' = config_argv',
           \A m \in Modes : main_args'[updater'[u].new][m] = MainArgv(u)'
    PROVE  ArgvInv(u)'
  BY DEF ArgvInv, Constructing, Complete, Modes

LEMMA ArgvRest ==
    ASSUME NEW u \in Updaters, updater'[u].pc \in Installed \cup {"return", "idle"},
           updater'[u].op # "file" => updater'[u].arg = NoArg, argv' = config_argv'
    PROVE  ArgvInv(u)'
  BY DEF ArgvInv, Constructing, Complete, Installed

\* The program and the file, as a step leaves them at its program counter.
LEMMA StoreEarly ==
    ASSUME NEW u \in Updaters, updater'[u].result # "ok", updater'[u].pc \notin Installed
    PROVE  StoreInv(u)'
  BY DEF StoreInv, Installed

LEMMA StoreSwapped ==
    ASSUME NEW u \in Updaters, updater'[u].result # "ok", updater'[u].pc \in Installed,
           updater'[u].pc # "transfer" => updater'[u].op = "update",
           updater'[u].op = "update" => program' = updater'[u].inst
    PROVE  StoreInv(u)'
  BY DEF StoreInv, Installed

LEMMA StoreAnswered ==
    ASSUME NEW u \in Updaters, updater'[u].pc = "return",
           updater'[u].op = "update" /\ updater'[u].result = "ok" =>
             program' \in 1 .. made' /\ file' \in {binary'[program'], Torn}
    PROVE  StoreInv(u)'
  BY DEF StoreInv, Installed

\* An update starts its machines with the same arguments all along.
LEMMA MainArgvKept ==
    ASSUME NEW u \in Updaters, updater'[u].arg = updater[u].arg, config_argv' = config_argv
    PROVE  MainArgv(u)' = MainArgv(u)
  BY DEF MainArgv

\* The beginning of an update.
LEMMA RefusedSolo ==
    ASSUME TypeOK, NEW u \in Updaters, ArgvInv(u), UpdateRefused(u)
    PROVE  ArgvInv(u)' /\ StoreInv(u)'
  <1>1. argv = config_argv /\ (updater[u].op # "file" => updater[u].arg = NoArg)
    BY DEF UpdateRefused, ArgvInv
  <1>2. argv' = argv /\ config_argv' = config_argv
    BY DEF UpdateRefused, configVars
  <1>3. updater'[u].pc = "return" /\ RecordKept(u) /\ updater'[u].result = "refused"
    BY AnswerKeeps DEF UpdateRefused
  <1> QED
    BY <1>1, <1>2, <1>3, ArgvRest, StoreEarly DEF RecordKept, Installed

LEMMA BeginSolo ==
    ASSUME TypeOK, NEW u \in Updaters, ArgvInv(u), StoreInv(u), NEW op \in Ops, NEW b,
           NEW arg \in {NoArg} \cup (IF op = "file" THEN AppendArgs ELSE {}),
           UpdateBegin(u, op, b, arg)
    PROVE  ArgvInv(u)' /\ StoreInv(u)'
  <1>1. updater[u].pc = "idle" /\ argv' = argv /\ config_argv' = config_argv
    BY DEF UpdateBegin, configVars
  <1>2. argv = config_argv /\ updater[u].result # "ok"
    BY <1>1 DEF ArgvInv, StoreInv
  <1>3. /\ updater'[u].pc = FirstStep(arg) /\ updater'[u].op = op /\ updater'[u].arg = arg
        /\ updater'[u].old_argv = argv /\ updater'[u].result = updater[u].result
    BY DEF UpdateBegin, TypeOK, UpdaterType
  <1>4. CASE arg = NoArg
    <2>1. updater'[u].pc = "init_storage" /\ MainArgv(u)' = config_argv'
      BY <1>3, <1>4 DEF FirstStep, MainArgv
    <2> QED
      BY <1>1, <1>2, <1>3, <1>4, <2>1, ArgvStorage, StoreEarly DEF Installed
  <1>5. CASE arg # NoArg
    <2>1. updater'[u].pc = "append" /\ op = "file"
      BY <1>3, <1>5 DEF FirstStep
    <2> QED
      BY <1>1, <1>2, <1>3, <2>1, ArgvAppend, StoreEarly DEF Installed
  <1> QED
    BY <1>4, <1>5

LEMMA StartSolo ==
    ASSUME TypeOK, QuietInv, NEW u \in Updaters, ArgvInv(u), StoreInv(u), UpdateStart(u)
    PROVE  QuietInv' /\ ArgvInv(u)' /\ StoreInv(u)'
  <1>1. CASE UpdateRefused(u)
    <2>1. up' /\ loader' = loader
      BY <1>1 DEF UpdateRefused, configVars
    <2> QED
      BY <1>1, <2>1, StaysUp, RefusedSolo
  <1>2. ASSUME NEW op \in Ops, NEW b \in Binaries,
               NEW arg \in {NoArg} \cup (IF op = "file" THEN AppendArgs ELSE {}),
               UpdateBegin(u, op, b, arg)
        PROVE  QuietInv' /\ ArgvInv(u)' /\ StoreInv(u)'
    <2>1. up' /\ loader' = loader
      BY <1>2 DEF UpdateBegin, configVars
    <2> QED
      BY <1>2, <2>1, StaysUp, BeginSolo
  <1> QED
    BY <1>1, <1>2 DEF UpdateStart

\* The construction, with the arguments on its two machines.
LEMMA AppendSolo ==
    ASSUME TypeOK, LifetimeInv, NEW u \in Updaters, ArgvInv(u), StoreInv(u), AppendArgument(u)
    PROVE  ArgvInv(u)' /\ StoreInv(u)'
  <1>1. /\ updater[u].pc = "append" /\ argv' = Append(updater[u].old_argv, updater[u].arg)
        /\ config_argv' = config_argv
    BY DEF AppendArgument, Extended
  <1>2. /\ updater[u].old_argv = config_argv /\ updater[u].result # "ok"
        /\ updater[u].op # "file" => updater[u].arg = NoArg
    BY <1>1 DEF ArgvInv, StoreInv, Constructing
  <1>3. updater[u].arg # NoArg
    BY <1>1, ConstantsAssumption DEF LifetimeInv, LocalsInv
  <1>4. /\ updater'[u].pc = "init_storage" /\ RecordKept(u)
        /\ updater'[u].result = updater[u].result
    BY GotoKeeps DEF AppendArgument
  <1>5. MainArgv(u) = Append(config_argv, updater[u].arg) /\ MainArgv(u)' = MainArgv(u)
    BY <1>1, <1>3, <1>4, MainArgvKept DEF MainArgv, RecordKept
  <1> QED
    BY <1>1, <1>2, <1>4, <1>5, ArgvStorage, StoreEarly DEF RecordKept, Installed

\* The constructor throws.
LEMMA ThrowsSolo ==
    ASSUME TypeOK, NEW u \in Updaters, ConstructorThrows(u), config_argv' = config_argv,
           updater[u].old_argv = config_argv, updater[u].result # "ok",
           updater[u].op # "file" => updater[u].arg = NoArg /\ argv' = config_argv
    PROVE  ArgvInv(u)' /\ StoreInv(u)'
  <1>1. /\ RecordKept(u) /\ updater'[u].result # "ok"
        /\ \/ updater[u].op = "file" /\ updater'[u].pc = "unwind"
           \/ updater[u].op # "file" /\ updater'[u].pc = "return"
    BY SMTT(60), GotoKeeps, AnswerKeeps DEF ConstructorThrows
  <1> QED
    BY <1>1, ArgvUnwind, ArgvRest, StoreEarly DEF RecordKept, Installed

LEMMA StorageSolo ==
    ASSUME TypeOK, LifetimeInv, NEW u \in Updaters, ArgvInv(u), StoreInv(u), InitStorage(u)
    PROVE  ArgvInv(u)' /\ StoreInv(u)'
  <1>1. /\ updater[u].pc = "init_storage" /\ argv' = argv /\ config_argv' = config_argv
        /\ main_args' = [main_args EXCEPT ![updater[u].new]["storage"] = argv]
        /\ StorageReady(u) \/ ConstructorThrows(u)
    BY DEF InitStorage, configVars
  <1>2. /\ updater[u].old_argv = config_argv /\ argv = MainArgv(u) /\ updater[u].result # "ok"
        /\ updater[u].op # "file" => updater[u].arg = NoArg
    BY <1>1 DEF ArgvInv, StoreInv, Constructing
  <1>3. main_args'[updater[u].new]["storage"] = argv
    BY <1>1, NewIsInst DEF TypeOK, Modes, Constructing
  <1>4. CASE StorageReady(u)
    <2>1. /\ updater'[u].pc = "init_script" /\ RecordKept(u)
          /\ updater'[u].result = updater[u].result
      BY <1>4, GotoKeeps DEF StorageReady
    <2>2. MainArgv(u)' = MainArgv(u)
      BY <1>1, <2>1, MainArgvKept DEF RecordKept
    <2> QED
      BY <1>1, <1>2, <1>3, <2>1, <2>2, ArgvScript, StoreEarly DEF RecordKept, Installed
  <1>5. CASE ConstructorThrows(u)
    <2>1. updater[u].op # "file" => argv = config_argv
      BY <1>2 DEF MainArgv
    <2> QED
      BY <1>1, <1>2, <1>5, <2>1, ThrowsSolo
  <1> QED
    BY <1>1, <1>4, <1>5

LEMMA ScriptSolo ==
    ASSUME TypeOK, LifetimeInv, NEW u \in Updaters, ArgvInv(u), StoreInv(u), InitScript(u)
    PROVE  ArgvInv(u)' /\ StoreInv(u)'
  <1>1. /\ updater[u].pc = "init_script" /\ argv' = argv /\ config_argv' = config_argv
        /\ main_args' = [main_args EXCEPT ![updater[u].new]["request"] = argv]
        /\ ScriptReady(u) \/ ConstructorThrows(u)
    BY DEF InitScript, configVars
  <1>2. /\ updater[u].old_argv = config_argv /\ argv = MainArgv(u) /\ updater[u].result # "ok"
        /\ updater[u].op # "file" => updater[u].arg = NoArg
        /\ main_args[updater[u].new]["storage"] = MainArgv(u)
    BY <1>1 DEF ArgvInv, StoreInv, Constructing
  <1>3. updater[u].op # "file" => argv = config_argv
    BY <1>2 DEF MainArgv
  <1>4. CASE ScriptReady(u)
    <2>1. /\ updater'[u].op = updater[u].op /\ updater'[u].new = updater[u].new
          /\ updater'[u].arg = updater[u].arg /\ updater'[u].old_argv = updater[u].old_argv
          /\ updater'[u].result = updater[u].result
          /\ updater'[u].pc = IF updater[u].op = "file" THEN "restore" ELSE "exchange"
      BY <1>4 DEF ScriptReady, TypeOK, UpdaterType
    <2>2. \A m \in Modes : main_args'[updater[u].new][m] = MainArgv(u)
      BY <1>1, <1>2, NewIsInst DEF TypeOK, Modes, Constructing
    <2>3. MainArgv(u)' = MainArgv(u)
      BY <1>1, <2>1, MainArgvKept
    <2> QED
      BY <1>1, <1>2, <1>3, <2>1, <2>2, <2>3, ArgvComplete, StoreEarly DEF Complete, Installed
  <1>5. CASE ConstructorThrows(u)
    BY <1>1, <1>2, <1>3, <1>5, ThrowsSolo
  <1> QED
    BY <1>1, <1>4, <1>5

LEMMA RestoreSolo ==
    ASSUME TypeOK, NEW u \in Updaters, ArgvInv(u), StoreInv(u), RestoreArgv(u)
    PROVE  ArgvInv(u)' /\ StoreInv(u)'
  <1>1. /\ updater[u].pc \in {"restore", "unwind"} /\ argv' = updater[u].old_argv
        /\ config_argv' = config_argv /\ main_args' = main_args
    BY DEF RestoreArgv, instVars
  <1>2. /\ updater[u].old_argv = config_argv /\ updater[u].result # "ok"
        /\ updater[u].op # "file" => updater[u].arg = NoArg
        /\ updater[u].pc = "restore" =>
             \A m \in Modes : main_args[updater[u].new][m] = MainArgv(u)
    BY <1>1 DEF ArgvInv, StoreInv, Complete, Modes
  <1>3. /\ RecordKept(u) /\ updater'[u].result # "ok"
        /\ \/ updater[u].pc = "restore" /\ updater'[u].pc = "exchange"
           \/ updater'[u].pc = "return"
    BY SMTT(60), <1>2, GotoKeeps, AnswerKeeps DEF RestoreArgv
  <1>4. MainArgv(u)' = MainArgv(u)
    BY <1>1, <1>3, MainArgvKept DEF RecordKept
  <1> QED
    BY <1>1, <1>2, <1>3, <1>4, ArgvComplete, ArgvRest, StoreEarly
       DEF RecordKept, Complete, Installed

\* The exchange, the transfer, the file and the return: argv is the configured one.
LEMMA ExchangeSolo ==
    ASSUME TypeOK, NEW u \in Updaters, StoreInv(u), Exchange(u), argv' = config_argv',
           updater[u].op # "file" => updater[u].arg = NoArg
    PROVE  ArgvInv(u)' /\ StoreInv(u)'
  <1>1. updater[u].result # "ok"
    BY DEF Exchange, StoreInv
  <1>2. CASE ExchangeProgram(u)
    <2>1. /\ updater'[u].pc = "transfer" /\ updater'[u].op = updater[u].op
          /\ updater'[u].arg = updater[u].arg /\ updater'[u].result = updater[u].result
          /\ program' = updater'[u].inst
      BY <1>2 DEF ExchangeProgram, TypeOK, UpdaterType
    <2> QED
      BY <1>1, <2>1, ArgvRest, StoreSwapped DEF Installed
  <1>3. CASE ExchangeDebug(u)
    <2>1. /\ updater'[u].pc = "transfer" /\ updater'[u].op = updater[u].op
          /\ updater'[u].arg = updater[u].arg /\ updater'[u].result = updater[u].result
          /\ updater[u].op # "update"
      BY <1>3 DEF ExchangeDebug, TypeOK, UpdaterType
    <2> QED
      BY <1>1, <2>1, ArgvRest, StoreSwapped DEF Installed
  <1> QED
    BY <1>2, <1>3 DEF Exchange

LEMMA TransferSolo ==
    ASSUME TypeOK, NEW u \in Updaters, StoreInv(u), Transfer(u), argv' = config_argv',
           updater[u].op # "file" => updater[u].arg = NoArg
    PROVE  ArgvInv(u)' /\ StoreInv(u)'
  <1>1. updater[u].pc = "transfer" /\ (TransferThrows(u) \/ TransferDone(u))
    BY DEF Transfer
  <1>2. /\ updater[u].result # "ok"
        /\ updater[u].op = "update" => program = updater[u].inst
    BY <1>1 DEF StoreInv, Installed
  <1>3. CASE TransferThrows(u)
    <2>1. RecordKept(u) /\ updater'[u].pc = "return" /\ updater'[u].result # "ok"
      BY SMTT(60), <1>3, AnswerKeeps DEF TransferThrows
    <2> QED
      BY <2>1, ArgvRest, StoreEarly DEF RecordKept, Installed
  <1>4. CASE TransferDone(u)
    <2>1. /\ RecordKept(u) /\ program' = program
          /\ \/ /\ updater[u].op = "update" /\ updater'[u].pc = "open_file"
                /\ updater'[u].result = updater[u].result
             \/ updater[u].op # "update" /\ updater'[u].pc = "return"
      BY <1>4, GotoKeeps, AnswerKeeps DEF TransferDone, slotVars
    <2> QED
      BY <1>2, <2>1, ArgvRest, StoreSwapped, StoreAnswered DEF RecordKept, Installed
  <1> QED
    BY <1>1, <1>3, <1>4

LEMMA OpenSolo ==
    ASSUME TypeOK, NEW u \in Updaters, StoreInv(u), OpenFile(u), argv' = config_argv',
           updater[u].op # "file" => updater[u].arg = NoArg
    PROVE  ArgvInv(u)' /\ StoreInv(u)'
  <1>1. updater[u].pc = "open_file" /\ program' = program
    BY DEF OpenFile, slotVars
  <1>2. /\ updater[u].result # "ok" /\ updater[u].op = "update" /\ program = updater[u].inst
    BY <1>1 DEF StoreInv, Installed
  <1>3. /\ RecordKept(u)
        /\ \/ updater'[u].pc = "write_file" /\ updater'[u].result = updater[u].result
           \/ updater'[u].pc = "return" /\ updater'[u].result # "ok"
    BY SMTT(60), GotoKeeps, AnswerKeeps DEF OpenFile, OpenFails
  <1> QED
    BY <1>1, <1>2, <1>3, ArgvRest, StoreEarly, StoreSwapped DEF RecordKept, Installed

LEMMA WriteSolo ==
    ASSUME TypeOK, LifetimeInv, NEW u \in Updaters, StoreInv(u), WriteFile(u),
           argv' = config_argv', updater[u].op # "file" => updater[u].arg = NoArg
    PROVE  ArgvInv(u)' /\ StoreInv(u)'
  <1>1. /\ updater[u].pc = "write_file" /\ program' = program /\ binary' = binary
        /\ made' = made
    BY DEF WriteFile, slotVars, instVars
  <1>2. updater[u].op = "update" /\ program = updater[u].inst
    BY <1>1 DEF StoreInv, Installed
  <1>3. program \in 1 .. made
    BY <1>1, <1>2 DEF LifetimeInv, LocalsInv, HeldIsUsable, Held, NumbersInv, Installed
  <1>4. /\ RecordKept(u) /\ updater'[u].pc = "return"
        /\ updater'[u].result = "ok" => file' \in {binary[program], Torn}
    BY SMTT(60), <1>2, AnswerKeeps DEF WriteFile
  <1> QED
    BY <1>1, <1>3, <1>4, ArgvRest, StoreAnswered DEF RecordKept, Installed

\* An updater that is idle again asks only that argv is the configured one.
LEMMA IdleAgain ==
    ASSUME NEW u \in Updaters, updater'[u] = IdleUpdater, argv' = config_argv'
    PROVE  ArgvInv(u)' /\ StoreInv(u)'
  <1>1. /\ updater'[u].pc = "idle" /\ updater'[u].arg = NoArg /\ updater'[u].result # "ok"
    BY SMTT(60) DEF IdleUpdater
  <1> QED
    BY <1>1, ArgvRest, StoreEarly DEF Installed

LEMMA ReturnSolo ==
    ASSUME TypeOK, NEW u \in Updaters, Return(u), argv' = config_argv'
    PROVE  ArgvInv(u)' /\ StoreInv(u)'
  <1>1. updater'[u] = IdleUpdater
    BY DEF Return, LeaveScope, TypeOK
  <1> QED
    BY <1>1, IdleAgain

\* A step of an update that is under way.
LEMMA UpdateSolo ==
    ASSUME TypeOK, LifetimeInv, QuietInv, NEW u \in Updaters, ArgvInv(u), StoreInv(u),
           UpdateStep(u)
    PROVE  QuietInv' /\ ArgvInv(u)' /\ StoreInv(u)'
  <1>1. QuietInv'
    <2>1. updater[u].pc # "idle" /\ up' = up /\ loader' = loader
      BY DEF UpdateStep, AppendArgument, InitStorage, InitScript, RestoreArgv,
             Exchange, Transfer, OpenFile, WriteFile, Return, configVars
    <2> QED
      BY <2>1, UpWhileUpdating, StaysUp
  <1>2. CASE AppendArgument(u) \/ InitStorage(u) \/ InitScript(u) \/ RestoreArgv(u)
    BY <1>1, <1>2, AppendSolo, StorageSolo, ScriptSolo, RestoreSolo
  <1>3. CASE Exchange(u) \/ Transfer(u) \/ OpenFile(u) \/ WriteFile(u) \/ Return(u)
    <2>1. /\ updater[u].pc \in {"exchange", "return"} \cup Installed
          /\ argv' = argv /\ config_argv' = config_argv
      BY <1>3
         DEF Exchange, Transfer, OpenFile, WriteFile, Return, configVars, Installed
    <2>2. argv' = config_argv' /\ (updater[u].op # "file" => updater[u].arg = NoArg)
      BY <2>1 DEF ArgvInv, Installed
    <2> QED
      BY <1>1, <1>3, <2>2, ExchangeSolo, TransferSolo, OpenSolo, WriteSolo, ReturnSolo
  <1> QED
    BY <1>2, <1>3 DEF UpdateStep

\* The process starts, crashes or gets another argument.
LEMMA ProcessSolo ==
    ASSUME NEW u \in Updaters, Updaters = {u}, ~Reload, QuietInv, ArgvInv(u), StoreInv(u),
           Boot \/ Crash \/ \E a \in MainArgs : AppendMainArgument(a)
    PROVE  QuietInv' /\ ArgvInv(u)' /\ StoreInv(u)'
  <1>1. CASE Boot
    <2>1. updater'[u] = IdleUpdater /\ argv' = config_argv' /\ up' /\ loader' = loader
      BY <1>1 DEF Boot, QuietInv
    <2> QED
      BY <2>1, IdleAgain, StaysUp
  <1>2. CASE Crash
    <2>1. /\ argv' = config_argv' /\ loader' = IdleLoader
          /\ \A v \in Updaters : updater'[v] = IdleUpdater
      BY <1>2 DEF Crash
    <2>2. QuietInv'
      BY <2>1, IdleFacts DEF QuietInv
    <2> QED
      BY <2>1, <2>2, IdleAgain
  <1>3. ASSUME NEW a \in MainArgs, AppendMainArgument(a)
        PROVE  QuietInv' /\ ArgvInv(u)' /\ StoreInv(u)'
    <2>1. /\ up' /\ loader' = loader /\ updater' = updater
          /\ argv' = Append(argv, a) /\ config_argv' = Append(config_argv, a)
          /\ updater[u].pc \in {"idle", "return"}
      BY <1>3 DEF AppendMainArgument
    <2>2. argv' = config_argv' /\ (updater[u].op # "file" => updater[u].arg = NoArg)
      BY <2>1 DEF ArgvInv
    <2>3. ArgvInv(u)'
      BY <2>1, <2>2, ArgvRest
    <2>4. UNCHANGED <<updater, program, file, made, binary>>
      BY <1>3 DEF AppendMainArgument, slotVars, instVars
    <2>5. StoreInv(u)'
      BY <2>4 DEF StoreInv
    <2> QED
      BY <2>1, <2>3, <2>5, StaysUp
  <1> QED
    BY <1>1, <1>2, <1>3

\* Steps of requests, and stuttering steps.
LEMMA OthersSolo ==
    ASSUME NEW u \in Updaters, QuietInv, ArgvInv(u), StoreInv(u),
           UNCHANGED <<up, loader, updater, argv, config_argv, main_args, file, program,
                       binary, made>>
    PROVE  QuietInv' /\ ArgvInv(u)' /\ StoreInv(u)'
  <1>1. QuietInv'
    BY DEF QuietInv
  <1>2. ArgvInv(u)'
    BY DEF ArgvInv, MainArgv
  <1>3. StoreInv(u)'
    BY DEF StoreInv
  <1> QED
    BY <1>1, <1>2, <1>3

\* Every step keeps the invariant of the lone updater.
LEMMA SoloStep ==
    ASSUME Solo
    PROVE  TypeOK /\ LifetimeInv /\ SoloInv /\ [Next]_vars => SoloInv'
  <1> SUFFICES ASSUME TypeOK, LifetimeInv, SoloInv, [Next]_vars, NEW u, Updaters = {u}
               PROVE  QuietInv' /\ ArgvInv(u)' /\ StoreInv(u)'
    BY DEF Solo, SoloInv
  <1>1. u \in Updaters /\ QuietInv /\ ArgvInv(u) /\ StoreInv(u) /\ loader.pc = "idle" /\ ~Reload
    BY DEF SoloInv, QuietInv, Solo
  <1>2. CASE Boot \/ Crash \/ \E a \in MainArgs : AppendMainArgument(a)
    BY <1>1, <1>2, ProcessSolo
  <1>3. CASE FinalizeCheck \/ LoadBegin \/ LoadDone \/ LoadFails
    BY <1>1, <1>3 DEF FinalizeCheck, LoadBegin, LoadDone, LoadFails
  <1>4. CASE UpdateStart(u)
    BY <1>1, <1>4, StartSolo
  <1>5. CASE UpdateStep(u)
    BY <1>1, <1>5, UpdateSolo
  <1>6. ASSUME NEW t \in Tasks, TaskStep(t) PROVE QuietInv' /\ ArgvInv(u)' /\ StoreInv(u)'
    <2>1. UNCHANGED <<up, loader, updater, argv, config_argv, main_args, file, program,
                      binary, made>>
      BY <1>6 DEF TaskStep, VmforkLoad, VmforkConstruct, VmforkFails, ReleaseInst,
                  ReleaseMachine, slotVars, instVars, configVars
    <2> QED
      BY <1>1, <2>1, OthersSolo
  <1>7. CASE UNCHANGED vars
    <2>1. UNCHANGED <<up, loader, updater, argv, config_argv, main_args, file, program,
                      binary, made>>
      BY <1>7 DEF vars, slotVars, instVars, configVars
    <2> QED
      BY <1>1, <2>1, OthersSolo
  <1> QED
    BY <1>1, <1>2, <1>3, <1>4, <1>5, <1>6, <1>7 DEF Next

\* The invariant of the lone updater holds throughout.
LEMMA SoloAlways ==
    ASSUME Solo
    PROVE  Spec => []SoloInv
  <1>1. Init => SoloInv
    <2> SUFFICES ASSUME Init PROVE SoloInv
      OBVIOUS
    <2>1. /\ \A u \in Updaters : updater[u] = IdleUpdater
          /\ argv = config_argv /\ loader.pc = "idle"
      BY IdleFacts DEF Init
    <2>2. ASSUME NEW u \in Updaters PROVE ArgvInv(u) /\ StoreInv(u)
      BY SMTT(60), <2>1 DEF IdleUpdater, ArgvInv, StoreInv, Constructing, Complete, Installed
    <2>3. QuietInv
      BY <2>1 DEF QuietInv
    <2> QED
      BY <2>2, <2>3 DEF SoloInv
  <1>2. TypeOK /\ LifetimeInv /\ SoloInv /\ [Next]_vars => SoloInv'
    BY SoloStep
  <1> QED
    BY <1>1, <1>2, Lifetime, PTL DEF Spec

\* riscv_update_file puts the arguments back however it ends, and both machines of
\* its instance were started with its own argument last (live_update.cpp:158), when
\* one update runs at a time and no other VCL adds an argument during it.
THEOREM ArgvIsRestored ==
    ASSUME Solo
    PROVE  Spec => []ArgvRestored
  <1>1. LifetimeInv /\ SoloInv => ArgvRestored
    <2> SUFFICES ASSUME LifetimeInv, SoloInv PROVE ArgvRestored
      OBVIOUS
    <2>1. PICK u : Updaters = {u} /\ ArgvInv(u)
      BY DEF Solo, SoloInv
    <2>2. updater[u].pc \in {"idle", "return"} => argv = config_argv
      BY <2>1 DEF ArgvInv
    <2>3. ASSUME updater[u].pc = "exchange", NEW m \in Modes
          PROVE  main_args[updater[u].inst][m] = MainArgv(u)
      <3>1. updater[u].inst = updater[u].new
        BY <2>1, <2>3 DEF LifetimeInv, LocalsInv, Complete
      <3> QED
        BY <2>1, <2>3, <3>1 DEF ArgvInv, Complete, Modes
    <2> QED
      BY <2>1, <2>2, <2>3 DEF ArgvRestored
  <1> QED
    BY <1>1, SoloAlways, Lifetime, PTL

\* After the answer `Update successful' the file holds the program that is running
\* or is torn, and no program that was replaced, when one update runs at a time and
\* no other VCL loads the tenant.
THEOREM StoredIsRunning ==
    ASSUME Solo
    PROVE  Spec => []StoredProgramIsRunning
  <1>1. TypeOK /\ SoloInv => StoredProgramIsRunning
    <2> SUFFICES ASSUME TypeOK, SoloInv,
                        \A u \in Updaters : updater[u].op = "update" /\ updater[u].result = "ok"
                 PROVE  program # NoInst /\ file \in {binary[program], Torn}
      BY DEF StoredProgramIsRunning
    <2>1. PICK u : u \in Updaters /\ StoreInv(u)
      BY DEF Solo, SoloInv
    <2>2. program \in 1 .. made /\ file \in {binary[program], Torn}
      BY <2>1 DEF StoreInv
    <2> QED
      BY SMTT(60), <2>2, ConstantsAssumption DEF TypeOK
  <1> QED
    BY <1>1, SoloAlways, Lifetime, PTL
==============================================================================
