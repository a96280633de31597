------------------------ MODULE StateTransferProofs ------------------------
(***************************************************************************)
(* Proofs about StateTransfer, for any number of tasks and instances.      *)
(***************************************************************************)
EXTENDS StateTransfer, TLAPS

\* A leaf is left to Zenon, unless it names another prover.
USE ZenonT(60)

\* The instance numbers 1 .. made are instances, and so is the next one.
LEMMA Numbers ==
    ASSUME made \in Inst
    PROVE  /\ made \in Nat /\ 1 .. made \subseteq Inst
           /\ made < MaxInst => made + 1 \in Inst /\ made + 1 \notin 1 .. made
  BY SMTT(60), StorageAssumption DEF Inst

-----------------------------------------------------------------------------
(* The type invariant.                                                     *)

\* Putting a well-typed record in an updater's place keeps the function typed.
LEMMA UpdaterStep ==
    ASSUME updater \in [Updaters -> UpdaterType], NEW u \in Updaters, NEW r \in UpdaterType,
           updater' = [updater EXCEPT ![u] = r]
    PROVE  updater' \in [Updaters -> UpdaterType]
  OBVIOUS

\* Goto and Answer write the program counter and the result of one updater.
LEMMA GotoType ==
    ASSUME updater \in [Updaters -> UpdaterType], NEW u \in Updaters, NEW pc \in UpdatePCs,
           Goto(u, pc)
    PROVE  updater' \in [Updaters -> UpdaterType]
  BY DEF Goto, UpdaterType

\* An updater's record with an answer is an updater's record.
LEMMA AnswerType ==
    ASSUME updater \in [Updaters -> UpdaterType], NEW u \in Updaters,
           NEW r \in {"machine_exception", "not_applied"}, Answer(u, r)
    PROVE  updater' \in [Updaters -> UpdaterType]
  <1> DEFINE n == [updater[u] EXCEPT !.pc = "return", !.result = r]
  <1>1. n \in UpdaterType
    <2>1. "return" \in UpdatePCs /\ updater[u] \in UpdaterType
      BY DEF UpdatePCs
    <2> QED
      BY <2>1 DEF UpdaterType
  <1>2. updater' = [updater EXCEPT ![u] = n]
    BY DEF Answer
  <1> HIDE DEF n
  <1> QED
    BY <1>1, <1>2

\* The initial state is well-typed.
LEMMA InitType == Init => TypeOK
  <1> SUFFICES ASSUME Init PROVE TypeOK
    OBVIOUS
  <1>1. IdleUpdater \in UpdaterType /\ IdleTask \in TaskType
    BY DEF IdleUpdater, IdleTask, UpdaterType, UpdatePCs, TaskType, MaybeInst
  <1>2. updater \in [Updaters -> UpdaterType] /\ task \in [Tasks -> TaskType]
    BY <1>1 DEF Init
  <1>3. made \in Inst /\ program \in Inst
    BY SMTT(60), StorageAssumption DEF Init, Inst
  <1> QED
    BY <1>2, <1>3 DEF Init, TypeOK

\* The swap of a live update.
LEMMA ExchangeType ==
    ASSUME TypeOK, NEW u \in Updaters, Exchange(u)
    PROVE  TypeOK'
  <1>1. made + 1 \in Inst
    BY Numbers DEF TypeOK, Exchange
  <1>2. Completed(program) \in SUBSET Tasks
    BY SMTT(60) DEF Completed, TypeOK, UpdaterType
  <1> DEFINE n == [pc |-> AfterSwap(program, made + 1), inst |-> made + 1, old |-> program,
                   ser |-> {}, before |-> Completed(program), result |-> "ok"]
  <1>3. n \in UpdaterType
    <2>1. AfterSwap(program, made + 1) \in UpdatePCs
      BY DEF AfterSwap, UpdatePCs
    <2>2. made + 1 \in MaybeInst /\ program \in MaybeInst
      BY <1>1 DEF TypeOK, MaybeInst
    <2> QED
      BY <1>2, <2>1, <2>2 DEF UpdaterType
  <1>4. updater' = [updater EXCEPT ![u] = n]
    BY DEF Exchange
  <1> HIDE DEF n
  <1>5. updater' \in [Updaters -> UpdaterType]
    BY <1>3, <1>4, UpdaterStep DEF TypeOK
  <1> QED
    BY <1>1, <1>5 DEF Exchange, TypeOK

\* The steps of an updater move it, and nobody else, in and out of machines.
LEMMA InsideStep ==
    ASSUME TypeOK, NEW u \in Updaters, UpdateStep(u)
    PROVE  /\ inside' \in [Inst -> SUBSET (Updaters \cup Tasks)]
           /\ \A i \in Inst : inside'[i] \ {u} = inside[i] \ {u}
  <1>1. inside \in [Inst -> SUBSET (Updaters \cup Tasks)]
    BY DEF TypeOK
  <1>2. CASE SerializeEnter(u)
    BY <1>1, <1>2 DEF SerializeEnter
  <1>3. CASE SerializeReturn(u)
    BY <1>1, <1>3 DEF SerializeReturn
  <1>4. CASE CopyState(u)
    BY <1>1, <1>4 DEF CopyState
  <1>5. CASE CopyThrows(u)
    BY <1>1, <1>5 DEF CopyThrows
  <1>6. CASE ResumeReturn(u)
    BY <1>1, <1>6 DEF ResumeReturn
  <1>7. CASE ResumeFaults(u)
    BY <1>1, <1>7 DEF ResumeFaults
  <1>8. CASE Return(u)
    BY <1>1, <1>8 DEF Return
  <1> QED
    BY <1>2, <1>3, <1>4, <1>5, <1>6, <1>7, <1>8 DEF UpdateStep

\* The steps of a transfer.
LEMMA UpdateStepType ==
    ASSUME TypeOK, LocalsInv, NEW u \in Updaters, UpdateStep(u)
    PROVE  TypeOK'
  <1>1. updater' \in [Updaters -> UpdaterType]
    <2>1. CASE SerializeEnter(u)
      BY <2>1, GotoType DEF SerializeEnter, TypeOK, UpdatePCs
    <2>2. CASE SerializeReturn(u)
      <3>1. PICK data \in {storage[updater[u].old], {Garbage}} :
              updater' = [updater EXCEPT ![u] = [@ EXCEPT !.pc = "copy", !.ser = data]]
        BY <2>2 DEF SerializeReturn
      <3>2. updater[u].old \in Inst
        BY <2>2, Numbers DEF SerializeReturn, LocalsInv, TypeOK
      <3>3. data \in SUBSET (Tasks \cup {Garbage})
        BY SMTT(60), <3>2 DEF TypeOK
      <3> DEFINE n == [updater[u] EXCEPT !.pc = "copy", !.ser = data]
      <3>4. updater[u] \in UpdaterType /\ "copy" \in UpdatePCs
        BY DEF TypeOK, UpdatePCs
      <3>5. n \in UpdaterType
        BY <3>3, <3>4 DEF UpdaterType
      <3>6. updater' = [updater EXCEPT ![u] = n]
        BY <3>1
      <3> HIDE DEF n
      <3> QED
        BY <3>5, <3>6, UpdaterStep DEF TypeOK
    <2>3. CASE CopyState(u)
      <3> DEFINE n == [updater[u] EXCEPT !.pc = "resuming", !.ser = Copied(u)]
      <3>1. updater[u] \in UpdaterType /\ "resuming" \in UpdatePCs
        BY DEF TypeOK, UpdatePCs
      <3>2. Copied(u) \in SUBSET (Tasks \cup {Garbage})
        BY <3>1 DEF Copied, UpdaterType
      <3>3. n \in UpdaterType
        BY <3>1, <3>2 DEF UpdaterType
      <3>4. updater' = [updater EXCEPT ![u] = n]
        BY <2>3 DEF CopyState
      <3> HIDE DEF n
      <3> QED
        BY <3>3, <3>4, UpdaterStep DEF TypeOK
    <2>4. CASE CopyThrows(u)
      BY <2>4, AnswerType DEF CopyThrows, TypeOK
    <2>5. CASE ResumeReturn(u) \/ ResumeFaults(u)
      BY <2>5, GotoType DEF ResumeReturn, ResumeFaults, TypeOK, UpdatePCs
    <2>6. CASE Return(u)
      <3>1. IdleUpdater \in UpdaterType
        BY DEF IdleUpdater, UpdaterType, UpdatePCs, MaybeInst
      <3> QED
        BY <2>6, <3>1, UpdaterStep DEF Return, TypeOK
    <2> QED
      BY <2>1, <2>2, <2>3, <2>4, <2>5, <2>6 DEF UpdateStep
  <1>2. updater[u].pc # "idle" => updater[u].old \in Inst /\ updater[u].inst \in Inst
    BY Numbers DEF LocalsInv, TypeOK
  <1>3. storage' \in [Inst -> SUBSET Tasks]
    <2>1. CASE ResumeReturn(u)
      <3>1. updater[u].ser \in SUBSET Tasks
        BY SMTT(60), <2>1 DEF ResumeReturn, Intact, TypeOK, UpdaterType
      <3> QED
        BY <2>1, <3>1 DEF ResumeReturn, Restored, TypeOK
    <2> QED
      BY <2>1 DEF UpdateStep, SerializeEnter, SerializeReturn, CopyState, CopyThrows,
                  ResumeFaults, Return, TypeOK
  <1>4. inside' \in [Inst -> SUBSET (Updaters \cup Tasks)]
    BY InsideStep
  <1>5. tainted' \subseteq Inst
    BY <1>2 DEF UpdateStep, SerializeEnter, SerializeReturn, CopyState, CopyThrows,
           ResumeReturn, ResumeFaults, Return, Raced, TypeOK
  <1>6. UNCHANGED <<made, program, storage_mtx, fault_handler, task>>
    BY DEF UpdateStep, SerializeEnter, SerializeReturn, CopyState, CopyThrows,
           ResumeReturn, ResumeFaults, Return
  <1> QED
    BY <1>1, <1>3, <1>4, <1>5, <1>6 DEF TypeOK

\* The steps of a fork.
LEMMA TaskStepType ==
    ASSUME TypeOK, LocalsInv, NEW t \in Tasks, TaskStep(t)
    PROVE  TypeOK'
  <1> USE DEF TypeOK
  <1>1. task[t].pc # "idle" => task[t].m_inst \in Inst
    BY DEF LocalsInv
  <1>2. CASE Fork(t)
    BY <1>2 DEF Fork, TaskType, MaybeInst
  <1>3. CASE RemoteCall(t) \/ RemoteStrcall(t)
    <2>0. PICK pc \in {"remote", "strcall"} : EnterStorage(t, pc)
      BY <1>3 DEF RemoteCall, RemoteStrcall
    <2>1. task[t].m_inst \in Inst /\ EnterStorage(t, pc)
      BY <1>1, <2>0 DEF EnterStorage
    <2>2. task' \in [Tasks -> TaskType]
      BY <2>1 DEF EnterStorage, TaskType, InRemote
    <2>3. fault_handler' \in [Inst -> Tasks \cup {NoTask, Stale}]
      BY <1>3 DEF RemoteCall, RemoteStrcall, SharedPages
    <2>4. /\ storage_mtx' \in [Inst -> Tasks \cup {NoTask}]
          /\ inside' \in [Inst -> SUBSET (Updaters \cup Tasks)]
          /\ tainted' \subseteq Inst
      BY <2>1 DEF EnterStorage, Raced
    <2> QED
      BY <2>1, <2>2, <2>3, <2>4 DEF EnterStorage
  <1>4. CASE RemoteReturn(t) \/ RemoteFails(t)
    <2>1. LeaveStorage(t) /\ task[t].m_inst \in Inst
      BY <1>1, <1>4 DEF RemoteReturn, RemoteFails, LeaveStorage
    <2>2. task' \in [Tasks -> TaskType]
      BY <2>1 DEF LeaveStorage, TaskType
    <2>3. /\ storage_mtx' \in [Inst -> Tasks \cup {NoTask}]
          /\ storage' \in [Inst -> SUBSET Tasks]
          /\ tainted' \subseteq Inst
      BY SMTT(60), <1>4, <2>1 DEF RemoteReturn, RemoteFails, Unlocked
    <2>4. inside' \in [Inst -> SUBSET (Updaters \cup Tasks)]
      BY <2>1 DEF LeaveStorage
    <2> QED
      BY <2>1, <2>2, <2>3, <2>4 DEF LeaveStorage
  <1>5. CASE End(t)
    <2>1. IdleTask \in TaskType
      BY DEF IdleTask, TaskType, MaybeInst
    <2>2. task' \in [Tasks -> TaskType]
      BY <1>5, <2>1 DEF End
    <2>3. fault_handler' \in [Inst -> Tasks \cup {NoTask, Stale}]
      BY <1>5 DEF End, Handlers
    <2> QED
      BY <1>5, <2>2, <2>3 DEF End
  <1>6. CASE NestedCall(t)
    BY <1>6 DEF NestedCall, TaskType, InRemote
  <1> QED
    BY <1>2, <1>3, <1>4, <1>5, <1>6 DEF TaskStep

\* Every step keeps the types.
LEMMA TypeStep == TypeOK /\ LocalsInv /\ [Next]_vars => TypeOK'
  <1>1. CASE UNCHANGED vars
    BY <1>1 DEF vars, TypeOK
  <1> QED
    BY <1>1, ExchangeType, UpdateStepType, TaskStepType DEF Next

-----------------------------------------------------------------------------
(* What one step does to the updater or the task that takes it.            *)

\* An updater that is not the one to step keeps its record.
OthersKeep(u) == \A v \in Updaters \ {u} : updater'[v] = updater[v]

\* Answer writes the program counter and the result, and nothing else.
LEMMA AnswerEffect ==
    ASSUME TypeOK, NEW u \in Updaters, NEW r, Answer(u, r)
    PROVE  /\ OthersKeep(u) /\ updater'[u].pc = "return" /\ updater'[u].result = r
           /\ updater'[u].inst = updater[u].inst /\ updater'[u].old = updater[u].old
           /\ updater'[u].before = updater[u].before /\ updater'[u].ser = updater[u].ser
  BY DEF Answer, OthersKeep, TypeOK, UpdaterType

\* A transfer moves on; it keeps its instances and the writes it has to bring.
LEMMA UpdateEffect ==
    ASSUME TypeOK, NEW u \in Updaters, UpdateStep(u)
    PROVE  /\ OthersKeep(u)
           /\ UNCHANGED <<made, program, storage_mtx, task>>
           /\ updater'[u].pc # "idle" => updater[u].pc # "idle"
           /\ \/ updater'[u] = IdleUpdater
              \/ /\ updater'[u].inst = updater[u].inst /\ updater'[u].old = updater[u].old
                 /\ updater'[u].before = updater[u].before
  <1> USE DEF OthersKeep, TypeOK, UpdaterType
  <1>1. CASE SerializeEnter(u)
    BY <1>1 DEF SerializeEnter, Goto
  <1>2. CASE SerializeReturn(u)
    BY SMTT(60), <1>2 DEF SerializeReturn
  <1>3. CASE CopyState(u)
    BY <1>3 DEF CopyState
  <1>4. CASE CopyThrows(u)
    BY <1>4, AnswerEffect DEF CopyThrows
  <1>5. CASE ResumeReturn(u)
    BY <1>5 DEF ResumeReturn, Goto
  <1>6. CASE ResumeFaults(u)
    BY <1>6 DEF ResumeFaults, Goto
  <1>7. CASE Return(u)
    BY <1>7 DEF Return, IdleUpdater
  <1> QED
    BY <1>1, <1>2, <1>3, <1>4, <1>5, <1>6, <1>7 DEF UpdateStep

\* Open forks and transferring updaters keep their instances.
LEMMA LocalsStep == TypeOK /\ LocalsInv /\ [Next]_vars => LocalsInv'
  <1> SUFFICES ASSUME TypeOK, LocalsInv, [Next]_vars PROVE LocalsInv'
    OBVIOUS
  <1>1. CASE UNCHANGED vars
    BY <1>1 DEF vars, LocalsInv
  <1>2. ASSUME NEW u \in Updaters, Exchange(u) PROVE LocalsInv'
    <2>1. /\ made \in Nat /\ program \in Nat /\ program >= 1 /\ program <= made
      BY SMTT(60), Numbers, StorageAssumption DEF TypeOK, LocalsInv, Inst
    <2>2. /\ made' = made + 1 /\ program' = made + 1 /\ task' = task
          /\ updater'[u].inst = made + 1 /\ updater'[u].old = program
          /\ OthersKeep(u)
      BY <1>2 DEF Exchange, TypeOK, OthersKeep
    <2>3. 1 .. made \subseteq 1 .. made' /\ made + 1 \in 1 .. made' /\ program \in 1 .. made'
          /\ program # made + 1 /\ program' <= made'
      BY SMTT(60), <2>1, <2>2
    <2> QED
      BY <2>2, <2>3 DEF LocalsInv, OthersKeep
  <1>3. ASSUME NEW u \in Updaters, UpdateStep(u) PROVE LocalsInv'
    <2>1. updater'[u] = IdleUpdater => updater'[u].pc = "idle"
      BY SMTT(60) DEF IdleUpdater
    <2> QED
      BY <1>3, <2>1, UpdateEffect DEF LocalsInv, OthersKeep
  <1>4. ASSUME NEW t \in Tasks, TaskStep(t) PROVE LocalsInv'
    <2>1. UNCHANGED <<made, program, updater>>
      BY <1>4 DEF TaskStep, Fork, RemoteCall, RemoteStrcall, EnterStorage, NestedCall,
                  RemoteReturn, RemoteFails, LeaveStorage, End
    <2>2. \A s \in Tasks : task'[s].pc # "idle" => task'[s].m_inst \in Inst
      <3>1. CASE Fork(t)
        BY <3>1 DEF Fork, LocalsInv, TypeOK
      <3>2. CASE RemoteCall(t) \/ RemoteStrcall(t)
        <4>1. PICK pc \in {"remote", "strcall"} :
                task' = [task EXCEPT ![t].pc = pc] /\ task[t].pc # "idle"
          BY <3>2 DEF RemoteCall, RemoteStrcall, EnterStorage
        <4> QED
          BY <4>1 DEF LocalsInv, TypeOK, TaskType
      <3>3. CASE RemoteReturn(t) \/ RemoteFails(t)
        <4>1. task' = [task EXCEPT ![t].pc = "open"] /\ task[t].pc # "idle"
          BY <3>3 DEF RemoteReturn, RemoteFails, LeaveStorage
        <4> QED
          BY <4>1 DEF LocalsInv, TypeOK, TaskType
      <3>4. CASE End(t)
        BY <3>4 DEF End, IdleTask, LocalsInv, TypeOK
      <3>5. CASE NestedCall(t)
        BY <3>5 DEF NestedCall, LocalsInv, TypeOK, TaskType
      <3> QED
        BY <1>4, <3>1, <3>2, <3>3, <3>4, <3>5 DEF TaskStep
    <2> QED
      BY <2>1, <2>2 DEF LocalsInv
  <1> QED
    BY <1>1, <1>2, <1>3, <1>4 DEF Next

-----------------------------------------------------------------------------
(* Mutual exclusion of the remote calls.                                   *)

\* Every step keeps storage_mtx and the tasks inside a storage machine in step.
LEMMA MutexStep ==
    TypeOK /\ LocalsInv /\ MutexInv /\ RemoteCallsExclusive /\ [Next]_vars
        => MutexInv' /\ RemoteCallsExclusive'
  <1> SUFFICES ASSUME TypeOK, LocalsInv, MutexInv, RemoteCallsExclusive, [Next]_vars
               PROVE  MutexInv' /\ RemoteCallsExclusive'
    OBVIOUS
  <1>1. CASE UNCHANGED vars
    BY <1>1 DEF vars, MutexInv, RemoteCallsExclusive
  <1>2. ASSUME NEW u \in Updaters, Exchange(u) PROVE MutexInv' /\ RemoteCallsExclusive'
    BY <1>2 DEF Exchange, MutexInv, RemoteCallsExclusive
  <1>3. ASSUME NEW u \in Updaters, UpdateStep(u) PROVE MutexInv' /\ RemoteCallsExclusive'
    <2>1. UNCHANGED <<storage_mtx, task>>
      BY <1>3, UpdateEffect
    <2>2. \A i \in Inst : inside'[i] \cap Tasks = inside[i] \cap Tasks
      <3>1. u \notin Tasks
        BY StorageAssumption
      <3>2. \A i \in Inst : inside'[i] \ {u} = inside[i] \ {u}
        BY <1>3, InsideStep
      <3> QED
        BY <3>1, <3>2
    <2> QED
      BY <2>1, <2>2 DEF MutexInv, RemoteCallsExclusive
  <1>4. ASSUME NEW t \in Tasks, TaskStep(t) PROVE MutexInv' /\ RemoteCallsExclusive'
    <2> DEFINE i == task[t].m_inst
    <2> USE StorageAssumption
    <2> USE DEF InRemote
    <2>1. CASE Fork(t) \/ End(t)
      <3>1. task[t].pc \notin InRemote /\ task'[t].pc \notin InRemote
            /\ UNCHANGED <<storage_mtx, inside>>
        BY SMTT(60), <2>1 DEF Fork, End, IdleTask, TypeOK
      <3>2. \A s \in Tasks \ {t} : task'[s] = task[s]
        BY <2>1 DEF Fork, End, TypeOK
      <3> QED
        BY SMTT(60), <3>1, <3>2 DEF MutexInv, RemoteCallsExclusive, TypeOK
    <2>2. CASE RemoteCall(t) \/ RemoteStrcall(t)
      <3>1. /\ task[t].pc = "open" /\ i \in Inst /\ storage_mtx[i] = NoTask
            /\ storage_mtx' = [storage_mtx EXCEPT ![i] = t]
            /\ inside' = [inside EXCEPT ![i] = @ \cup {t}]
        BY <2>2 DEF RemoteCall, RemoteStrcall, EnterStorage, Lockable, LocalsInv
      <3>2. /\ task'[t].pc \in InRemote /\ task'[t].m_inst = i
            /\ \A s \in Tasks \ {t} : task'[s] = task[s]
        BY SMTT(60), <2>2 DEF RemoteCall, RemoteStrcall, EnterStorage, TypeOK, TaskType
      <3> HIDE DEF i
      <3>3. MutexInv'
        BY SMTT(60), <3>1, <3>2 DEF MutexInv, TypeOK
      <3>4. RemoteCallsExclusive'
        BY SMTT(60), <3>1 DEF RemoteCallsExclusive, TypeOK
      <3> QED
        BY <3>3, <3>4
    <2>3. CASE RemoteReturn(t) \/ RemoteFails(t)
      <3>1. /\ task[t].pc \in InRemote /\ i \in Inst /\ storage_mtx[i] = t
            /\ storage_mtx' = [storage_mtx EXCEPT ![i] = NoTask]
            /\ inside' = [inside EXCEPT ![i] = @ \ {t}]
        BY <2>3 DEF RemoteReturn, RemoteFails, LeaveStorage, Unlocked, LocalsInv, MutexInv
      <3>2. /\ task'[t].pc = "open" /\ task'[t].m_inst = i
            /\ \A s \in Tasks \ {t} : task'[s] = task[s]
        BY SMTT(60), <2>3 DEF RemoteReturn, RemoteFails, LeaveStorage, TypeOK, TaskType
      <3> HIDE DEF i
      <3>3. MutexInv'
        BY SMTT(60), <3>1, <3>2 DEF MutexInv, TypeOK
      <3>4. RemoteCallsExclusive'
        BY <3>1 DEF RemoteCallsExclusive, TypeOK
      <3> QED
        BY <3>3, <3>4
    <2>4. CASE NestedCall(t)
      <3>1. /\ task[t].pc \in InRemote /\ task'[t].pc \in InRemote
            /\ task'[t].m_inst = task[t].m_inst
            /\ \A s \in Tasks \ {t} : task'[s] = task[s]
            /\ UNCHANGED <<storage_mtx, inside>>
        BY <2>4 DEF NestedCall, TypeOK, TaskType
      <3> QED
        BY SMTT(60), <3>1 DEF MutexInv, RemoteCallsExclusive, TypeOK
    <2> QED
      BY <1>4, <2>1, <2>2, <2>3, <2>4 DEF TaskStep
  <1> QED
    BY <1>1, <1>2, <1>3, <1>4 DEF Next

\* A handler is replaced only under the mutex, and becomes stale only with a
\* fork that is in no call.
LEMMA HandlerStep ==
    TypeOK /\ LocalsInv /\ MutexInv /\ HandlerIsCallers /\ [Next]_vars => HandlerIsCallers'
  <1> SUFFICES ASSUME TypeOK, LocalsInv, MutexInv, HandlerIsCallers, [Next]_vars,
                      NEW s \in Tasks, task'[s].pc = "remote"
               PROVE  fault_handler'[task'[s].m_inst] = s
    BY DEF HandlerIsCallers
  <1>1. CASE UNCHANGED vars
    BY <1>1 DEF vars, HandlerIsCallers
  <1>2. ASSUME NEW u \in Updaters, Exchange(u) \/ UpdateStep(u)
        PROVE  UNCHANGED <<task, fault_handler>>
    BY <1>2 DEF Exchange, UpdateStep, SerializeEnter, SerializeReturn, CopyState, CopyThrows,
                ResumeReturn, ResumeFaults, Return
  <1>3. ASSUME NEW t \in Tasks, TaskStep(t) PROVE fault_handler'[task'[s].m_inst] = s
    <2>1. CASE RemoteCall(t)
      <3> DEFINE i == task[t].m_inst
      <3>1. /\ i \in Inst /\ storage_mtx[i] = NoTask
            /\ fault_handler' = [fault_handler EXCEPT ![i] = t]
            /\ task'[t].m_inst = i /\ \A q \in Tasks \ {t} : task'[q] = task[q]
        BY <2>1 DEF RemoteCall, EnterStorage, Lockable, SharedPages, LocalsInv, TypeOK, TaskType
      <3> HIDE DEF i
      <3>2. CASE s = t
        BY <3>1, <3>2 DEF TypeOK
      <3>3. CASE s # t
        <4>1. task[s].pc = "remote" /\ storage_mtx[task[s].m_inst] = s /\ s # NoTask
          BY <3>1, <3>3, StorageAssumption DEF MutexInv, InRemote
        <4>2. task[s].m_inst # i /\ fault_handler[task[s].m_inst] = s
          BY <3>1, <4>1 DEF HandlerIsCallers
        <4>3. task[s].m_inst \in Inst
          BY <4>1 DEF LocalsInv
        <4> QED
          BY <3>1, <3>3, <4>2, <4>3 DEF TypeOK
      <3> QED
        BY <3>2, <3>3
    <2>2. CASE RemoteStrcall(t) \/ NestedCall(t) \/ RemoteReturn(t) \/ RemoteFails(t) \/ Fork(t)
      <3>1. fault_handler' = fault_handler
        BY <2>2 DEF RemoteStrcall, NestedCall, RemoteReturn, RemoteFails, LeaveStorage, Fork
      <3>2. PICK pc \in {"strcall", "blocked", "open"} :
              task'[t].pc = pc /\ \A q \in Tasks \ {t} : task'[q] = task[q]
        BY SMTT(60), <2>2 DEF RemoteStrcall, EnterStorage, NestedCall, RemoteReturn, RemoteFails,
                    LeaveStorage, Fork, TypeOK, TaskType
      <3> QED
        BY <3>1, <3>2 DEF HandlerIsCallers
    <2>3. CASE End(t)
      <3>1. /\ s # t /\ task'[s] = task[s] /\ fault_handler' = Handlers(t)
        BY <2>3 DEF End, IdleTask, TypeOK
      <3>2. task[s].m_inst \in Inst /\ fault_handler[task[s].m_inst] = s
        BY <3>1 DEF LocalsInv, HandlerIsCallers
      <3> QED
        BY <3>1, <3>2 DEF Handlers
    <2> QED
      BY <1>3, <2>1, <2>2, <2>3 DEF TaskStep
  <1> QED
    BY <1>1, <1>2, <1>3 DEF Next, HandlerIsCallers

\* The type invariant, the instances of threads and the mutex, at every step.
THEOREM Safety ==
    Spec => [](TypeOK /\ LocalsInv /\ MutexInv /\ RemoteCallsExclusive /\ HandlerIsCallers)
  <1> DEFINE IInv == TypeOK /\ LocalsInv /\ MutexInv /\ RemoteCallsExclusive /\ HandlerIsCallers
  <1>1. Init => IInv
    <2> SUFFICES ASSUME Init PROVE IInv
      OBVIOUS
    <2>1. \A t \in Tasks : task[t].pc = "idle"
      BY DEF Init, IdleTask
    <2>2. \A u \in Updaters : updater[u].pc = "idle"
      BY DEF Init, IdleUpdater
    <2>3. LocalsInv
      BY SMTT(60), <2>1, <2>2 DEF Init, LocalsInv
    <2>4. MutexInv /\ RemoteCallsExclusive /\ HandlerIsCallers
      BY <2>1 DEF Init, MutexInv, InRemote, RemoteCallsExclusive, HandlerIsCallers
    <2> QED
      BY <2>3, <2>4, InitType
  <1>2. IInv /\ [Next]_vars => IInv'
    BY TypeStep, LocalsStep, MutexStep, HandlerStep
  <1> QED
    BY <1>1, <1>2, PTL DEF Spec

\* remote_call and remote_strcall never execute in a storage machine at once,
\* for any number of forks, updates and exceptions.
THEOREM RemoteExclusion == Spec => []RemoteCallsExclusive
  BY Safety, PTL

\* A remote_call runs with its own caller's page fault handler, whichever forks
\* have called before it, ended, or wait for the mutex.
THEOREM OwnHandler == Spec => []HandlerIsCallers
  BY Safety, PTL

-----------------------------------------------------------------------------
(* The state transfer of an update that no other update overlaps.          *)

\* Remote calls add writes to a storage and never make its contents specified
\* again.
LEMMA TaskStepGrows ==
    ASSUME TypeOK, LocalsInv, NEW t \in Tasks, TaskStep(t)
    PROVE  /\ \A i \in Inst : storage[i] \subseteq storage'[i]
           /\ tainted \subseteq tainted'
           /\ updater' = updater
  <1>1. tainted \subseteq tainted' /\ updater' = updater
    BY
    DEF TaskStep, Fork, RemoteCall, RemoteStrcall, EnterStorage, NestedCall, RemoteReturn,
        RemoteFails, LeaveStorage, End
  <1>2. \/ storage' = storage
        \/ storage' = [storage EXCEPT ![task[t].m_inst] = @ \cup {t}]
    BY
    DEF TaskStep, Fork, RemoteCall, RemoteStrcall, EnterStorage, NestedCall, RemoteReturn,
        RemoteFails, LeaveStorage, End
  <1> QED
    BY <1>1, <1>2 DEF TypeOK

\* When updates do not overlap, the only writes to be brought over are the ones
\* in the program's storage.
LEMMA ExchangeTransfer ==
    ASSUME TypeOK, LocalsInv, TransferInv, TransferCarriesState,
           \A u, v \in Updaters : u = v,
           NEW u \in Updaters, Exchange(u)
    PROVE  TransferInv' /\ TransferCarriesState'
  <1>1. Completed(program) = storage[program]
    <2>1. {w \in Updaters : updater[w].inst = program /\ updater[w].pc # "return"} = {}
      <3>1. updater[u].inst = NoInst /\ NoInst # program
        BY SMTT(60), StorageAssumption DEF Exchange, TransferInv, TypeOK, Inst
      <3> QED
        BY <3>1
    <2> QED
      BY <2>1 DEF Completed
  <1>2. /\ updater'[u].pc = AfterSwap(program, made + 1)
        /\ updater'[u].inst = made + 1 /\ updater'[u].old = program
        /\ updater'[u].before = storage[program]
    BY <1>1 DEF Exchange, TypeOK
  <1>3. storage' = storage
    BY DEF Exchange
  <1>4. \A v \in Updaters : v = u
    OBVIOUS
  <1>5. AfterSwap(program, made + 1) \in {"serialize", "return"}
    BY DEF AfterSwap
  <1>6. TransferInv'
    BY <1>2, <1>3, <1>4, <1>5 DEF TransferInv
  <1>7. TransferCarriesState'
    <2>1. updater'[u].pc = "return" => AfterSwap(updater'[u].old, updater'[u].inst) # "serialize"
      BY <1>2
    <2> QED
      BY <1>4, <2>1 DEF TransferCarriesState
  <1> QED
    BY <1>6, <1>7

\* Each step of the transfer hands the writes on, or leaves a mark that they
\* are lost.
LEMMA UpdateStepTransfer ==
    ASSUME TypeOK, LocalsInv, TransferInv, TransferCarriesState,
           \A u, v \in Updaters : u = v,
           NEW u \in Updaters, UpdateStep(u)
    PROVE  TransferInv' /\ TransferCarriesState'
  <1> DEFINE r == updater[u]
             n == updater'[u]
  <1>1. \A v \in Updaters : v = u
    OBVIOUS
  <1>2. SUFFICES
          /\ n.pc = "idle" => n.inst = NoInst
          /\ n.pc \in {"serialize", "serializing"} => n.before \subseteq storage'[n.old]
          /\ n.pc \in {"copy", "resuming"} => Garbage \in n.ser \/ n.before \subseteq n.ser
          /\ (/\ n.pc = "return" /\ n.result = "ok" /\ n.inst \notin tainted')
               => n.before \subseteq storage'[n.inst]
    BY <1>1, <1>2 DEF TransferInv, TransferCarriesState
  <1>3. CASE SerializeEnter(u)
    <2>1. /\ n.pc = "serializing" /\ n.before = r.before /\ n.old = r.old /\ storage' = storage
          /\ r.pc = "serialize"
      BY <1>3 DEF SerializeEnter, Goto, TypeOK, UpdaterType
    <2> QED
      BY <2>1 DEF TransferInv
  <1>4. CASE SerializeReturn(u)
    <2>1. /\ r.pc = "serializing" /\ n.pc = "copy" /\ n.before = r.before
          /\ n.ser \in {storage[r.old], {Garbage}}
      BY SMTT(60), <1>4 DEF SerializeReturn, TypeOK, UpdaterType
    <2> QED
      BY <2>1 DEF TransferInv
  <1>5. CASE CopyState(u)
    <2>1. /\ r.pc = "copy" /\ n.pc = "resuming" /\ n.before = r.before
          /\ n.ser \in {r.ser, {Garbage}}
      BY <1>5 DEF CopyState, Copied, TypeOK, UpdaterType
    <2> QED
      BY <2>1 DEF TransferInv
  <1>6. CASE CopyThrows(u)
    <2>1. n.pc = "return" /\ n.result # "ok"
      <3>1. Answer(u, "machine_exception") \/ Answer(u, "not_applied")
        BY <1>6 DEF CopyThrows
      <3>2. CASE Answer(u, "machine_exception")
        BY SMTT(60), <3>2, AnswerEffect
      <3>3. CASE Answer(u, "not_applied")
        BY SMTT(60), <3>3, AnswerEffect
      <3> QED
        BY <3>1, <3>2, <3>3
    <2> QED
      BY <2>1
  <1>7. CASE ResumeReturn(u)
    <2>1. r.inst \in Inst
      BY <1>7, Numbers DEF ResumeReturn, LocalsInv, TypeOK
    <2>2. /\ r.pc = "resuming" /\ n.pc = "return" /\ n.before = r.before /\ n.inst = r.inst
          /\ Garbage \notin r.ser /\ storage'[r.inst] = r.ser
      BY <1>7, <2>1 DEF ResumeReturn, Goto, Intact, Restored, TypeOK, UpdaterType
    <2> QED
      BY <2>2 DEF TransferInv
  <1>8. CASE ResumeFaults(u)
    <2>1. n.pc = "return" /\ n.inst = r.inst /\ r.inst \in tainted'
      BY <1>8 DEF ResumeFaults, Goto, TypeOK, UpdaterType
    <2> QED
      BY <2>1
  <1>9. CASE Return(u)
    <2>1. n.pc = "idle" /\ n.inst = NoInst
      BY <1>9 DEF Return, IdleUpdater, TypeOK
    <2> QED
      BY <2>1
  <1> QED
    BY <1>3, <1>4, <1>5, <1>6, <1>7, <1>8, <1>9 DEF UpdateStep

\* When live updates of a tenant do not overlap, a transfer that answers success
\* has carried every write that was complete at the exchange into the new
\* storage, however remote calls interleave with it, unless a fault or a race
\* spoilt one of the two machines.
THEOREM SoloTransfer ==
    ASSUME \A u, v \in Updaters : u = v
    PROVE  Spec => []TransferCarriesState
  <1>1. Init => TransferInv /\ TransferCarriesState
    <2> SUFFICES ASSUME Init PROVE TransferInv /\ TransferCarriesState
      OBVIOUS
    <2>1. \A u \in Updaters : updater[u].pc = "idle" /\ updater[u].inst = NoInst
      BY DEF Init, IdleUpdater
    <2> QED
      BY <2>1 DEF TransferInv, TransferCarriesState
  <1>2. TypeOK /\ LocalsInv /\ TransferInv /\ TransferCarriesState /\ [Next]_vars
          => TransferInv' /\ TransferCarriesState'
    <2> SUFFICES ASSUME TypeOK, LocalsInv, TransferInv, TransferCarriesState, [Next]_vars
                 PROVE  TransferInv' /\ TransferCarriesState'
      OBVIOUS
    <2>1. CASE UNCHANGED vars
      BY <2>1 DEF vars, TransferInv, TransferCarriesState
    <2>2. ASSUME NEW t \in Tasks, TaskStep(t) PROVE TransferInv' /\ TransferCarriesState'
      <3>1. /\ \A i \in Inst : storage[i] \subseteq storage'[i]
            /\ tainted \subseteq tainted' /\ updater' = updater
        BY <2>2, TaskStepGrows
      <3>2. \A u \in Updaters : updater[u].pc # "idle" =>
               updater[u].old \in Inst /\ updater[u].inst \in Inst
        BY Numbers DEF LocalsInv, TypeOK
      <3>3. TransferInv'
        BY <3>1, <3>2 DEF TransferInv
      <3>4. TransferCarriesState'
        <4> SUFFICES ASSUME NEW u \in Updaters,
                            updater[u].pc = "return", updater[u].result = "ok",
                            AfterSwap(updater[u].old, updater[u].inst) = "serialize",
                            {updater[u].old, updater[u].inst} \cap tainted' = {}
                     PROVE  updater[u].before \subseteq storage'[updater[u].inst]
          BY <3>1 DEF TransferCarriesState
        <4>1. updater[u].before \subseteq storage[updater[u].inst]
          BY <3>1 DEF TransferCarriesState
        <4>2. updater[u].inst \in Inst
          BY <3>2
        <4> QED
          BY <3>1, <4>1, <4>2
      <3> QED
        BY <3>3, <3>4
    <2> QED
      BY <2>1, <2>2, ExchangeTransfer, UpdateStepTransfer DEF Next
  <1> QED
    BY <1>1, <1>2, Safety, PTL DEF Spec
=============================================================================
