------------------------- MODULE RequestTaskProofs -------------------------
(***************************************************************************)
(* Proofs about RequestTask, for any number of tasks, programs, functions, *)
(* methods and nested signal handlers.                                     *)
(***************************************************************************)
EXTENDS RequestTask, TLAPS

\* A leaf is left to the SMT solver, unless it names another prover.
USE SMTT(60)

\* The Script of a task whose guest runs exists.
RunningInv == \A t \in Tasks : GuestRuns(t) => script[t] # NoScript

\* The invariant that the theorems rest on.
IInv == TypeOK /\ RunningInv /\ CalledCtxLive

\* What holds of the Script s of a task, whose guest runs as r says, in method m.
Good(s, r, m) ==
    /\ s \in ScriptType \cup {NoScript}
    /\ r \in RunType
    /\ m \in 0 .. MaxMethods
    /\ r.at \in {"call", "resume"} => s # NoScript
    /\ r.at = "call" => s.m_ctx = m

\* The invariant speaks of one task at a time: a step that leaves one task in
\* order, and the others alone, keeps it.
LEMMA OneTask ==
    ASSUME IInv, NEW t \in Tasks, NEW s, NEW r, NEW m, Good(s, r, m),
           script' = [script EXCEPT ![t] = s],
           run' = [run EXCEPT ![t] = r],
           method' = [method EXCEPT ![t] = m],
           failed' \in [Tasks -> BOOLEAN],
           table' \in [Programs -> [Entries -> [func : MaybeFunc, by : Tasks \cup {Master}]]]
    PROVE  IInv'
  <1>1. /\ script' \in [Tasks -> ScriptType \cup {NoScript}]
        /\ run' \in [Tasks -> RunType]
        /\ method' \in [Tasks -> 0 .. MaxMethods]
    BY DEF IInv, TypeOK, Good
  <1>2. /\ script'[t] = s /\ run'[t] = r /\ method'[t] = m
        /\ \A x \in Tasks \ {t} :
             script'[x] = script[x] /\ run'[x] = run[x] /\ method'[x] = method[x]
    BY DEF IInv, TypeOK
  <1>3. TypeOK'
    BY <1>1 DEF TypeOK
  <1>4. RunningInv' /\ CalledCtxLive'
    BY <1>2 DEF IInv, RunningInv, GuestRuns, CalledCtxLive, Good
  <1> QED
    BY <1>3, <1>4 DEF IInv

\* A task in an invariant state is in order.
LEMMA TaskGood ==
    ASSUME IInv, NEW t \in Tasks
    PROVE  /\ Good(script[t], run[t], method[t])
           /\ script = [script EXCEPT ![t] = script[t]]
           /\ run = [run EXCEPT ![t] = run[t]]
           /\ method = [method EXCEPT ![t] = method[t]]
  <1>1. Good(script[t], run[t], method[t])
    BY DEF IInv, TypeOK, RunningInv, GuestRuns, CalledCtxLive, Good
  <1> QED
    BY <1>1 DEF IInv, TypeOK

\* The invariant asks of a Script only its ctx.
LEMMA GoodFields ==
    ASSUME NEW s, NEW r, NEW m, Good(s, r, m), s # NoScript,
           NEW n \in ScriptType, NEW q \in RunType,
           q.at = r.at \/ q.at = "vcl",
           n.m_ctx = s.m_ctx
    PROVE  Good(n, q, m)
  BY ScriptAssumption DEF Good

\* Initially no task has a Script.
LEMMA InitInv == Init => IInv
  <1> SUFFICES ASSUME Init PROVE IInv
    OBVIOUS
  <1>1. InVcl \in RunType
    BY TaskAssumption DEF InVcl, RunType, MaybeFunc
  <1>2. TypeOK
    BY <1>1, TaskAssumption DEF Init, Registered, TypeOK
  <1>3. RunningInv /\ CalledCtxLive
    BY DEF Init, RunningInv, GuestRuns, CalledCtxLive, InVcl
  <1> QED
    BY <1>2, <1>3 DEF IInv

\* The steps of VCL.
LEMMA VclStepInv ==
    ASSUME IInv, NEW t \in Tasks, VclStep(t)
    PROVE  IInv'
  <1> DEFINE s == script[t]
             r == run[t]
             m == method[t]
  <1>0. /\ Good(s, r, m)
        /\ script = [script EXCEPT ![t] = s]
        /\ run = [run EXCEPT ![t] = r]
        /\ method = [method EXCEPT ![t] = m]
    BY TaskGood
  <1>t. /\ failed \in [Tasks -> BOOLEAN]
        /\ table \in [Programs -> [Entries -> [func : MaybeFunc, by : Tasks \cup {Master}]]]
    BY DEF IInv, TypeOK
  <1>m. MaxMethods \in Nat
    BY TaskAssumption
  <1>1. CASE EnterMethod(t)
    <2>1. Good(s, r, m + 1)
      BY <1>0, <1>1, <1>m DEF EnterMethod, Good
    <2> QED
      BY ZenonT(60), <1>0, <1>t, <1>1, <2>1, OneTask DEF EnterMethod
  <1>2. CASE EndTask(t)
    <2>1. Good(NoScript, r, 0)
      BY <1>0, <1>2, <1>m DEF EndTask, Good
    <2> QED
      BY ZenonT(60), <1>0, <1>t, <1>2, <2>1, OneTask DEF EndTask
  <1>3. ASSUME NEW p \in Programs, Fork(t, p) PROVE IInv'
    <2>1. PICK h \in MaybeFunc : script' = [script EXCEPT ![t] = Vmfork(t, p, h)]
      BY ZenonT(60), <1>3 DEF Fork, MaybeFunc
    <2>2. Vcl(t) /\ UNCHANGED <<method, failed, run, table>>
      BY <1>3 DEF Fork
    <2>3. Forked(t, p, h) \in ScriptType
      BY <1>0, <1>m, <2>2 DEF Vcl, Forked, ScriptType, Good
    <2>4. Good(Forked(t, p, h), r, m)
      BY <1>0, <2>2, <2>3 DEF Vcl, Forked, Good
    <2>5. Good(Vmfork(t, p, h), r, m)
      BY <1>0, <2>4 DEF Vmfork
    <2> QED
      BY ZenonT(60), <1>0, <1>t, <2>1, <2>2, <2>5, OneTask
  <1>4. CASE ForkFails(t) \/ CallRefused(t)
    <2>1. failed' \in [Tasks -> BOOLEAN] /\ UNCHANGED <<script, run, method, table>>
      BY ZenonT(60), <1>t, <1>4 DEF ForkFails, CallRefused
    <2>2. /\ script' = [script EXCEPT ![t] = s]
          /\ run' = [run EXCEPT ![t] = r]
          /\ method' = [method EXCEPT ![t] = m]
          /\ table' \in [Programs -> [Entries -> [func : MaybeFunc, by : Tasks \cup {Master}]]]
      BY <1>0, <1>t, <2>1
    <2> HIDE DEF s, r, m
    <2> QED
      BY ZenonT(60), <1>0, <2>1, <2>2, OneTask
  <1>5. ASSUME NEW e \in Entries, CallEntry(t, e) PROVE IInv'
    <2> DEFINE from == table[script[t].program][e].by
               n == [at |-> "call", outer |-> NoFunc, depth |-> 0, from |-> from]
    <2>1. s \in ScriptType /\ m > 0 /\ r.at = "vcl"
      BY <1>0, <1>5 DEF CallEntry, Vcl, Good
    <2>2. n \in RunType
      BY <1>t, <2>1, TaskAssumption DEF RunType, ScriptType, MaybeFunc
    <2>3. CalledScript(t) \in ScriptType /\ CalledScript(t) = [s EXCEPT !.m_ctx = m]
      BY <1>0, <1>m, <2>1 DEF CalledScript, ScriptType, Good
    <2> DEFINE c == CalledScript(t)
    <2>4. /\ c.m_ctx = m /\ s # NoScript /\ c # NoScript
      BY <1>5, <2>1, <2>3, ScriptAssumption DEF CallEntry, ScriptType
    <2> HIDE DEF c
    <2>6. Good(c, r, m) /\ Good(c, n, m)
      BY <1>0, <2>1, <2>2, <2>3, <2>4 DEF Good, c
    <2>5. run' = [run EXCEPT ![t] = r] \/ run' = [run EXCEPT ![t] = n]
      BY <1>0, <1>5 DEF CallEntry, GuestStarts
    <2>7. /\ script' = [script EXCEPT ![t] = c]
          /\ method' = [method EXCEPT ![t] = m]
          /\ failed' \in [Tasks -> BOOLEAN]
          /\ table' \in [Programs -> [Entries -> [func : MaybeFunc, by : Tasks \cup {Master}]]]
      BY ZenonT(60), <1>0, <1>t, <1>5 DEF CallEntry, c
    <2> HIDE DEF n, s, r, m
    <2> QED
      BY ZenonT(60), <2>5, <2>6, <2>7, OneTask
  <1>6. CASE Resume(t)
    <2> DEFINE n == [at |-> "resume", outer |-> NoFunc, depth |-> 0, from |-> Master]
    <2>1. n \in RunType
      BY TaskAssumption DEF RunType, MaybeFunc
    <2>2. Good(s, n, m)
      <3>1. n.at = "resume" /\ s # NoScript
        BY <1>6 DEF Resume
      <3> HIDE DEF n
      <3> QED
        BY <1>0, <2>1, <3>1 DEF Good
    <2>3. run' = [run EXCEPT ![t] = r] \/ run' = [run EXCEPT ![t] = n]
      BY <1>0, <1>6 DEF Resume, GuestStarts
    <2> QED
      BY <1>0, <1>t, <1>6, <2>2, <2>3, OneTask DEF Resume
  <1> QED
    BY <1>1, <1>2, <1>3, <1>4, <1>5, <1>6 DEF VclStep

\* Going back to VCL with a Script in order leaves the task in order.
LEMMA BackInv ==
    ASSUME IInv, NEW t \in Tasks, NEW s \in ScriptType,
           Good(s, run[t], method[t]), BackToVcl(t, s), UNCHANGED <<method, table>>,
           failed' \in [Tasks -> BOOLEAN]
    PROVE  IInv'
  <1> DEFINE n == IF Handling(t) THEN [s EXCEPT !.sighandler = run[t].outer] ELSE s
  <1>1. run[t] \in RunType /\ InVcl \in RunType
    BY TaskAssumption DEF Good, InVcl, RunType, MaybeFunc
  <1>2. n \in ScriptType
    BY <1>1 DEF ScriptType, RunType
  <1>3. Good(n, InVcl, method[t])
    <2>1. n.m_ctx = s.m_ctx
      BY DEF ScriptType
    <2>2. InVcl.at = "vcl" /\ s # NoScript
      BY ScriptAssumption DEF InVcl
    <2> HIDE DEF n
    <2> QED
      BY <1>1, <1>2, <2>1, <2>2, GoodFields
  <1>4. script' = [script EXCEPT ![t] = n] /\ run' = [run EXCEPT ![t] = InVcl]
    BY DEF BackToVcl
  <1>5. method' = [method EXCEPT ![t] = method[t]] /\
        table' \in [Programs -> [Entries -> [func : MaybeFunc, by : Tasks \cup {Master}]]]
    BY TaskGood DEF IInv, TypeOK
  <1> HIDE DEF n
  <1> QED
    BY ZenonT(60), <1>3, <1>4, <1>5, OneTask

\* A handler that is taken leaves the record of a task well-typed.
LEMMA NestedType ==
    ASSUME NEW r \in RunType, NEW h \in MaybeFunc, NEW d \in 0 .. MaxNest
    PROVE  /\ [r EXCEPT !.outer = h, !.depth = d] \in RunType
           /\ [r EXCEPT !.outer = h, !.depth = d].at = r.at
  <1>1. [r EXCEPT !.outer = h, !.depth = d] \in RunType
    BY ZenonT(60) DEF RunType
  <1>2. [r EXCEPT !.outer = h, !.depth = d].at = r.at
    BY ZenonT(60) DEF RunType
  <1> QED
    BY <1>1, <1>2

\* The steps of a guest.
LEMMA GuestStepInv ==
    ASSUME IInv, NEW t \in Tasks, GuestCall(t) \/ GuestStops(t)
    PROVE  IInv'
  <1> DEFINE s == script[t]
             r == run[t]
             m == method[t]
  <1>0. /\ Good(s, r, m)
        /\ script = [script EXCEPT ![t] = s]
        /\ run = [run EXCEPT ![t] = r]
        /\ method = [method EXCEPT ![t] = m]
    BY TaskGood
  <1>t. /\ failed \in [Tasks -> BOOLEAN]
        /\ table \in [Programs -> [Entries -> [func : MaybeFunc, by : Tasks \cup {Master}]]]
    BY DEF IInv, TypeOK
  <1>s. GuestRuns(t) /\ s \in ScriptType /\ s # NoScript /\ r \in RunType
    <2>1. GuestRuns(t)
      BY ZenonT(60)
      DEF GuestCall, GuestStops, Register, Signal, GuestReturns, Decides, BackendDecides,
          ResumeTimesOut, CallTimesOut, FaultEnds, FaultHandled, FaultEscapes, ProcessEnds,
          GuestRuns
    <2> QED
      BY <1>0, <2>1 DEF Good, GuestRuns
  <1>f. /\ FailCtx(t) => failed' \in [Tasks -> BOOLEAN]
        /\ ReadResult(t) => failed' \in [Tasks -> BOOLEAN]
    BY ZenonT(60), <1>t DEF FailCtx, ReadResult
  <1>1. ASSUME NEW e \in Entries, NEW f \in MaybeFunc, Register(t, e, f) PROVE IInv'
    <2>1. table' \in [Programs -> [Entries -> [func : MaybeFunc, by : Tasks \cup {Master}]]]
      BY ZenonT(60), <1>t, <1>1 DEF Register
    <2> QED
      BY <1>0, <1>t, <1>1, <2>1, OneTask DEF Register
  <1>2. ASSUME NEW h \in MaybeFunc, Signal(t, h) PROVE IInv'
    <2> DEFINE n == [s EXCEPT !.sighandler = h]
    <2>1. n \in ScriptType /\ n.m_ctx = s.m_ctx
      BY <1>s DEF ScriptType
    <2>2. script' = [script EXCEPT ![t] = n]
      BY <1>2 DEF Signal
    <2> HIDE DEF n
    <2>3. Good(n, r, m)
      BY <1>0, <1>s, <2>1, GoodFields
    <2>4. /\ run' = [run EXCEPT ![t] = r]
          /\ method' = [method EXCEPT ![t] = m]
          /\ failed' \in [Tasks -> BOOLEAN]
          /\ table' \in [Programs -> [Entries -> [func : MaybeFunc, by : Tasks \cup {Master}]]]
      BY <1>0, <1>t, <1>2 DEF Signal
    <2> HIDE DEF s, r, m
    <2> QED
      BY ZenonT(60), <2>2, <2>3, <2>4, OneTask
  <1>3. CASE GuestReturns(t)
    <2> DEFINE n == [s EXCEPT !.guest = "done"]
    <2>1. n \in ScriptType /\ n.m_ctx = s.m_ctx
      BY <1>s DEF ScriptType
    <2>2. BackToVcl(t, n) /\ failed' \in [Tasks -> BOOLEAN] /\ UNCHANGED <<method, table>>
      BY <1>3, <1>f DEF GuestReturns
    <2> HIDE DEF n
    <2>3. Good(n, r, m)
      BY <1>0, <1>s, <2>1, GoodFields
    <2> QED
      BY <2>1, <2>2, <2>3, BackInv
  <1>4. ASSUME NEW kind \in {"vcl", "backend", "compute"}, NEW p \in BOOLEAN
        PROVE  /\ Decided(s, kind, p) \in ScriptType
               /\ Good(Decided(s, kind, p), r, m)
    <2> DEFINE n == Decided(s, kind, p)
    <2>1. n \in ScriptType /\ n.m_ctx = s.m_ctx
      BY ZenonT(60), <1>s DEF Decided, ScriptType
    <2> HIDE DEF n
    <2>2. Good(n, r, m)
      BY <1>0, <1>s, <2>1, GoodFields
    <2> QED
      BY <2>1, <2>2 DEF n
  <1>5. ASSUME NEW p \in BOOLEAN, Decides(t, p) PROVE IInv'
    BY <1>4, <1>5, <1>f, BackInv DEF Decides
  <1>6. ASSUME NEW kind \in {"backend", "compute"}, BackendDecides(t, kind) PROVE IInv'
    BY ZenonT(60), <1>4, <1>6, <1>f, BackInv DEF BackendDecides
  <1>7. CASE CallTimesOut(t) \/ FaultEnds(t)
    <2> DEFINE n == [s EXCEPT !.guest = "dead"]
    <2>1. n \in ScriptType /\ n.m_ctx = s.m_ctx
      BY <1>s DEF ScriptType
    <2>2. BackToVcl(t, n) /\ failed' \in [Tasks -> BOOLEAN] /\ UNCHANGED <<method, table>>
      BY <1>7, <1>f DEF CallTimesOut, FaultEnds
    <2> HIDE DEF n
    <2>3. Good(n, r, m)
      BY <1>0, <1>s, <2>1, GoodFields
    <2> QED
      BY <2>1, <2>2, <2>3, BackInv
  <1>8. CASE FaultHandled(t)
    <2> DEFINE n == [s EXCEPT !.sighandler = NoFunc]
               q == Nested(t)
    <2>0. r.depth + 1 \in 0 .. MaxNest
      BY <1>s, <1>8, TaskAssumption DEF FaultHandled, RunType
    <2>1. q \in RunType /\ q.at = r.at
      <3>1. PICK h \in MaybeFunc : h = IF Handling(t) THEN r.outer ELSE s.sighandler
        BY <1>s DEF ScriptType, RunType
      <3>2. q = [r EXCEPT !.outer = h, !.depth = r.depth + 1]
        BY ZenonT(60), <3>1 DEF Nested
      <3>3. PICK d \in 0 .. MaxNest : d = r.depth + 1
        BY <2>0
      <3>4. q = [r EXCEPT !.outer = h, !.depth = d] /\ r \in RunType
        BY ZenonT(60), <1>s, <3>2, <3>3
      <3> HIDE DEF q, r, s
      <3> QED
        BY ZenonT(60), <3>4, NestedType
    <2>2. n \in ScriptType /\ n.m_ctx = s.m_ctx
      BY <1>s DEF ScriptType, MaybeFunc
    <2>3. script' = [script EXCEPT ![t] = n] /\ run' = [run EXCEPT ![t] = q]
      BY ZenonT(60), <1>8 DEF FaultHandled
    <2>4. failed' \in [Tasks -> BOOLEAN] /\ UNCHANGED <<method, table>>
      BY <1>8, <1>f DEF FaultHandled
    <2> HIDE DEF n, q
    <2>5. Good(n, q, m)
      BY <1>0, <1>s, <2>1, <2>2, GoodFields
    <2> QED
      BY ZenonT(60), <1>0, <1>t, <2>3, <2>4, <2>5, OneTask
  <1>9. CASE ResumeTimesOut(t)
    <2> DEFINE n == [s EXCEPT !.guest = "cut"]
    <2>1. n \in ScriptType /\ n.m_ctx = s.m_ctx
      BY <1>s DEF ScriptType
    <2>2. BackToVcl(t, n) /\ failed' \in [Tasks -> BOOLEAN] /\ UNCHANGED <<method, table>>
      BY <1>9, <1>f DEF ResumeTimesOut
    <2> HIDE DEF n
    <2>3. Good(n, r, m)
      BY <1>0, <1>s, <2>1, GoodFields
    <2> QED
      BY <2>1, <2>2, <2>3, BackInv
  <1>10. CASE FaultEscapes(t)
    <2> DEFINE n == [s EXCEPT !.guest = "dead"]
    <2>1. n \in ScriptType /\ n.m_ctx = s.m_ctx
      BY <1>s DEF ScriptType
    <2>2. script' = [script EXCEPT ![t] = n] /\ run' = [run EXCEPT ![t] = InVcl]
      BY <1>10 DEF FaultEscapes
    <2>3. failed' \in [Tasks -> BOOLEAN] /\ UNCHANGED <<method, table>>
      BY ZenonT(60), <1>10, <1>t DEF FaultEscapes
    <2>4. InVcl \in RunType /\ InVcl.at = "vcl"
      BY TaskAssumption DEF InVcl, RunType, MaybeFunc
    <2> HIDE DEF n
    <2>5. Good(n, InVcl, m)
      BY <1>0, <1>s, <2>1, <2>4, GoodFields
    <2> QED
      BY ZenonT(60), <1>0, <1>t, <2>2, <2>3, <2>5, OneTask
  <1>11. CASE ProcessEnds(t)
    <2>1. InVcl \in RunType /\ InVcl.at = "vcl"
      BY TaskAssumption DEF InVcl, RunType, MaybeFunc
    <2>2. /\ 0 \in 0 .. MaxMethods
          /\ table' \in [Programs -> [Entries -> [func : MaybeFunc, by : Tasks \cup {Master}]]]
      BY <1>11, TaskAssumption DEF ProcessEnds, Registered
    <2>3. TypeOK'
      BY ZenonT(60), <1>11, <2>1, <2>2 DEF ProcessEnds, TypeOK
    <2> QED
      BY ZenonT(60), <1>11, <2>1, <2>3 DEF ProcessEnds, IInv, RunningInv, GuestRuns, CalledCtxLive
  <1> QED
    BY <1>1, <1>2, <1>3, <1>5, <1>6, <1>7, <1>8, <1>9, <1>10, <1>11 DEF GuestCall, GuestStops

\* Every step keeps the invariant.
LEMMA NextInv == IInv /\ [Next]_vars => IInv'
  <1> SUFFICES ASSUME IInv, [Next]_vars PROVE IInv'
    OBVIOUS
  <1>1. CASE UNCHANGED vars
    BY <1>1 DEF vars, IInv, TypeOK, RunningInv, GuestRuns, CalledCtxLive
  <1> QED
    BY <1>1, VclStepInv, GuestStepInv DEF Next

\* So the invariant holds throughout.
LEMMA Invariance == Spec => []IInv
  BY InitInv, NextInv, PTL DEF Spec

-----------------------------------------------------------------------------
\* Every state is well-typed.
THEOREM TypeCorrect == Spec => []TypeOK
  <1>1. IInv => TypeOK
    BY DEF IInv
  <1> QED
    BY <1>1, Invariance, PTL

\* riscv_call_idx and riscv_current_call: a called function, and the signal
\* handler that a fault in it runs, have the ctx of the method that called.
THEOREM CalledWithCtx == Spec => []CalledCtxLive
  <1>1. IInv => CalledCtxLive
    BY DEF IInv
  <1> QED
    BY <1>1, Invariance, PTL

\* A called function that has faulted has failed its method.
FailedInv == \A t \in Tasks : run[t].at = "call" /\ Handling(t) => failed[t]

\* VRT_fail on the ctx that a called function runs with fails its method.
LEMMA CallFails ==
    ASSUME IInv, NEW t \in Tasks, run[t].at = "call", FailCtx(t)
    PROVE  failed'[t]
  <1>1. script[t].m_ctx = method[t] /\ failed \in [Tasks -> BOOLEAN]
    BY DEF IInv, CalledCtxLive, TypeOK
  <1> QED
    BY ZenonT(60), <1>1 DEF FailCtx

\* What a step does to a task in which a handler runs, or that it ends.
LEMMA FailedStep ==
    ASSUME IInv, FailedInv, Next, NEW x \in Tasks
    PROVE  /\ run'[x].at = "call" /\ run'[x].outer # NoFunc => failed'[x]
           /\ (/\ run[x].at = "call" /\ run'[x].at = "vcl" /\ script'[x] # NoScript
               /\ Handling(x) \/ script'[x].guest = "dead") => failed'[x]
  <1> DEFINE Goal == /\ run'[x].at = "call" /\ run'[x].outer # NoFunc => failed'[x]
                     /\ (/\ run[x].at = "call" /\ run'[x].at = "vcl" /\ script'[x] # NoScript
                         /\ Handling(x) \/ script'[x].guest = "dead") => failed'[x]
  <1>1. PICK t \in Tasks : VclStep(t) \/ GuestCall(t) \/ GuestStops(t)
    BY ZenonT(60) DEF Next
  <1>t. /\ failed \in [Tasks -> BOOLEAN] /\ run \in [Tasks -> RunType]
        /\ script \in [Tasks -> ScriptType \cup {NoScript}]
        /\ (GuestRuns(t) => script[t] \in ScriptType)
    BY ZenonT(60) DEF IInv, TypeOK, RunningInv
  <1>v. InVcl.at = "vcl" /\ InVcl.outer = NoFunc
    BY DEF InVcl
  <1>2. ASSUME NEW r, run' = [run EXCEPT ![t] = r], NEW f, failed' = [failed EXCEPT ![t] = f],
               r.at = "call" /\ r.outer # NoFunc => f,
               (/\ run[t].at = "call" /\ r.at = "vcl" /\ script'[t] # NoScript
                /\ Handling(t) \/ script'[t].guest = "dead") => f
        PROVE  Goal
    <2>1. CASE x = t
      BY ZenonT(60), <1>2, <1>t, <2>1
    <2>2. CASE x # t
      BY ZenonT(60), <1>2, <1>t, <2>2 DEF FailedInv, Handling
    <2> QED
      BY ZenonT(60), <2>1, <2>2
  <1> HIDE DEF Goal
  <1> SUFFICES Goal
    BY DEF Goal
  <1>3. CASE ProcessEnds(t)
    BY ZenonT(60), <1>3, <1>v DEF ProcessEnds, Goal
  <1>4. run = [run EXCEPT ![t] = run[t]] /\ failed = [failed EXCEPT ![t] = failed[t]]
    BY <1>t
  <1>5. ASSUME NEW r, run' = [run EXCEPT ![t] = r], run[t].at = "vcl",
               r.at = "vcl" \/ r.outer = NoFunc,
               NEW f, failed' = [failed EXCEPT ![t] = f]
        PROVE  Goal
    BY ZenonT(60), <1>2, <1>5
  <1>6. CASE VclStep(t)
    <2>1. run[t].at = "vcl"
      BY ZenonT(60), <1>6
      DEF VclStep, EnterMethod, EndTask, Fork, ForkFails, CallEntry, CallRefused, Resume, Vcl
    <2>2. \E r : run' = [run EXCEPT ![t] = r] /\ (r.at = "vcl" \/ r.outer = NoFunc)
      <3>1. ASSUME NEW at, NEW from
            PROVE  [at |-> at, outer |-> NoFunc, depth |-> 0, from |-> from].outer = NoFunc
        OBVIOUS
      <3>2. ASSUME NEW at, NEW from, GuestStarts(t, at, from)
            PROVE  \E r : run' = [run EXCEPT ![t] = r] /\ (r.at = "vcl" \/ r.outer = NoFunc)
        BY ZenonT(60), <1>4, <2>1, <3>1, <3>2 DEF GuestStarts
      <3>3. CASE run' = run
        BY ZenonT(60), <1>4, <2>1, <3>3
      <3> QED
        BY ZenonT(60), <1>6, <3>2, <3>3
        DEF VclStep, EnterMethod, EndTask, Fork, ForkFails, CallEntry, CallRefused, Resume
    <2>3. \E f : failed' = [failed EXCEPT ![t] = f]
      BY ZenonT(60), <1>4, <1>6
      DEF VclStep, EnterMethod, EndTask, Fork, ForkFails, CallEntry, CallRefused, Resume
    <2> QED
      BY ZenonT(60), <1>5, <2>1, <2>2, <2>3
  <1>7. CASE GuestCall(t)
    <2>1. UNCHANGED <<run, failed>>
      BY ZenonT(60), <1>7 DEF GuestCall, Register, Signal
    <2>2. /\ run[t].at = "call" /\ run[t].outer # NoFunc => failed[t]
          /\ ~(run[t].at = "call" /\ run[t].at = "vcl")
      BY DEF FailedInv, Handling
    <2> QED
      BY ZenonT(60), <1>2, <1>4, <2>1, <2>2
  <1>8. ASSUME NEW s \in ScriptType, BackToVcl(t, s), s.guest # "dead", ReadResult(t)
        PROVE  Goal
    <2> DEFINE n == IF Handling(t) THEN [s EXCEPT !.sighandler = run[t].outer] ELSE s
    <2>1. n.guest # "dead"
      BY <1>8 DEF ScriptType
    <2>2. script' = [script EXCEPT ![t] = n] /\ run' = [run EXCEPT ![t] = InVcl]
      BY ZenonT(60), <1>8 DEF BackToVcl
    <2> HIDE DEF n
    <2>3. script'[t].guest # "dead"
      BY ZenonT(60), <1>t, <2>1, <2>2
    <2>4. \E f : failed' = [failed EXCEPT ![t] = f] /\ (failed[t] => f)
      BY ZenonT(60), <1>4, <1>8 DEF ReadResult
    <2>5. run[t].at = "call" /\ Handling(t) => failed[t]
      BY ZenonT(60) DEF FailedInv
    <2>6. "vcl" # "call"
      OBVIOUS
    <2> QED
      BY ZenonT(60), <1>2, <1>v, <2>2, <2>3, <2>4, <2>5, <2>6
  <1>9. ASSUME FailCtx(t), NEW r, run' = [run EXCEPT ![t] = r], r.at \in {run[t].at, "vcl"}
        PROVE  Goal
    <2>1. PICK f : failed' = [failed EXCEPT ![t] = f]
      BY ZenonT(60), <1>9 DEF FailCtx
    <2>2. failed'[t] = f
      BY ZenonT(60), <1>t, <2>1
    <2>3. run[t].at = "call" => f
      BY ZenonT(60), <1>9, <2>2, CallFails
    <2>4. "vcl" # "call"
      OBVIOUS
    <2> QED
      BY ZenonT(60), <1>2, <1>9, <2>1, <2>3, <2>4
  <1>10. CASE GuestReturns(t) \/ ResumeTimesOut(t)
    <2>1. PICK g \in {"done", "cut"} :
            BackToVcl(t, [script[t] EXCEPT !.guest = g]) /\ ReadResult(t) /\ GuestRuns(t)
      BY ZenonT(60), <1>10 DEF GuestReturns, ResumeTimesOut, GuestRuns
    <2>2. [script[t] EXCEPT !.guest = g] \in ScriptType
          /\ [script[t] EXCEPT !.guest = g].guest # "dead"
      BY <1>t, <2>1 DEF ScriptType
    <2> QED
      BY ZenonT(60), <1>8, <2>1, <2>2
  <1>11. ASSUME NEW kind \in {"vcl", "backend", "compute"}, NEW p \in BOOLEAN, GuestRuns(t),
                BackToVcl(t, Decided(script[t], kind, p)), ReadResult(t)
         PROVE  Goal
    <2>1. PICK g \in {"pause", "decided"} :
            Decided(script[t], kind, p) =
              [script[t] EXCEPT !.result = kind, !.paused = p, !.guest = g]
      BY ZenonT(60) DEF Decided
    <2>2. [script[t] EXCEPT !.result = kind, !.paused = p, !.guest = g] \in ScriptType
      BY ZenonT(60), <1>t, <1>11 DEF ScriptType
    <2>3. [script[t] EXCEPT !.result = kind, !.paused = p, !.guest = g].guest # "dead"
      BY <1>t, <1>11 DEF ScriptType
    <2> QED
      BY ZenonT(60), <1>8, <1>11, <2>1, <2>2, <2>3
  <1>12. CASE (\E p \in BOOLEAN : Decides(t, p)) \/
              \E kind \in {"backend", "compute"} : BackendDecides(t, kind)
    BY ZenonT(60), <1>11, <1>12 DEF Decides, BackendDecides
  <1>13. CASE CallTimesOut(t) \/ FaultEnds(t)
    BY ZenonT(60), <1>9, <1>13, <1>v DEF CallTimesOut, FaultEnds, BackToVcl
  <1>14. CASE FaultHandled(t)
    <2> DEFINE q == Nested(t)
    <2>1. q.at = run[t].at
      BY <1>t DEF Nested, RunType
    <2>2. run' = [run EXCEPT ![t] = q] /\ FailCtx(t)
      BY ZenonT(60), <1>14 DEF FaultHandled
    <2> HIDE DEF q
    <2> QED
      BY ZenonT(60), <1>9, <2>1, <2>2
  <1>15. CASE FaultEscapes(t)
    BY ZenonT(60), <1>2, <1>15 DEF FaultEscapes
  <1> QED
    BY ZenonT(60), <1>1, <1>3, <1>6, <1>7, <1>10, <1>12, <1>13, <1>14, <1>15
    DEF GuestStops

\* handle_exception and handle_timeout: a called function that faults or times out
\* fails the method that called it, whatever its signal handlers do.
THEOREM FaultsFail == Spec => FaultFailsMethod
  <1> DEFINE Fails == \A t \in Tasks :
               (/\ run[t].at = "call" /\ run'[t].at = "vcl" /\ script'[t] # NoScript
                /\ Handling(t) \/ script'[t].guest = "dead") => failed'[t]
  <1>1. Init => FailedInv
    <2>1. InVcl.outer = NoFunc
      BY DEF InVcl
    <2> QED
      BY ZenonT(60), <2>1 DEF Init, FailedInv, Handling
  <1>2. IInv /\ FailedInv /\ [Next]_vars => FailedInv' /\ [Fails]_vars
    <2> SUFFICES ASSUME IInv, FailedInv, [Next]_vars PROVE FailedInv' /\ [Fails]_vars
      OBVIOUS
    <2>1. CASE UNCHANGED vars
      BY ZenonT(60), <2>1 DEF vars, FailedInv, Handling
    <2>2. CASE Next
      BY ZenonT(60), <2>2, FailedStep DEF FailedInv, Handling
    <2> QED
      BY <2>1, <2>2
  <1>3. FaultFailsMethod <=> [][Fails]_vars
    BY DEF FaultFailsMethod
  <1> QED
    BY <1>1, <1>2, <1>3, Invariance, PTL DEF Spec

\* vmfork: the program of a task's Script never changes while the task lasts.
THEOREM ProgramOfTask == Spec => ScriptKept
  <1> DEFINE Kept == \A t \in Tasks : script[t] # NoScript /\ script'[t] # NoScript =>
                       script'[t].program = script[t].program
  <1>1. IInv /\ [Next]_vars => [Kept]_vars
    <2> SUFFICES ASSUME IInv, Next PROVE Kept
      OBVIOUS
    <2>1. PICK t \in Tasks : VclStep(t) \/ GuestCall(t) \/ GuestStops(t)
      BY DEF Next
    <2>t. script \in [Tasks -> ScriptType \cup {NoScript}] /\
          (GuestRuns(t) => script[t] \in ScriptType)
      BY DEF IInv, TypeOK, RunningInv
    <2>2. ASSUME NEW n, script' = [script EXCEPT ![t] = n],
                 script[t] # NoScript /\ n # NoScript => n.program = script[t].program
          PROVE  Kept
      BY <2>2, <2>t
    <2>3. CASE EnterMethod(t) \/ ForkFails(t) \/ CallRefused(t) \/ Resume(t) \/
               \E e \in Entries, f \in MaybeFunc : Register(t, e, f)
      BY ZenonT(60), <2>3 DEF EnterMethod, ForkFails, CallRefused, Resume, Register
    <2>4. CASE EndTask(t)
      BY <2>2, <2>4 DEF EndTask
    <2>5. ASSUME NEW p \in Programs, Fork(t, p) PROVE Kept
      BY <2>2, <2>5 DEF Fork, Vmfork
    <2>6. ASSUME NEW e \in Entries, CallEntry(t, e) PROVE Kept
      <3>1. script[t] \in ScriptType
        BY <2>t, <2>6 DEF CallEntry
      <3>2. CalledScript(t).program = script[t].program
        BY <3>1 DEF CalledScript, ScriptType
      <3> QED
        BY <2>2, <2>6, <3>2 DEF CallEntry
    <2>7. ASSUME NEW h \in MaybeFunc, Signal(t, h) PROVE Kept
      <3>1. [script[t] EXCEPT !.sighandler = h].program = script[t].program
        BY <2>t, <2>7 DEF Signal, ScriptType
      <3> QED
        BY <2>2, <2>7, <3>1 DEF Signal
    <2>8. CASE FaultHandled(t)
      <3>1. [script[t] EXCEPT !.sighandler = NoFunc].program = script[t].program
        BY <2>t, <2>8 DEF FaultHandled, ScriptType
      <3> QED
        BY <2>2, <2>8, <3>1 DEF FaultHandled
    <2>9. ASSUME NEW s \in ScriptType, BackToVcl(t, s), s.program = script[t].program
          PROVE  Kept
      <3> DEFINE n == IF Handling(t) THEN [s EXCEPT !.sighandler = run[t].outer] ELSE s
      <3>1. n.program = script[t].program
        BY <2>9 DEF ScriptType
      <3>2. script' = [script EXCEPT ![t] = n]
        BY <2>9 DEF BackToVcl
      <3> HIDE DEF n
      <3> QED
        BY <2>2, <3>1, <3>2
    <2>10. CASE GuestReturns(t)
      <3>1. script[t] \in ScriptType
        BY <2>t, <2>10 DEF GuestReturns
      <3> DEFINE n == [script[t] EXCEPT !.guest = "done"]
      <3>2. n \in ScriptType /\ n.program = script[t].program
        BY <3>1 DEF ScriptType
      <3> QED
        BY ZenonT(60), <2>9, <2>10, <3>2 DEF GuestReturns
    <2>11. CASE CallTimesOut(t) \/ FaultEnds(t)
      <3>1. script[t] \in ScriptType
        BY <2>t, <2>11 DEF CallTimesOut, FaultEnds, GuestRuns
      <3> DEFINE n == [script[t] EXCEPT !.guest = "dead"]
      <3>2. n \in ScriptType /\ n.program = script[t].program
        BY <3>1 DEF ScriptType
      <3> QED
        BY ZenonT(60), <2>9, <2>11, <3>2 DEF CallTimesOut, FaultEnds
    <2>12. ASSUME NEW kind \in {"vcl", "backend", "compute"}, NEW p \in BOOLEAN,
                  GuestRuns(t), BackToVcl(t, Decided(script[t], kind, p))
           PROVE  Kept
      <3>1. Decided(script[t], kind, p) \in ScriptType /\
            Decided(script[t], kind, p).program = script[t].program
        BY ZenonT(60), <2>t, <2>12 DEF Decided, ScriptType
      <3> QED
        BY <2>9, <2>12, <3>1
    <2>13. CASE ResumeTimesOut(t)
      <3>1. script[t] \in ScriptType
        BY <2>t, <2>13 DEF ResumeTimesOut, GuestRuns
      <3> DEFINE n == [script[t] EXCEPT !.guest = "cut"]
      <3>2. n \in ScriptType /\ n.program = script[t].program
        BY <3>1 DEF ScriptType
      <3> QED
        BY ZenonT(60), <2>9, <2>13, <3>2 DEF ResumeTimesOut
    <2>14. CASE FaultEscapes(t)
      <3>1. [script[t] EXCEPT !.guest = "dead"].program = script[t].program
        BY <2>t, <2>14 DEF FaultEscapes, GuestRuns, ScriptType
      <3> QED
        BY <2>2, <2>14, <3>1 DEF FaultEscapes
    <2>15. CASE ProcessEnds(t)
      BY ZenonT(60), <2>15 DEF ProcessEnds
    <2>16. CASE (\E p \in BOOLEAN : Decides(t, p)) \/
                \E kind \in {"backend", "compute"} : BackendDecides(t, kind)
      BY ZenonT(60), <2>12, <2>16 DEF Decides, BackendDecides
    <2> QED
      BY <2>1, <2>3, <2>4, <2>5, <2>6, <2>7, <2>8, <2>10, <2>11, <2>16, <2>13, <2>14, <2>15
      DEF VclStep, GuestCall, GuestStops
  <1>2. ScriptKept <=> [][Kept]_vars
    BY DEF ScriptKept
  <1> QED
    BY <1>1, <1>2, Invariance, PTL DEF Spec
=============================================================================
