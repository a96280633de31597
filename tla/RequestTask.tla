----------------------------- MODULE RequestTask ----------------------------
(***************************************************************************)
(* What VCL does with guests: each request or fetch task forks at most one *)
(* Script, calls functions of the program in it, resumes it, and asks what *)
(* it decided (varnish_cpp_interface.cpp, vmod_cpp_interface.cpp, call and *)
(* resume in script.hpp, handle_exception in script.cpp).                  *)
(*                                                                         *)
(* Every VCL method of a task runs with a vrt_ctx of its own; its number   *)
(* in the task stands for it, and m_ctx is the number that the Script      *)
(* points to.  What the guest computes is its own affair: its system calls *)
(* and the ways in which it stops are the steps.  The function tables      *)
(* callback_entries and function_map belong to the program's instance,     *)
(* which all its forks share; one entry stands for a place in either.      *)
(***************************************************************************)
EXTENDS Naturals

CONSTANTS
    Tasks,          \* request and fetch tasks
    Programs,       \* machine instances that tasks fork
    DebugPrograms,  \* those constructed by live_debug
    Entries,        \* callback indices and names of functions
    Funcs,          \* addresses of guest functions
    Armed,          \* programs whose main() has set a signal handler
    MaxMethods,     \* bound: VCL methods of one task
    MaxNest,        \* the calls of handle_exception that the host stack has room for
    Master,         \* main() of the program, which forks are copies of
    NoScript,       \* priv_task->priv is null
    NoFunc          \* address 0

ASSUME TaskAssumption ==
    /\ DebugPrograms \subseteq Programs
    /\ MaxMethods \in Nat /\ MaxNest \in Nat
    /\ Master \notin Tasks
    /\ NoFunc \notin Funcs

\* A Script: what it is a fork of, the ctx it was given, how its guest last
\* stopped, what VCL reads of that, and the signal handler.
MaybeFunc == Funcs \cup {NoFunc}
ScriptType ==
    [program : Programs, m_ctx : 1 .. MaxMethods,
     guest : {"main", "pause", "decided", "done", "cut", "dead"}, paused : BOOLEAN,
     result : {"none", "vcl", "backend", "compute"}, sighandler : MaybeFunc]

ASSUME ScriptAssumption == NoScript \notin ScriptType

VARIABLES
    method,         \* method[t]: the VCL method that runs in t, counted from 1
    failed,         \* failed[t]: VRT_fail was called on the ctx of that method
    script,         \* script[t]: the Script in the task's private pointer
    run,            \* run[t].at: who runs, VCL or the guest and by which call
                    \* run[t].outer: the handler that handle_exception has
                    \* taken, the outermost one when they nest
                    \* run[t].depth: how many of them there are
                    \* run[t].from: who registered the function that is called
    table           \* table[p][e]: the address registered, and by whom

vars == <<method, failed, script, run, table>>

InVcl == [at |-> "vcl", outer |-> NoFunc, depth |-> 0, from |-> Master]

\* What main() of each program has registered when the instance is complete.
Registered == [Programs -> [Entries -> [func : MaybeFunc, by : {Master}]]]

Init ==
    /\ method = [t \in Tasks |-> 0]
    /\ failed = [t \in Tasks |-> FALSE]
    /\ script = [t \in Tasks |-> NoScript]
    /\ run = [t \in Tasks |-> InVcl]
    /\ table \in Registered

(* Faulty variants of the definition that the name begins with, one for    *)
(* each way in which the code could be wrong.  Nothing below uses them.    *)
CalledScript_ctxKept(t) == script[t]
Vmfork_always(t, p, handler) ==
    [program |-> p, m_ctx |-> method[t], guest |-> "main", paused |-> FALSE,
     result |-> "none", sighandler |-> handler]
BackToVcl_retries(t, s) ==
    IF run[t].outer = NoFunc
      THEN script' = [script EXCEPT ![t] = s] /\ run' = [run EXCEPT ![t] = InVcl]
      ELSE /\ script' = [script EXCEPT ![t] = [s EXCEPT !.sighandler = run[t].outer]]
           /\ run' = [run EXCEPT ![t].outer = NoFunc, ![t].depth = 0]
FailCtx_unhandled(t) ==
    failed' = [failed EXCEPT ![t] =
                 @ \/ (script[t].m_ctx = method[t] /\ script[t].sighandler = NoFunc)]

-----------------------------------------------------------------------------
(* The task.                                                               *)

\* A method ends and the next one begins; a method that failed ends early.
EnterMethod(t) ==
    /\ run[t].at = "vcl"
    /\ method[t] < MaxMethods
    /\ method' = [method EXCEPT ![t] = @ + 1]
    /\ failed' = [failed EXCEPT ![t] = FALSE]
    /\ UNCHANGED <<script, run, table>>

\* VRT_priv_task is cleared and ~Script runs.
EndTask(t) ==
    /\ run[t].at = "vcl"
    /\ method[t] > 0
    /\ method' = [method EXCEPT ![t] = 0]
    /\ failed' = [failed EXCEPT ![t] = FALSE]
    /\ script' = [script EXCEPT ![t] = NoScript]
    /\ UNCHANGED <<run, table>>

\* VCL statements run in a method until something has failed in it.
Vcl(t) == run[t].at = "vcl" /\ method[t] > 0 /\ ~failed[t]

\* The fork continues main() where the master stopped in wait_for_requests; the
\* signal handler is the master's.
Forked(t, p, handler) ==
    [program |-> p, m_ctx |-> method[t], guest |-> "main", paused |-> FALSE,
     result |-> "none", sighandler |-> handler]

\* vmfork: only a task without a Script gets one, and every later fork is
\* answered with the one that is there, whatever program it asks for.
Vmfork(t, p, handler) ==
    IF script[t] = NoScript THEN Forked(t, p, handler) ELSE script[t]

Fork(t, p) ==
    /\ Vcl(t)
    /\ \E handler \in IF p \in Armed THEN Funcs ELSE {NoFunc} :
         script' = [script EXCEPT ![t] = Vmfork(t, p, handler)]
    /\ UNCHANGED <<method, failed, run, table>>

\* No room in the workspace, or the constructor throws.
ForkFails(t) ==
    /\ Vcl(t) /\ script[t] = NoScript
    /\ failed' = [failed EXCEPT ![t] = TRUE]
    /\ UNCHANGED <<method, script, run, table>>

IsDebug(t) == script[t].program \in DebugPrograms

\* Script::call and Script::resume.  In a debug fork resume_debugger stops the
\* machine first, so that no step of the guest is taken.
GuestStarts(t, at, from) ==
    run' = IF IsDebug(t) THEN run
           ELSE [run EXCEPT ![t] = [at |-> at, outer |-> NoFunc, depth |-> 0, from |-> from]]

\* riscv_call_idx and riscv_current_call: the ctx is set before the call.  (For
\* how a debug fork's call may fail, see ReadResult.)
CalledScript(t) == [script[t] EXCEPT !.m_ctx = method[t]]

CallEntry(t, e) ==
    /\ Vcl(t) /\ script[t] # NoScript
    /\ table[script[t].program][e].func # NoFunc
    /\ script' = [script EXCEPT ![t] = CalledScript(t)]
    /\ GuestStarts(t, "call", table[script[t].program][e].by)
    /\ failed' = failed \/ (IsDebug(t) /\ failed' = [failed EXCEPT ![t] = TRUE])
    /\ UNCHANGED <<method, table>>

\* No such function, or no Script: call fails the method.  (vcall and run answer
\* -1 and change nothing.)
CallRefused(t) ==
    /\ Vcl(t)
    /\ script[t] # NoScript =>
         \E e \in Entries : table[script[t].program][e].func = NoFunc
    /\ failed' = [failed EXCEPT ![t] = TRUE]
    /\ UNCHANGED <<method, script, run, table>>

\* riscv_current_resume: the ctx is not set, and m_is_paused is not looked at.
Resume(t) ==
    /\ Vcl(t) /\ script[t] # NoScript
    /\ GuestStarts(t, "resume", Master)
    /\ UNCHANGED <<method, failed, script, table>>

-----------------------------------------------------------------------------
(* The guest, between the start of a call or resume and its end.           *)

GuestRuns(t) == run[t].at \in {"call", "resume"}
Handling(t) == run[t].outer # NoFunc

\* register_callback and register_func write to the tables of the instance.
Register(t, e, f) ==
    /\ GuestRuns(t)
    /\ table' = [table EXCEPT ![script[t].program][e] = [func |-> f, by |-> t]]
    /\ UNCHANGED <<method, failed, script, run>>

\* signal(): the handler is replaced.
Signal(t, h) ==
    /\ GuestRuns(t)
    /\ script' = [script EXCEPT ![t].sighandler = h]
    /\ UNCHANGED <<method, failed, run, table>>

\* The guest has stopped and VCL goes on.  When that was in a signal handler,
\* each handle_exception under way puts back the handler it took, the outermost
\* last.
BackToVcl(t, s) ==
    /\ script' = [script EXCEPT ![t] =
                    IF Handling(t) THEN [s EXCEPT !.sighandler = run[t].outer] ELSE s]
    /\ run' = [run EXCEPT ![t] = InVcl]

\* riscv_current_call reads what the call returned as an address of a string,
\* however the guest stopped, and fails when there is none or no room for it.
ReadResult(t) ==
    \/ UNCHANGED failed
    \/ run[t].at = "call" /\ failed' = [failed EXCEPT ![t] = TRUE]

GuestReturns(t) ==
    /\ GuestRuns(t)
    /\ BackToVcl(t, [script[t] EXCEPT !.guest = "done"])
    /\ ReadResult(t)
    /\ UNCHANGED <<method, table>>

\* set_result and set_results; then the machine is stopped.
Decided(s, kind, p) ==
    [s EXCEPT !.result = kind, !.paused = p, !.guest = IF p THEN "pause" ELSE "decided"]

\* set_decision: decision() in the guest, or pause_for() when p.
Decides(t, p) ==
    /\ GuestRuns(t)
    /\ BackToVcl(t, Decided(script[t], "vcl", p))
    /\ ReadResult(t)
    /\ UNCHANGED <<method, table>>

\* backend_decision: forge() in the guest, or kvm_compute().
BackendDecides(t, kind) ==
    /\ GuestRuns(t)
    /\ BackToVcl(t, Decided(script[t], kind, TRUE))
    /\ ReadResult(t)
    /\ UNCHANGED <<method, table>>

\* The instructions of a resume, that of a handler included, are used up:
\* simulate<false> returns as if the guest had stopped.
ResumeTimesOut(t) ==
    /\ run[t].at = "resume" \/ (run[t].at = "call" /\ Handling(t))
    /\ BackToVcl(t, [script[t] EXCEPT !.guest = "cut"])
    /\ ReadResult(t)
    /\ UNCHANGED <<method, table>>

\* VRT_fail(m_ctx): the method that runs fails if its ctx is the one given.
FailCtx(t) ==
    failed' = [failed EXCEPT ![t] = @ \/ script[t].m_ctx = method[t]]

\* A timeout in a call: handle_timeout.
CallTimesOut(t) ==
    /\ run[t].at = "call" /\ ~Handling(t)
    /\ FailCtx(t)
    /\ BackToVcl(t, [script[t] EXCEPT !.guest = "dead"])
    /\ UNCHANGED <<method, table>>

\* handle_exception without a handler.
FaultEnds(t) ==
    /\ GuestRuns(t)
    /\ script[t].sighandler = NoFunc
    /\ FailCtx(t)
    /\ BackToVcl(t, [script[t] EXCEPT !.guest = "dead"])
    /\ UNCHANGED <<method, table>>

\* One more handle_exception is under way, and has taken the handler.
Nested(t) ==
    [run[t] EXCEPT !.outer = IF Handling(t) THEN run[t].outer ELSE script[t].sighandler,
                   !.depth = run[t].depth + 1]

\* handle_exception with one: the handler is resumed under an instruction limit
\* of its own, and it is taken away while it runs.  One that calls signal() and
\* faults is followed by the next.
FaultHandled(t) ==
    /\ GuestRuns(t)
    /\ script[t].sighandler # NoFunc
    /\ run[t].depth < MaxNest
    /\ FailCtx(t)
    /\ run' = [run EXCEPT ![t] = Nested(t)]
    /\ script' = [script EXCEPT ![t].sighandler = NoFunc]
    /\ UNCHANGED <<method, table>>

\* Before that, stack_push onto a broken guest stack or the jump throws, through
\* every handle_exception under way and out of Script::call: none puts a handler
\* back.  riscv_current_call catches it and fails the method.
FaultEscapes(t) ==
    /\ run[t].at = "call"
    /\ script[t].sighandler # NoFunc
    /\ failed' = [failed EXCEPT ![t] = TRUE]
    /\ script' = [script EXCEPT ![t].guest = "dead"]
    /\ run' = [run EXCEPT ![t] = InVcl]
    /\ UNCHANGED <<method, table>>

\* riscv_call_idx and riscv_current_resume do not: an exception that leaves them
\* ends the process, as does a handler that nests beyond the host stack.  All is
\* lost, and a new process loads its programs.
ProcessEnds(t) ==
    /\ GuestRuns(t)
    /\ script[t].sighandler # NoFunc
    /\ method' = [x \in Tasks |-> 0]
    /\ failed' = [x \in Tasks |-> FALSE]
    /\ script' = [x \in Tasks |-> NoScript]
    /\ run' = [x \in Tasks |-> InVcl]
    /\ table' \in Registered

-----------------------------------------------------------------------------
VclStep(t) ==
    \/ EnterMethod(t) \/ EndTask(t)
    \/ \E p \in Programs : Fork(t, p)
    \/ ForkFails(t)
    \/ \E e \in Entries : CallEntry(t, e)
    \/ CallRefused(t)
    \/ Resume(t)

GuestCall(t) ==
    \/ \E e \in Entries, f \in MaybeFunc : Register(t, e, f)
    \/ \E h \in MaybeFunc : Signal(t, h)

\* Guest code comes to one of these in a bounded number of instructions.
GuestStops(t) ==
    \/ GuestReturns(t)
    \/ \E p \in BOOLEAN : Decides(t, p)
    \/ \E kind \in {"backend", "compute"} : BackendDecides(t, kind)
    \/ ResumeTimesOut(t) \/ CallTimesOut(t)
    \/ FaultEnds(t) \/ FaultHandled(t) \/ FaultEscapes(t) \/ ProcessEnds(t)

Next == \E t \in Tasks : VclStep(t) \/ GuestCall(t) \/ GuestStops(t)

Spec == Init /\ [][Next]_vars

(* The machine counts instructions, and so a guest that runs comes to a    *)
(* stop.  Nothing makes VCL call a guest.                                  *)
FairSpec == Spec /\ \A t \in Tasks : WF_vars(GuestStops(t))

-----------------------------------------------------------------------------
(* Properties.                                                             *)

RunType ==
    [at : {"vcl", "call", "resume"}, outer : MaybeFunc, depth : 0 .. MaxNest,
     from : Tasks \cup {Master}]

\* The type invariant.
TypeOK ==
    /\ method \in [Tasks -> 0 .. MaxMethods]
    /\ failed \in [Tasks -> BOOLEAN]
    /\ script \in [Tasks -> ScriptType \cup {NoScript}]
    /\ run \in [Tasks -> RunType]
    /\ table \in [Programs -> [Entries -> [func : MaybeFunc, by : Tasks \cup {Master}]]]

\* `VRT ctx can easily change even on the same request due to waitlist'
\* (varnish_cpp_interface.cpp:79): a function that VCL calls runs with the ctx of
\* the method that calls it, in its signal handler too, so that its pages come
\* from a workspace that exists and a failure is seen by that method.
CalledCtxLive ==
    \A t \in Tasks : run[t].at = "call" => script[t].m_ctx = method[t]

\* A task keeps the Script it has until it ends: what VCL holds of it (function
\* addresses, directors, a paused guest) never comes to mean another program.
ScriptKept ==
    [][\A t \in Tasks :
          script[t] # NoScript /\ script'[t] # NoScript =>
            script'[t].program = script[t].program]_vars

\* A fault or a timeout in a function that VCL calls fails the method that called
\* it (handle_exception, handle_timeout), so that VCL does not go on with what the
\* call returned: also when a signal handler has run since, has returned, decided
\* or used up its instructions, or has itself faulted.
FaultFailsMethod ==
    [][\A t \in Tasks :
          (/\ run[t].at = "call" /\ run'[t].at = "vcl" /\ script'[t] # NoScript
           /\ Handling(t) \/ script'[t].guest = "dead") => failed'[t]]_vars

\* Every call and resume of a guest comes back to VCL, or ends with the process,
\* however often the guest and its signal handlers fault.
CallReturns ==
    \A t \in Tasks : GuestRuns(t) ~> ~GuestRuns(t)

\* `Each machine lives in complete separation and cannot affect any other'
\* (vmod_riscv.vcc): the function that a call runs was registered by the program's
\* main() or by the guest of the task itself.
MachinesSeparate ==
    \A t \in Tasks : run[t].at = "call" => run[t].from \in {Master, t}
=============================================================================
