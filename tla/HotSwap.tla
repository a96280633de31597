------------------------------ MODULE HotSwap ------------------------------
(***************************************************************************)
(* What a tenant's hot-swappable program promises to the requests that use *)
(* it (`Hot-swappable program', sandbox_tenant.hpp:24): a request picks up *)
(* the machine instance that is current when it forks and runs that very   *)
(* instance until it is done, whatever is swapped in meanwhile.  A swap    *)
(* installs an instance in one step, and never one that was used before.   *)
(***************************************************************************)
CONSTANTS Inst,     \* machine instances (MachineInstance)
          Tasks,    \* request and fetch tasks, each with at most one fork
          NoInst    \* the null pointer

VARIABLES current,      \* the instance new forks are made from
          debug,        \* the instance new debug forks are made from
          used,         \* the instances that have been installed so far
          running       \* running[t]: the instance task t is a fork of

vars == <<current, debug, used, running>>

Init ==
    /\ current = NoInst
    /\ debug = NoInst
    /\ used = {}
    /\ running = [t \in Tasks |-> NoInst]

\* A new program replaces the current one; the forks are left alone.
Install(i) ==
    /\ i \notin used
    /\ used' = used \cup {i}
    /\ current' = i
    /\ UNCHANGED <<debug, running>>

InstallDebug(i) ==
    /\ i \notin used
    /\ used' = used \cup {i}
    /\ debug' = i
    /\ UNCHANGED <<current, running>>

\* A load of the program from its file failed: there is no current program.
Unload ==
    /\ current' = NoInst
    /\ UNCHANGED <<debug, used, running>>

Fork(t) ==
    /\ running[t] = NoInst
    /\ \E i \in {current, debug} \ {NoInst} : running' = [running EXCEPT ![t] = i]
    /\ UNCHANGED <<current, debug, used>>

End(t) ==
    /\ running[t] # NoInst
    /\ running' = [running EXCEPT ![t] = NoInst]
    /\ UNCHANGED <<current, debug, used>>

\* The process is restarted.
Restart ==
    /\ current' = NoInst
    /\ debug' = NoInst
    /\ running' = [t \in Tasks |-> NoInst]
    /\ UNCHANGED used

Next ==
    \/ \E i \in Inst : Install(i) \/ InstallDebug(i)
    \/ Unload
    \/ \E t \in Tasks : Fork(t) \/ End(t)
    \/ Restart

Spec == Init /\ [][Next]_vars
=============================================================================
