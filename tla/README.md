# TLA+ models and proofs of libvmod-riscv

The RISC-V VMOD runs sandboxed guest programs inside Varnish. This directory
models the parts of it in which several threads, guest code and failures meet,
checks the models with TLC, and proves the main results with TLAPS for all
values of the constants. Paths below are relative to the repository root; most of
the code is in `src/`.

## 1. The system

### Parts

| part | state | operations that change it |
|---|---|---|
| tenant program (`sandbox_tenant.*`, `machine_instance.*`) | `program`, `debug_program` (shared pointers, swapped atomically), the instance with its two master machines | `load`, `vmfork`, `~Script` |
| live update (`live_update.cpp`, `vmod_riscv_update.c`) | the tenant's slots, its `argv`, the program file, the state handed over | `riscv_update`, `riscv_update_file`, `file_writer` |
| storage and remote calls (`script_functions.cpp`) | one storage machine per instance, `storage_mtx`, its fault handlers | `remote_call`, `remote_strcall`, `on_live_update`, `on_resume_update` |
| script, the guest machine (`script.*`) | memory, `m_ctx`, `m_inst`, `m_inst_ref`, pause state | construct, initialise, fork, `call`, `preempt`, `resume`, destroy |
| backend fetch (`backend.cpp`, `vmod_riscv_backend.c`, `vmod_riscv_post.c`) | the POST buffer in the guest, the result and its list of buffers, `vfe->priv2` | `gethdrs`, `streaming_post`, `backend_call`, `pull`, `finish` |
| script cache (`script_cache.hpp`) | regexes, owned by a machine or borrowed from its master | `regex_compile`, `regex_delete`, `loan_from`, `foreach_owned` |
| header fields (`script_functions.cpp`) | field array and `field_count` of an HTTP object, entries in guest memory | append, set, copy, unset, unset by regex, rollback, foreach |
| request task (`vmod_riscv.c`, `varnish_cpp_interface.cpp`, `vmod_cpp_interface.cpp`) | the private Script of a task, its ctx, decision and signal handler; the program's function tables | fork, call, resume, `register_callback`, `set_decision`, `handle_exception` |
| guest heap (`native_heap.hpp`, `native_libc.cpp`, fork constructor in `script.cpp`) | chunks of an arena, the master's watermark | `malloc`, `free`, `realloc`, fork |
| tenancy (`tenancy.cpp`, `tenant.hpp`) | the static table of tenants by CRC of their name, groups, shared `argv` vectors | `init_tenants`, `finalize_tenants`, `add_main_argument` |
| debugger (`script_debug.cpp`) | RSP client and its owner | open, stop, run |
| builder, hashing, instrumentation, the emulator `libriscv` | none that is shared | |

### How they interact

A request forks a Script from the tenant's current instance. The fork shares the
pages and the regexes of the instance's master machine, and holds a shared pointer to
the instance (`m_inst_ref`) so that an update cannot free it. Forks call into the
storage machine of their instance under `storage_mtx`. An update constructs a new
instance, swaps it in, moves state from the old storage to the new one, and writes the
program to its file. A backend fetch streams the request body into the fork, calls a
guest function and lets Varnish pull what it returns. System calls of the guest
change the regex cache, the headers, the heap and the function tables. Which tenants there
are, and with which limits and arguments their machines start, is decided when VCLs load.

### What is hard

* Nothing but `storage_mtx` and the atomic slots orders the threads. Updates overlap with
  requests, with each other, and with loads of other VCLs.
* Every construction and every call runs guest code, which may fault or time out.
* Destruction order decides whether a fork outlives what it reads from.
* The process may stop in the middle of rewriting the program file.
* Indices and handles that were given to a guest are used later, after what they index
  has moved. A Script outlives the VCL method, and so the ctx, that it was called with.
* A fork's allocator starts where the master's blocks end and knows none of them.
* The table of tenants outlives the VCL that filled it, also when that VCL failed halfway.
* Loops over buffers and windows meet several ends at once.

`PROJECT.json` lists these hazards one by one, with the line where each bites and the
properties that are about it.

## 2. Modules

| module | models | abstract view |
|---|---|---|
| `LiveUpdate` | loads, updates, forks, crashes of one tenant; lifetime of instances; argv; the program file | `HotSwap` |
| `StateTransfer` | remote calls into storage machines and the transfer of an update | |
| `BackendFetch` | one fetch: POST streaming, call, retry, pull | `BodyStream` |
| `ScriptCache` | regex caches of masters and forks | |
| `HeaderFields` | header calls and foreach on one HTTP object | |
| `RequestTask` | what VCL does with the Script of a task, and how guests stop | |
| `ForkHeap` | the heap of a master machine and of forks of it | |
| `Tenancy` | the documents, groups and the table of tenants | |
| `LiveUpdateProofs`, `StateTransferProofs`, `BackendFetchProofs`, `RequestTaskProofs`, `ForkHeapProofs`, `TenancyProofs`, `ScriptCacheProofs`, `HeaderFieldsProofs` | theorems | |
| `MCLiveUpdate`, `MCStateTransfer`, `MCScriptCache`, `MCTenancy` | symmetry and function constants for TLC | |

`map` in `PROJECT.json` gives the source lines of every definition. Each module has a
block of *faulty variants* (`Loan_owned`, `Find_anyEntry`, ...). They are used nowhere:
substituting one for the definition named before the underscore must break the property
it is listed with, which shows that the property can fail.

### LiveUpdate

`updater[u]` is a thread in `riscv_update` or `riscv_update_file`, with one action for each
step that other threads can see: `AppendArgument` (argv is extended), `InitStorage` and
`InitScript` (the two `machine_setup`/`machine_initialize` calls, each of which reads argv and
runs guest code), `RestoreArgv`, `Exchange`, `Transfer`, `OpenFile`, `WriteFile`, `Return`.
`ConstructorThrows` is the exception path of all construction steps. `task[t]` is a request in
`vmfork` (`VmforkLoad`, then `VmforkConstruct` or `VmforkFails`) and in `~Script`
(`ReleaseInst` before `ReleaseMachine`, in the reverse order of declaration). `loader` is
`finalize_tenants` of another VCL: `FinalizeCheck` and `LoadBegin`/`LoadDone`/`LoadFails` are
separate because nothing locks between them. `Crash` keeps the file only. `Filename` is the
form of the configured name: a `plain` file is read as it is, a `source` is built first, and
any `other` name, with dollar variables or `rust:`, leads to a file or a project that no
update writes (`Loadable`). The write can fail at `fopen` (`OpenFails`) and at `fwrite`; the
result of `fclose` is ignored, so that `WriteFile` may leave a torn file and still answer
success.

A shared pointer is the set of places that hold it (`Held`). A step that removes the last
holder destroys the instance in that step. `m_inst`, a C++ reference, holds nothing.

### StateTransfer

A storage is the set of tasks whose write it has. `inside[i]` is who executes in storage
machine `i`. Two at once, or a fault half-way, make its contents unspecified (`tainted`),
and serialized bytes read from it may be `Garbage`. `fault_handler[i]` is the Script that
the page fault handler captures; it becomes `Stale` when that Script ends. `remote_call`
replaces it, `remote_strcall` and the transfer run with what is there. A storage machine that
itself makes a `remote_call` (`NestedCall`) locks the mutex its own caller holds.

### BackendFetch

Bytes are numbered, so an output shows what was lost, repeated or moved. `Gathered` is what
libriscv's `gather_buffers_from_range` may return for a response: at most `NumBuffers` nonempty
pieces that cover the range in order, where one piece is a run of guest pages that are adjacent
in host memory; it throws when there are more of them. Where the guest's pages lie is left open.
`pull` is a loop with one action per round (`PullPiece`). `Retry` is Varnish's `return (retry)`.
`GethdrsUpdate` is the updater's backend, which has the same `pull`. Status and content
type are left out, as no step depends on them.

### ScriptCache

A regex is a number, a handle is its place in the cache. A fork copies its master's memory and
therefore its handles, while `LoanFrom` rebuilds the cache without gaps. Hashes are given by
the constant `Hash`; in `MCScriptCache` one of the two patterns hashes to 0, as the empty
pattern does, which is also the hash of a freed entry. Regexes that nobody keeps (after
`regex_delete`, or when the cache is full) are neither in a cache nor freed: the code leaks
them, and so does the model.

### HeaderFields

A field has an arrival number (`slot`) and is blank or not. A foreach is three kinds of
steps: `ForeachBegin` writes the entries, the callback makes any other call and marks
entries, `ForeachEnd` removes. `ApiUnset` is `HeaderField::unset` of the C++ API, which
marks an entry and gives up its index; `GuestFlags` is a guest that writes the record itself:
the flag only, which is what the loop in the host expects, or another index too (`rewritten`).
The callback may stop at any point, because `Script::preempt` catches the guest's exceptions.

The only check of an index in `http_unsetat` is by assertions, which a release build leaves
out. `Asserts` says which build it is: with them a bad index ends the process (`halted`),
without them any field in the array can be removed, and only a memmove outside of the array is
taken to be the end. `strayed` remembers that the guest has named an index among the proto
fields to `header_field_copy` with a source that does not exist, or that it has rewritten one
of a foreach. The loops of `http_unset_re` and `foreach_header_field` run
inside one step, as recursive functions of the round (`UnsetRe`, `Listed`, `Removals`).

### RequestTask

A task runs VCL methods one after the other, each with its own vrt_ctx; the number of the
method stands for it. `script[t]` is what the private pointer of the task leads to. `Fork`,
`CallEntry` and `Resume` are the calls from VCL; while `run[t].at` is `call` or `resume` the
guest has the thread and registers functions, sets its signal handler, and stops in one of the
ways that `GuestStops` lists. `handle_exception` is `FaultEnds` without a handler and
`FaultHandled` with one: the handler is taken away, runs as a resume, and is put back when the
outermost exception is done. A timeout in a called function is `CallTimesOut` and fails the
method; one in a resume, and so in a handler, does not (`ResumeTimesOut`). When the stack or the
pc that the handler needs is broken, the exception leaves `Script::call`: `riscv_current_call`
catches it (`FaultEscapes`), nobody does elsewhere (`ProcessEnds`). A handler that calls
`signal()` and faults nests; `MaxNest` stands for the host stack, which ends that too. In a
debug fork `resume_debugger` stops the machine before its first instruction, so such a fork
never takes a guest step. Each table entry remembers who wrote it, which only
`MachinesSeparate` reads.

### ForkHeap

Addresses count units of 16 bytes modulo `Word`. The arena's linked list is the set of its
chunks; since chunks tile the arena, the neighbours of a chunk are those that begin where it
ends and end where it begins. `mem` holds what was last written to each unit, so that a lost
or overwritten block shows. `Fork` makes a fresh arena from the watermark to
`HeapAddress + MaxHeap`, which is what `max_heap - (watermark - heap_address)` comes to,
although the master's arena begins at `ArenaBase`. A `free` or `realloc` in the fork of a
block that only the master's arena knows goes through `on_unknown_free` and
`on_unknown_realloc`. Guests behave: they free what they have and write inside it.

### Tenancy

A document is read key by key in alphabetical order; each object is a tenant (it has a
filename), a reconfiguration of a tenant with that hash, or a group. Any step may throw. The
`argv` of groups and tenants are references into `vectors`, which they share until one of
them gets a vector of its own; a vector is deleted with its last reference. `given`, a
history variable, keeps the objects that made the groups, against which `EntersAsWritten`
compares. A VCL that fails leaves the table as it is, and the next one goes on with it.

## 3. Runs

| run | states | shows |
|---|---|---|
| `LiveUpdateSwap` | 1,330,040 | two overlapping updaters (from a file and of the debug program), two requests, `finalize_tenants` of another VCL, crashes: forks keep their instance, no instance is installed twice, a tenant keeps a program whatever fails, and `HotSwap` is implemented |
| `LiveUpdateSolo` | 295,843 | one updater with all three operations, two programs, `add_main_argument`, failed and torn writes, crashes: machines get the configured arguments and their own, argv is restored, an update that is answered with success leaves no replaced program in the file; replaced programs are freed |
| `StateTransferCalls` | 393,572 | one updater, two requests, nested calls: remote calls exclude each other, run with their own caller's fault handler and give the mutex back; a successful transfer carries every completed write |
| `BackendFetchBody` | 11,372 | all small bodies, splits and windows, failures, a retry: POST complete, response in order, `BodyStream` implemented, the fetch ends |
| `ScriptCacheFree` | 128,021 | two programs, two forks, a cache of two, a pattern of hash 0: no freed regex is reachable, none is freed twice, handles lead where they should |
| `HeaderFieldsCalls` | 1,247,133 | every sequence of calls on up to four fields in a build without assertions: order kept, unset by regex exact; proto fields kept unless the guest strays; a foreach with stale indices within the assertions |
| `RequestTaskCalls` | 91,626 | four methods of a task, a normal and a debug program: called functions have the ctx of their caller, the task keeps its program, a fault in a call fails the method, every call returns or ends with the process |
| `ForkHeapCalls` | 96,434 | every sequence of allocations in a master and its forks: blocks apart, contents intact, free memory found |
| `TenancyLoad` | 211,328 | two documents over three keys, two of which collide: tenants stay, one changes at a time, each enters as written |

Three runs are expected to end in a counterexample. Each checks one statement that the
repository makes about itself:

| run | statement | what happens |
|---|---|---|
| `StateTransferRace` | `Serialized access to storage` (`src/script_functions.cpp:211`) | an update calls into storage machines without `storage_mtx` |
| `BackendFetchCtx` | `Restore old ctx for backend_response` (`src/backend.cpp:53`) | `streaming_post` restores the ctx on its error paths only, so the Script keeps a ctx from the stack of `gethdrs` |
| `RequestTaskSeparation` | `Each machine lives in complete separation and cannot affect any other` (`src/vmod_riscv.vcc:8`) | `register_callback` and `register_func` in a fork write to the tables of the instance; a call in another request runs what was registered |

### Statements that hold only in part

Four more statements of the repository do not hold. They are definitions without a run of
their own; adding one to the configuration named shows its counterexample.

| definition | configuration | statement | what happens |
|---|---|---|---|
| `DeleteThisLast` | `LiveUpdateSwap` | `Delete this last` (`src/script.hpp:142`) | `m_inst_ref` is declared last, so it is destroyed first. If it is the last holder, the instance goes while the fork's machine still exists |
| `HandlerOfLiveFork` | `StateTransferCalls` | `zero state leakage` (`README.md:10`) | `remote_call` leaves a page fault handler that refers to its own Script; a `remote_strcall` or a transfer runs with it after that Script is gone. For `remote_call` itself `HandlerIsCallers` holds and is proved |
| `MarkedRemoved` | `HeaderFieldsCalls` | `During foreach we must delay unset` (`program/cpp/micro/api/api_impl.h:190`) | the API overwrites the index that the host needs, so the unset is dropped. Also with the index in place, the last fields are missed: line 586 of `src/script_functions.cpp` compares it with a count that earlier removals have lowered |
| `ProtoInPlace` | `HeaderFieldsCalls` | `You are not allowed to unset proto fields` (`src/script_functions.cpp:865`) | `header_field_copy` from a field that does not exist (line 845) and the end of a foreach (line 586) call `http_unsetat` with the guest's index, and a release build has no other check |

Three properties hold for updates that do not overlap, which is how they are checked, and
fail when they do, because the code has no lock around an update: `ArgvRestored` (two
`live_update_file` calls save and restore each other's argv), `StoredProgramIsRunning` (swaps
and file writes in opposite orders), and `TransferCarriesState` (the second update serializes
before the first has resumed). Giving `Updaters` two members in `LiveUpdateSolo.cfg` shows the
first two. The third also needs a second transfer in `StateTransferCalls.cfg`: `MaxInst` = 3,
`Serializers` = {1, 2} and `Resumers` = {2, 3}.

`ProgramKept` leaves out the steps while a load is under way: a load that fails assigns null
over a program that was installed after the check. `LockReleased` excepts the nested call,
which never ends. `CalledCtxLive` is about calls: a resumed guest runs with the ctx of the
call that paused it, which is stale when the method has changed. `FaultFailsMethod` is about
calls too: a resume that faults marks the ctx of the call that paused it, and one that times
out marks none. `CallReturns` counts the end of the process as a return, since handlers that
call `signal()` and fault nest until the host stack is used up. `ProtoKept` and
`ForeachMeetsAssertions` except what the guest does when it rewrites an index. `BlocksApart`,
`BlocksIntact` and `FreeIsFound` hold under `Room`: when the master's blocks reach past
`HeapAddress + MaxHeap`, the size of a fork's arena wraps around and its first allocation may
lie past the end of the heap.

### Bounds

`MaxInst` = 3 in the swap runs is one instance at start and one for each of two updates: a
request can fork the first, see it replaced twice and still hold it. Two requests are enough
for one to hold the last reference while another forks. An upload differs from an update from
a file in that it stores the program, which `LiveUpdateSolo` is about; with uploads in place of
file updates the swap run has 2,130,520 states and no error. `MaxInst` = 2 where a
transfer from one to the other is what matters. A body of two segments of 0, 1 or 2 bytes,
and a response of four bytes in up to three buffers with windows of 1, 2 and 3 bytes, let a
window end inside, at, and after the end of a buffer. A cache of two entries with three
regexes can be full. One proto field, up to three others and one more arrival let fields be
removed at both ends and in the middle, stale indices be in and out of range, and the array
be full.

Four methods let a task fork, call, be left paused, resume and call again in different
methods. `MaxNest` = 2 is a handler that calls `signal()`, faults, and so runs inside itself.
One task is enough for properties of a task. A heap of eight units with blocks of one to
three, up to three at a time, has room for a chunk to be split, to grow into its neighbour, to
be moved and to be merged on either side, and for a fork between the master's blocks and the
end; `ArenaBase` differs from `HeapAddress`, and `Word` is small enough to wrap. Two documents
let the second meet what the first has left, completely or in part; with three keys a tenant
can follow its group, precede it, and share a hash.

`MaxRetries`, `MaxSlot`, `MaxRegex`, `MaxArgs`, `MaxInst`, `MaxMethods`, `MaxNest`,
`MaxBlocks` and `MaxLoads` bound counters that the code does not bound. `Room` is the constraint of
`ForkHeapCalls`, for the reason above.

### Fairness and stopping

A worker thread that has entered an update, a construction, a destructor or a remote
call keeps running: these steps are weakly fair. Guest code returns or is stopped by the
instruction limit, so a call ends too. The start of an update, a request or a crash is not
fair. A request that has forked does end (`ReleaseInst`, `ReleaseMachine`), because guest
code runs under an instruction limit. In `BackendFetch`, `gethdrs` and `pull` are weakly
fair because Varnish's fetch thread calls them until the end. In `RequestTask` a guest that
runs comes to a stop (`GuestStops`), because its machine counts instructions; nothing makes
VCL call it. `ForkHeap` and `Tenancy` have safety properties only and assume no fairness.

`BackendFetchBody`, `HeaderFieldsCalls` and `StateTransferCalls` do not check for deadlock: a
fetch ends, `http_unsetat` may end the process, and nested remote calls of all requests block
every thread. All other runs check it.

## 4. Proofs

Every safety property of a passing run, invariants, action properties and refinements, is also
a theorem, for any sets of threads and tasks and any values of the bounds. The theorems use
the named assumptions on constants (`ConstantsAssumption`, `StorageAssumption`,
`FetchAssumption`, `TaskAssumption`, `ScriptAssumption`, `HeapAssumption`,
`TenancyAssumption`, `CacheAssumption`, `FieldsAssumption`), which TLC evaluates on the
instances. Three have a further hypothesis, in their statement: `ArgvIsRestored` and
`StoredIsRunning` (`Solo`), and `SoloTransfer` (updates do not overlap). Inductive invariants
were checked by TLC on the instances of section 3 before they were proved.

**LiveUpdateProofs.** `ForkInstanceAlive` is not inductive: that a fork's instance exists
depends on what every other holder does. `LifetimeInv` adds that instance numbers are
given out in order (`NumbersInv`), which locals are set at which step (`LocalsInv`, among
them `m_inst_ref = m_inst` in an open fork), that an instance under construction belongs
to one thread and is in no slot (`PendingInv`), and that whatever is held is complete and
not destroyed (`HeldIsUsable`). `MoveStep` covers the steps that only move references,
and one lemma each covers the others. From it follow `Lifetime`, `TypeCorrect`,
`ForkAlive`, `NeverInstalledTwice`, `ProgramStays` and the refinement
`HotSwapImplemented`. Crashes and loads by other VCLs are part of all of these, and of
`OnlyInitialisedIsStored`: what a step writes to the program file comes from an instance that
is complete, for any number of overlapping updates.

`ArgvIsRestored` and `StoredIsRunning` have the hypothesis `Solo`: one updater, which may
update any number of times, no load by another VCL, and no argument that another VCL adds while
an update is under way. Without it they are false (section 3).
Their invariant `SoloInv` says, for each program counter of an update, which arguments are in
the shared argv, in `old_argv` and in the two machines (`ArgvInv`), and which program is
installed and what is in the file between the exchange and the answer (`StoreInv`). A crash at
any step and requests in any number are part of it.

**StateTransferProofs.** `RemoteExclusion` rests on `MutexInv`, which ties the holder of
`storage_mtx` to the program counter of its task. `OwnHandler` rests on it too: only the
holder of the mutex sets a handler, so that nobody replaces it while the call runs.
`SoloTransfer` assumes that updates do not
overlap (`\A u, v \in Updaters : u = v`) and follows the state by program counter
(`TransferInv`): it is in the old storage until serialized, then in the serialized bytes.

**BackendFetchProofs.** `PostInv` ties the POST buffer to the bytes received so far, also
after a retry. `PullInv` says that what is left of the buffers is, in order, the part of
the response that was not delivered yet. From them follow `PostArrives`, `InOrder` and
the refinement `StreamImplemented`. The byte-level facts are lemmas about `Bytes`.

**RequestTaskProofs.** `CalledWithCtx` needs that a guest which runs belongs to a Script of its
task and that no method begins meanwhile. `FaultsFail` needs it: `handle_exception` and
`handle_timeout` mark the ctx that the Script has, which is that of the calling method because
the call has set it. The rest is that while a handler runs the method is marked already, for
any depth of nesting, and that nothing takes the mark away before the method ends (`FailedStep`).
`ProgramOfTask` is an action property.

**ForkHeapProofs.** `BlocksApart` is about the guest's blocks, which say nothing of the
arena. The inductive invariant `IInv` says that chunks are apart and inside the arena, that
every block is a used chunk, or in a fork one of the master's blocks, that those end at or
before the watermark, and that the fork's arena begins there. One lemma per list operation
(`Split`, `InternalFree`, `Subsume`) shows that chunks stay apart; the system calls are then
cases.

`HeapIntact` adds `ContentsInv`: the blocks of the running guest and those of the master hold
their contents in its own memory and in the master's, memory between forks is the master's, and
a block of the master is no larger than its chunk, whose size is what `on_unknown_realloc`
answers. That no call writes to another block or to the POST area is `BlocksApart` before and
after the call; that a moved block is copied completely is `MovedContents`, which asks of the
four kinds of `realloc` only that they copy no less than the smaller of the two sizes and no
more than the new one.

`HeapCoalesced` adds `TiledInv`: chunks leave no gap in the arena and no two free ones follow
each other. Then a run of free units lies in one chunk, since where that chunk ends another
free one would have to begin. No induction along the list is needed.

The theorems hold for every layout and every size of the heap, and for any number of chunks.

**TenancyProofs.** `EntersAsWritten` compares a tenant with the text of its document, and is not
inductive: groups and tenants share vectors. `GivenInv` ties each group to the object that made
it, and `CleanInv` says that a vector nobody refers to is empty, which is what `make_shared`
returns. That there always is such a vector (`FreshIsNew`) is counting: one reference for each
key and each hash, and one to spare. `TenantsAreKept` and `OneAtATime` follow from the
same invariant.

**ScriptCacheProofs.** `RegexAlive` and `FreedOnce` depend on each other and on who is alive.
`OwnershipInv` adds that an entry in use is a regex of the entry's hash, that a master owns all
it has, that a fork's master is not destroyed before the fork, and that what a fork has borrowed
is still in its master's cache (`LoansInv`). From it follow `NoRegexAfterFree`, `OneOwner` and
`TypeCorrect`. `CompiledHandlesLead` and `InheritedHandlesLead` are proved together, for all
hashes. A freed entry has hash 0, so `find` may answer its place for a pattern that hashes to 0;
such a handle leads to no regex (`LeadsNowhere`), and never to that of another pattern.

**HeaderFieldsProofs.** `FieldsInv` keeps the proto fields and the order of arrival, says that
arrival numbers grow, and ties the entries of a running foreach to the fields: indices grow, so
entry `k` lies at least `k` after the proto fields (`EntriesInv`), and as long as nothing has
moved each index is that of its field (`IndicesInv`), both as long as the guest has rewritten
none. `NoFailedAssertion` needs the first only, which is why it holds whatever calls the
callback makes; `OnlyMarkedGo` needs both. All theorems hold with and without assertions. What
a removal at any index keeps is types and order (`RKept`), and so `TypeCorrect`, `OrderStays`
and `UnsetReIsExact` have no condition; that the proto fields stay needs indices after them
(`RDone`), and `ProtoFieldsStay` excepts a guest that strays. The loops
are recursive functions: `LoopExists` shows that such a function exists, and `Rounds` is
induction over the rounds, stated for a set of rounds and not for a predicate. What each
loop has done after `k` rounds is a lemma of its own (`UnsetReDone`, `ListedIs`, `RemovalsDone`),
and so is what the memmove of `http_unsetat` leaves (`ClosedIs`, `ClosedKeeps`).

### What is model-checked only

Liveness (`ReplacedIsFreed`, `LockReleased`, `FetchEnds`, `CallReturns`),
which needs fairness and `ENABLED`, and the three counterexamples.

## 5. What is not modelled

* Vendored code: the emulator `libriscv` other than its heap and
  `gather_buffers_from_range`, QuickJS, LuaJIT, the JSON
  library, httplib, fmt and the programs that guests are built with. It is almost all of the
  lines in the repository. What this VMOD relies on of it (a call ends, a fork shares pages
  until it writes them) appears as actions and assumptions of the models.
* The builder, hashing and timing: no shared state of this code. `apply_hash` and the want
  values read what `RequestTask` has in its state.
* Calls that only set fields of Varnish objects: cacheability, TTL, synth, ban, the choice of
  a director. Values of headers, status codes, content types, log messages.
* The debugger. A debug fork stops before its first instruction (`resume_debugger`), so that
  only `main()` of a debug program can open a session, in the thread that constructs it.
* `seq_alloc_aligned` and `mmap` by guests in the heap, guests that free what they do
  not have, and a POST body larger than its buffer.
* Which patterns collide: the models take hashes from the constant `Hash`.
* A foreach inside the callback of another.
* Torn shared pointers: `load` and `configure_tenant` assign `program` and `argv` without the
  atomic functions that their readers use. The models take each assignment as one step.
* `riscv_delete`, which has no caller.
* What follows when a failure is met only half-way by the host: a `vfp_init` that fails leaves
  `bo->htc` set for a retry (`src/vmod_riscv_backend.c:233`); a state transfer that throws
  after the swap is answered like a failed construction (`src/live_update.cpp:82`, a step of
  `StateTransfer` without a property); a debug listener that cannot be opened leaves
  `rsp_script` set (`src/script_debug.cpp:30`), and the machines of a debug instance are
  destroyed after the `rsp_mtx` that their destructors lock (`src/script_debug.cpp:83`).
* The answer that a client gets for an update against what was applied: `LiveUpdate` has the
  outcomes and `BackendFetch` their delivery, but nothing in the repository says what an answer
  promises when the workspace runs out in between.
