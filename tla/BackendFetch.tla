---------------------------- MODULE BackendFetch ----------------------------
(***************************************************************************)
(* One fetch task whose backend is a guest program (riscv.vm_backend) or   *)
(* the updater (riscv.live_update, riscv.live_debug): the request body is  *)
(* streamed into the guest, the guest's function produces a result, and    *)
(* Varnish pulls that result, piece by piece, as the response body.        *)
(*                                                                         *)
(* A byte is the number of its place in the body it belongs to, so that a  *)
(* sequence of bytes shows what was lost, repeated or moved.  Every VCL    *)
(* method and gethdrs has a vrt_ctx of its own, on its own stack: m_ctx    *)
(* tells whose the Script points to.                                       *)
(***************************************************************************)
EXTENDS Integers, Sequences

CONSTANTS
    Segments,       \* sizes of the segments in which a request body arrives
    MaxSegments,    \* bound: segments of a request body
    MaxContent,     \* bound: bytes of a response body
    NumBuffers,     \* VMBE_NUM_BUFFERS
    Windows,        \* room that Varnish offers to one pull
    MaxRetries      \* bound: return(retry) of one fetch

ASSUME FetchAssumption ==
    /\ Segments \subseteq Nat /\ MaxSegments \in Nat
    /\ MaxContent \in Nat /\ NumBuffers \in Nat \ {0}
    /\ Windows \subseteq Nat \ {0}
    /\ MaxRetries \in Nat

VARIABLES
    pc,             \* where the task is
    director,       \* "vm" or "update"
    forked,         \* this task, and not the client's, has forked a Script
    body,           \* sizes of the segments of the request body
    m_ctx,          \* Script::m_ctx: the method whose vrt_ctx it is
    segment,        \* segments received so far
    received,       \* bytes received so far
    post,           \* post.address (0: not allocated) and post.length
    guest_post,     \* the bytes at post.address in the guest
    result,         \* struct backend_result: the length and the buffers
    priv2,          \* vfe->priv2: the buffer to go on with, the first being 1
    room,           \* max: what is left of the window in this pull
    output,         \* the bytes delivered to Varnish
    retries         \* how often the fetch was tried again

requestVars == <<director, forked, body, retries>>
postVars    == <<segment, received, post, guest_post>>
pullVars    == <<priv2, room, output>>
vars == <<pc, requestVars, m_ctx, postVars, result, pullVars>>

\* The bytes numbered from, from + 1, ... from + len - 1.
Bytes(from, len) == [i \in 1 .. len |-> from + i - 1]

NoPost == [address |-> 0, length |-> 0]
NoResult == [content_length |-> 0, buffers |-> <<>>]

Init ==
    /\ pc = "fetch"
    /\ director \in {"vm", "update"}
    /\ forked \in BOOLEAN
    /\ body \in UNION {[1 .. n -> Segments] : n \in 0 .. MaxSegments}
    /\ m_ctx = "fetch"
    /\ segment = 0 /\ received = 0 /\ post = NoPost /\ guest_post = <<>>
    /\ result = NoResult
    /\ priv2 = 1 /\ room = 0 /\ output = <<>>
    /\ retries = 0

(* Faulty variants of the definition that the name begins with, one for    *)
(* each way in which the code could be wrong.  Nothing below uses them.    *)
Streamed_notCounted(len) == [post EXCEPT !.address = 1]
Advanced_sizeOnly(len) == [result.buffers EXCEPT ![priv2].size = @ - len]
PullReturns_afterBuffer(len) ==
    IF len = result.buffers[priv2].size THEN "done" ELSE IF len = room THEN "body" ELSE "pull"
PullReturns_ignoresWindow(len) ==
    IF len = result.buffers[priv2].size /\ priv2 = Len(result.buffers) THEN "done" ELSE "pull"

-----------------------------------------------------------------------------
(* gethdrs of the VM backend: first the request body, then the result.     *)

\* A new attempt: the arguments are those that vm_backend has set up, and a
\* request with a body (which may turn out to be empty) is streamed first.
GethdrsBegin ==
    /\ pc = "fetch" /\ director = "vm"
    /\ \/ pc' = "post"
       \/ pc' = "call" /\ body = <<>>
    /\ segment' = 0 /\ received' = 0 /\ post' = NoPost /\ guest_post' = <<>>
    /\ UNCHANGED <<requestVars, m_ctx, result, pullVars>>

\* An empty segment is not passed on.
SkipSegment ==
    /\ pc = "post"
    /\ segment < Len(body) /\ body[segment + 1] = 0
    /\ segment' = segment + 1
    /\ UNCHANGED <<pc, requestVars, m_ctx, received, post, guest_post, result, pullVars>>

\* The buffer is allocated with the first bytes, and the length grows.
Streamed(len) == [address |-> 1, length |-> post.length + len]

\* riscv_backend_streaming_post: the segment is copied behind those before it.
\* The old ctx of the Script is not put back.
StreamSegment ==
    /\ pc = "post"
    /\ segment < Len(body) /\ body[segment + 1] # 0
    /\ forked
    /\ LET len == body[segment + 1]
       IN  /\ guest_post' = SubSeq(guest_post, 1, post.length) \o Bytes(received, len)
           /\ post' = Streamed(len)
           /\ received' = received + len
    /\ m_ctx' = "gethdrs"
    /\ segment' = segment + 1
    /\ UNCHANGED <<pc, requestVars, result, pullVars>>

\* Iterating over the body fails; or there is no Script, or the guest has no
\* memory for the segment: then the old ctx is put back.
BodyFails ==
    /\ pc = "post"
    /\ pc' = "failed"
    /\ UNCHANGED <<requestVars, m_ctx, postVars, result, pullVars>>

BodyReceived ==
    /\ pc = "post" /\ segment = Len(body)
    /\ pc' = "call"
    /\ UNCHANGED <<requestVars, m_ctx, postVars, result, pullVars>>

\* The buffers b hold len bytes of guest memory in order, each at least one.
Covers(b, len) ==
    /\ \A k \in 1 .. Len(b) : b[k].size > 0 /\ b[k].data + b[k].size <= len
    /\ len = 0 <=> b = <<>>
    /\ b # <<>> => b[1].data = 0 /\ b[Len(b)].data + b[Len(b)].size = len
    /\ \A k \in 1 .. Len(b) - 1 : b[k + 1].data = b[k].data + b[k].size

\* gather_buffers_from_range: runs of adjacent pages, NumBuffers at most.
Gathered(len) ==
    {b \in UNION {[1 .. n -> [data : 0 .. len, size : 1 .. len]] : n \in 0 .. NumBuffers} :
        Covers(b, len)}

\* The guest's function returns; its ctx is that of gethdrs while it runs, and
\* the ctx from before is put back.
CallReturns ==
    /\ pc = "call" /\ forked
    /\ \E len \in 0 .. MaxContent :
         \E b \in Gathered(len) : result' = [content_length |-> len, buffers |-> b]
    /\ pc' = "respond"
    /\ UNCHANGED <<requestVars, m_ctx, postVars, pullVars>>

ErrorResult == [content_length |-> 0, buffers |-> <<>>]

\* There is no Script, the guest faults or runs out of time, or its result
\* takes more workspace or more buffers than there are.
CallThrows ==
    /\ pc = "call"
    /\ result' = ErrorResult
    /\ pc' = "respond"
    /\ UNCHANGED <<requestVars, m_ctx, postVars, pullVars>>

\* No workspace for the result, for htc or for the fetch processor.
NoWorkspace ==
    /\ pc \in {"call", "respond"}
    /\ pc' = "failed"
    /\ UNCHANGED <<requestVars, m_ctx, postVars, result, pullVars>>

\* The headers are complete and the fetch processor is pushed.
Respond ==
    /\ pc = "respond"
    /\ pc' = "body"
    /\ priv2' = 1
    /\ UNCHANGED <<requestVars, m_ctx, postVars, result, room, output>>

\* gethdrs of the updater: the upload is collected, and the answer of
\* riscv_update, never empty, is copied to the workspace.
GethdrsUpdate ==
    /\ pc = "fetch" /\ director = "update"
    /\ \E len \in 1 .. MaxContent :
         result' = [content_length |-> len, buffers |-> <<[data |-> 0, size |-> len]>>]
    /\ pc' = "body"
    /\ priv2' = 1
    /\ UNCHANGED <<requestVars, m_ctx, postVars, room, output>>

\* The upload is too large, or there is no workspace for htc or the answer.
UpdateFails ==
    /\ pc = "fetch" /\ director = "update"
    /\ pc' = "failed"
    /\ UNCHANGED <<requestVars, m_ctx, postVars, result, pullVars>>

\* vcl_backend_error returns retry; vcl_backend_fetch may call the guest again.
Retry ==
    /\ pc = "failed" /\ retries < MaxRetries
    /\ retries' = retries + 1
    /\ pc' = "fetch"
    /\ m_ctx' \in {m_ctx, "fetch"}
    /\ UNCHANGED <<director, forked, body, postVars, result, pullVars>>

-----------------------------------------------------------------------------
(* pull: Varnish offers room for some bytes, and is told OK or END.        *)

PullNothing ==
    /\ pc = "body" /\ result.content_length = 0
    /\ pc' = "done"
    /\ UNCHANGED <<requestVars, m_ctx, postVars, result, pullVars>>

PullBegin(max) ==
    /\ pc = "body" /\ result.content_length # 0
    /\ pc' = "pull"
    /\ room' = max
    /\ UNCHANGED <<requestVars, m_ctx, postVars, result, priv2, output>>

\* What fits of the current buffer.
PieceLength ==
    IF result.buffers[priv2].size > room THEN room ELSE result.buffers[priv2].size

Advanced(len) ==
    [result.buffers EXCEPT ![priv2] = [data |-> @.data + len, size |-> @.size - len]]

\* VFP_END after the last buffer, VFP_OK when the window is full.
PullReturns(len) ==
    IF len = result.buffers[priv2].size /\ priv2 = Len(result.buffers) THEN "done"
    ELSE IF len = room THEN "body"
    ELSE "pull"

\* One round of the loop.  The updater's pull has the one buffer, and is this
\* loop with a single round.
PullPiece ==
    /\ pc = "pull"
    /\ LET len == PieceLength
       IN  /\ output' = output \o Bytes(result.buffers[priv2].data, len)
           /\ result' = [result EXCEPT !.buffers = Advanced(len)]
           /\ priv2' = IF len = result.buffers[priv2].size THEN priv2 + 1 ELSE priv2
           /\ room' = room - len
           /\ pc' = PullReturns(len)
    /\ UNCHANGED <<requestVars, m_ctx, postVars>>

-----------------------------------------------------------------------------
Gethdrs ==
    \/ GethdrsBegin \/ SkipSegment \/ StreamSegment \/ BodyFails \/ BodyReceived
    \/ CallReturns \/ CallThrows \/ NoWorkspace \/ Respond
    \/ GethdrsUpdate \/ UpdateFails

Pull == PullNothing \/ (\E max \in Windows : PullBegin(max)) \/ PullPiece

Next == Gethdrs \/ Retry \/ Pull

Spec == Init /\ [][Next]_vars

(* Every step of a fetch that has begun is a call that returns, and Varnish *)
(* goes on pulling until it is told the end.                               *)
FairSpec == Spec /\ WF_vars(Gethdrs) /\ WF_vars(Pull)

-----------------------------------------------------------------------------
(* Properties.                                                             *)

\* The type invariant.
TypeOK ==
    /\ pc \in {"fetch", "post", "call", "respond", "body", "pull", "done", "failed"}
    /\ director \in {"vm", "update"} /\ forked \in BOOLEAN
    /\ body \in Seq(Segments)
    /\ m_ctx \in {"fetch", "gethdrs"}
    /\ segment \in Nat /\ received \in Nat
    /\ post \in [address : {0, 1}, length : Nat]
    /\ guest_post \in Seq(Nat)
    /\ result \in [content_length : Nat, buffers : Seq([data : Nat, size : Nat])]
    /\ priv2 \in Nat \ {0} /\ room \in Nat /\ output \in Seq(Nat)
    /\ retries \in 0 .. MaxRetries

\* `building a sequential, complete buffer' (backend.cpp:111): the function of
\* the guest that gets a request body finds all the bytes received, in order,
\* at the address, and the length it is told is theirs; also when an earlier
\* attempt failed half-way.
PostComplete ==
    pc = "call" =>
        segment = Len(body) /\ guest_post = Bytes(0, received) /\ post.length = received

\* pull delivers each byte that the guest returned once and in order, however
\* its pages lie and whatever windows Varnish offers.
BodyInOrder == output = Bytes(0, Len(output))

\* Every fetch ends: each pull either ends it or makes progress.
FetchEnds == pc \notin {"done", "failed"} ~> pc \in {"done", "failed"}

\* `Restore old ctx for backend_response' (backend.cpp:53): once gethdrs has
\* returned, the Script does not point to the vrt_ctx on its stack.
CtxRestored == pc \in {"body", "done"} => m_ctx # "gethdrs"

BS == INSTANCE BodyStream WITH
        state <- CASE pc \in {"body", "pull"} -> "open" [] pc = "done" -> "ended"
                   [] OTHER -> "closed",
        length <- IF pc \in {"body", "pull", "done"} THEN result.content_length ELSE 0,
        sent <- Len(output)

\* The response body is a stream as Varnish expects it: what Content-Length
\* announces is delivered, no more, and VFP_END comes with the last byte.
ImplementsBodyStream == BS!Spec

-----------------------------------------------------------------------------
(* The inductive invariants behind PostComplete, and behind BodyInOrder    *)
(* and ImplementsBodyStream.                                               *)

PostInv ==
    /\ pc \in {"post", "call"} =>
         segment <= Len(body) /\ post.length = received /\ guest_post = Bytes(0, received)
    /\ pc = "call" => segment = Len(body)

\* What the buffers from priv2 on still hold is what was not delivered yet.
RestInv ==
    LET b == result.buffers
    IN  /\ priv2 <= Len(b)
        /\ b[priv2].data = Len(output)
        /\ \A k \in priv2 .. Len(b) :
             b[k].size > 0 /\ b[k].data + b[k].size <= result.content_length
        /\ \A k \in priv2 .. Len(b) - 1 : b[k + 1].data = b[k].data + b[k].size
        /\ b[Len(b)].data + b[Len(b)].size = result.content_length

\* Where pull stands in the list of buffers that riscv_backend_call gathered.
PullInv ==
    /\ pc \in {"fetch", "post", "call", "respond", "failed"} => output = <<>>
    /\ pc = "respond" => Covers(result.buffers, result.content_length)
    /\ pc = "pull" => result.content_length # 0 /\ room > 0
    /\ pc \in {"body", "pull"} =>
         IF result.content_length = 0 THEN output = <<>> ELSE RestInv
    /\ pc = "done" => Len(output) = result.content_length
=============================================================================
