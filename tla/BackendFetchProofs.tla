------------------------- MODULE BackendFetchProofs -------------------------
(***************************************************************************)
(* Proofs about module BackendFetch, for bodies of any length, any number  *)
(* of buffers and any windows: a request body reaches the guest complete,  *)
(* and a response body reaches Varnish complete, in order, and ends when   *)
(* it should.                                                              *)
(***************************************************************************)
EXTENDS BackendFetch, TLAPS

\* A leaf is left to the SMT solver, unless it names another prover.
USE SMTT(60)

(* Appending the bytes that follow to a run of bytes gives a longer run.   *)
LEMMA BytesAppend ==
    ASSUME NEW m \in Nat, NEW n \in Nat
    PROVE  Bytes(0, m) \o Bytes(m, n) = Bytes(0, m + n)
  BY DEF Bytes

(* A run of bytes is a sequence of its length.                             *)
LEMMA BytesLen ==
    ASSUME NEW m \in Nat, NEW n \in Nat
    PROVE  /\ Bytes(m, n) \in Seq(Nat)
           /\ Len(Bytes(m, n)) = n
  BY DEF Bytes

(* Taking all of a run of bytes gives the run.                             *)
LEMMA BytesSub ==
    ASSUME NEW n \in Nat
    PROVE  SubSeq(Bytes(0, n), 1, n) = Bytes(0, n)
  BY DEF Bytes
(* The state is well-typed, initially.                                     *)
LEMMA InitType == Init => TypeOK
  BY FetchAssumption DEF Init, TypeOK, NoPost, NoResult

(* An element of a list of buffers is a buffer.                            *)
LEMMA BufferType ==
    ASSUME NEW b \in Seq([data : Nat, size : Nat]), NEW k \in 1 .. Len(b)
    PROVE  b[k] \in [data : Nat, size : Nat]
<1> DEFINE R == [data : Nat, size : Nat]
<1>1. b \in Seq(R)
  OBVIOUS
<1> HIDE DEF R
<1>2. b[k] \in R
  BY <1>1
<1>3. QED
  BY <1>2 DEF R

(* The buffers that are gathered are a list of buffers.                    *)
LEMMA GatheredType ==
    ASSUME NEW len \in Nat, NEW b \in Gathered(len)
    PROVE  b \in Seq([data : Nat, size : Nat]) /\ Covers(b, len)
<1>1. PICK n \in 0 .. NumBuffers : b \in [1 .. n -> [data : 0 .. len, size : 1 .. len]]
  BY DEF Gathered
<1>2. n \in Nat
  BY FetchAssumption
<1>3. b \in [1 .. n -> [data : Nat, size : Nat]]
  BY <1>1, <1>2
<1> DEFINE R == [data : Nat, size : Nat]
<1>4. b \in Seq(R)
  <2>1. b \in [1 .. n -> R]
    BY <1>3
  <2> HIDE DEF R
  <2>2. QED
    BY <1>2, <2>1
<1>5. QED
  BY <1>4 DEF Gathered

(* In a pull with something to deliver, the piece is what fits, and the    *)
(* loop goes on, returns or ends.                                          *)
LEMMA PieceType ==
    ASSUME TypeOK, PullInv, pc = "pull"
    PROVE  /\ priv2 \in 1 .. Len(result.buffers)
           /\ result.buffers[priv2] \in [data : Nat, size : Nat]
           /\ result.buffers[priv2].data = Len(output)
           /\ PieceLength \in 1 .. room
           /\ PieceLength <= result.buffers[priv2].size
           /\ result.buffers[priv2].data + result.buffers[priv2].size <= result.content_length
<1>1. RestInv /\ room > 0
  BY DEF PullInv
<1>2. priv2 \in 1 .. Len(result.buffers)
  BY <1>1 DEF RestInv, TypeOK
<1>3. result.buffers[priv2] \in [data : Nat, size : Nat]
  <2>1. result.buffers \in Seq([data : Nat, size : Nat])
    BY DEF TypeOK
  <2>2. QED
    BY <1>2, <2>1, BufferType
<1>4. /\ result.buffers[priv2].size > 0
      /\ result.buffers[priv2].data + result.buffers[priv2].size <= result.content_length
      /\ result.buffers[priv2].data = Len(output)
  BY <1>1, <1>2 DEF RestInv, TypeOK
<1>5. room \in Nat
  BY DEF TypeOK
<1>6. QED
  BY <1>1, <1>2, <1>3, <1>4, <1>5 DEF PieceLength

(* What the loop leaves of the buffers.                                    *)
LEMMA AdvancedType ==
    ASSUME TypeOK, PullInv, pc = "pull"
    PROVE  /\ Advanced(PieceLength) \in Seq([data : Nat, size : Nat])
           /\ Len(Advanced(PieceLength)) = Len(result.buffers)
           /\ \A k \in 1 .. Len(result.buffers) : k # priv2 =>
                Advanced(PieceLength)[k] = result.buffers[k]
           /\ Advanced(PieceLength)[priv2].data = result.buffers[priv2].data + PieceLength
           /\ Advanced(PieceLength)[priv2].size = result.buffers[priv2].size - PieceLength
<1> DEFINE l == PieceLength
           r == [data |-> result.buffers[priv2].data + l, size |-> result.buffers[priv2].size - l]
<1>1. l \in Nat /\ l <= result.buffers[priv2].size /\ priv2 \in 1 .. Len(result.buffers)
      /\ result.buffers[priv2] \in [data : Nat, size : Nat]
  BY PieceType DEF TypeOK
<1>2. r \in [data : Nat, size : Nat]
  BY <1>1
<1>3. Advanced(l) = [result.buffers EXCEPT ![priv2] = r]
  BY DEF Advanced
<1>4. result.buffers \in Seq([data : Nat, size : Nat])
  BY DEF TypeOK
<1>5. /\ r.data = result.buffers[priv2].data + l
      /\ r.size = result.buffers[priv2].size - l
  OBVIOUS
<1> HIDE DEF l, r
<1> DEFINE B == [data : Nat, size : Nat]
<1>6. r \in B /\ result.buffers \in Seq(B)
  BY <1>2, <1>4
<1> HIDE DEF B
<1>7. /\ Advanced(l) \in Seq(B)
      /\ Len(Advanced(l)) = Len(result.buffers)
      /\ Advanced(l)[priv2] = r
      /\ \A k \in 1 .. Len(result.buffers) : k # priv2 => Advanced(l)[k] = result.buffers[k]
  BY <1>1, <1>3, <1>6
<1>8. QED
  BY <1>5, <1>7 DEF l, B

(* One round of the loop in pull, as facts about what it changes: the      *)
(* bytes that follow are appended, and the buffer advances.                *)
LEMMA PieceEffect ==
    ASSUME TypeOK, PullInv, BodyInOrder, PullPiece
    PROVE  /\ output' = Bytes(0, Len(output) + PieceLength)
           /\ Len(output') = Len(output) + PieceLength
           /\ result'.buffers = Advanced(PieceLength)
           /\ result'.content_length = result.content_length
           /\ result' \in [content_length : Nat,
                           buffers : Seq([data : Nat, size : Nat])]
<1>1. pc = "pull"
  BY DEF PullPiece
<1>2. /\ PieceLength \in Nat
      /\ result.buffers[priv2].data = Len(output)
  <2>1. PieceLength \in 1 .. room /\ result.buffers[priv2].data = Len(output)
    BY <1>1, PieceType
  <2>2. room \in Nat
    BY DEF TypeOK
  <2>3. QED
    BY <2>1, <2>2
<1>3. output = Bytes(0, Len(output)) /\ Len(output) \in Nat
  BY DEF BodyInOrder, TypeOK
<1>4. output' = output \o Bytes(Len(output), PieceLength)
  BY <1>2 DEF PullPiece
<1>5. output' = Bytes(0, Len(output) + PieceLength)
  BY ZenonT(60), <1>2, <1>3, <1>4, BytesAppend
<1>6. Len(output') = Len(output) + PieceLength
  BY <1>2, <1>3, <1>5, BytesLen
<1> DEFINE R == Seq([data : Nat, size : Nat])
<1>7. Advanced(PieceLength) \in R
  BY <1>1, AdvancedType
<1>8. result \in [content_length : Nat, buffers : R]
  BY DEF TypeOK
<1>9. result' = [result EXCEPT !.buffers = Advanced(PieceLength)]
  BY DEF PullPiece
<1> HIDE DEF R
<1>10. /\ result' \in [content_length : Nat, buffers : R]
       /\ result'.buffers = Advanced(PieceLength)
       /\ result'.content_length = result.content_length
  BY <1>7, <1>8, <1>9
<1>11. QED
  BY <1>5, <1>6, <1>10 DEF R

(* The next segment of a request body has a length.                        *)
LEMMA SegmentType ==
    ASSUME TypeOK, segment < Len(body)
    PROVE  body[segment + 1] \in Nat
<1>1. body \in Seq(Segments) /\ segment + 1 \in 1 .. Len(body)
  BY DEF TypeOK
<1>2. body[segment + 1] \in Segments
  BY <1>1
<1>3. QED
  BY ZenonT(60), <1>2, FetchAssumption

(* A segment that is streamed extends what the guest has of the body.      *)
LEMMA StreamEffect ==
    ASSUME TypeOK, PostInv, StreamSegment
    PROVE  /\ guest_post' = Bytes(0, received + body[segment + 1])
           /\ received' = received + body[segment + 1]
           /\ post' = [address |-> 1, length |-> received + body[segment + 1]]
<1>1. /\ post.length = received
      /\ guest_post = Bytes(0, received)
      /\ received \in Nat
  BY DEF StreamSegment, PostInv, TypeOK
<1>2. body[segment + 1] \in Nat
  BY SegmentType DEF StreamSegment
<1>3. guest_post' = SubSeq(guest_post, 1, received) \o Bytes(received, body[segment + 1])
  BY <1>1 DEF StreamSegment
<1>4. guest_post' = Bytes(0, received + body[segment + 1])
  BY ZenonT(60), <1>1, <1>2, <1>3, BytesSub, BytesAppend
<1>5. QED
  BY <1>1, <1>4 DEF StreamSegment, Streamed

(* Every step of a fetch keeps the state well-typed.                       *)
LEMMA TypeStep ==
    ASSUME TypeOK, PostInv, PullInv, BodyInOrder, [Next]_vars
    PROVE  TypeOK'
<1> USE FetchAssumption
<1>1. CASE GethdrsBegin
  BY <1>1 DEF GethdrsBegin, TypeOK, NoPost, requestVars, pullVars
<1>2. CASE SkipSegment
  BY <1>2 DEF SkipSegment, TypeOK, requestVars, pullVars
<1>3. CASE StreamSegment
  <2>1. body[segment + 1] \in Nat
    BY <1>3, SegmentType DEF StreamSegment
  <2>2. /\ guest_post' = Bytes(0, received + body[segment + 1])
        /\ received' = received + body[segment + 1]
        /\ post' = [address |-> 1, length |-> received + body[segment + 1]]
    BY <1>3, StreamEffect
  <2>3. received \in Nat /\ segment' = segment + 1
    BY <1>3 DEF StreamSegment, TypeOK
  <2>4. guest_post' \in Seq(Nat)
    BY <2>1, <2>2, <2>3, BytesLen
  <2>5. post' \in [address : {0, 1}, length : Nat]
    BY <2>1, <2>2, <2>3
  <2>6. QED
    BY <1>3, <2>1, <2>2, <2>3, <2>4, <2>5 DEF StreamSegment, TypeOK, requestVars, pullVars
<1>4. CASE BodyFails
  BY <1>4 DEF BodyFails, TypeOK, requestVars, postVars, pullVars
<1>5. CASE BodyReceived
  BY <1>5 DEF BodyReceived, TypeOK, requestVars, postVars, pullVars
<1>6. CASE CallReturns
  <2>1. PICK len \in 0 .. MaxContent : \E b \in Gathered(len) :
           result' = [content_length |-> len, buffers |-> b]
    BY <1>6 DEF CallReturns
  <2>2. PICK b \in Gathered(len) :
           result' = [content_length |-> len, buffers |-> b]
    BY <2>1
  <2>3. len \in Nat /\ b \in Seq([data : Nat, size : Nat])
    BY GatheredType
  <2>4. result' \in [content_length : Nat,
                     buffers : Seq([data : Nat, size : Nat])]
    BY <2>2, <2>3
  <2>5. QED
    BY <1>6, <2>4 DEF CallReturns, TypeOK, requestVars, postVars, pullVars
<1>7. CASE CallThrows
  BY <1>7 DEF CallThrows, ErrorResult, TypeOK, requestVars, postVars, pullVars
<1>8. CASE NoWorkspace
  BY <1>8 DEF NoWorkspace, TypeOK, requestVars, postVars, pullVars
<1>9. CASE Respond
  BY <1>9 DEF Respond, TypeOK, requestVars, postVars
<1>10. CASE GethdrsUpdate
  BY <1>10 DEF GethdrsUpdate, TypeOK, requestVars, postVars
<1>11. CASE UpdateFails
  BY <1>11 DEF UpdateFails, TypeOK, requestVars, postVars, pullVars
<1>12. CASE Retry
  BY <1>12 DEF Retry, TypeOK, postVars, pullVars
<1>13. CASE PullNothing
  BY <1>13 DEF PullNothing, TypeOK, requestVars, postVars, pullVars
<1>14. CASE \E max \in Windows : PullBegin(max)
  BY <1>14 DEF PullBegin, TypeOK, requestVars, postVars
<1>15. CASE PullPiece
  <2>1. pc = "pull"
    BY <1>15 DEF PullPiece
  <2>2. PieceLength \in 1 .. room /\ output' \in Seq(Nat)
    BY <1>15, <2>1, PieceType, PieceEffect, BytesLen DEF TypeOK
  <2>3. result' \in [content_length : Nat,
                      buffers : Seq([data : Nat, size : Nat])]
    BY <1>15, PieceEffect
  <2>4. room' \in Nat /\ priv2' \in Nat \ {0}
    <3>1. room' = room - PieceLength /\ priv2' \in {priv2, priv2 + 1}
      BY <1>15 DEF PullPiece
    <3>2. room \in Nat /\ priv2 \in Nat \ {0}
      BY DEF TypeOK
    <3>3. QED
      BY <2>2, <3>1, <3>2
  <2>5. pc' \in {"done", "body", "pull"}
    BY <1>15 DEF PullPiece, PullReturns
  <2>6. UNCHANGED <<director, forked, body, retries, m_ctx, segment, received, post, guest_post>>
    BY <1>15 DEF PullPiece, requestVars, postVars
  <2>7. QED
    BY <2>2, <2>3, <2>4, <2>5, <2>6 DEF TypeOK
<1>16. CASE UNCHANGED vars
  BY <1>16 DEF vars, TypeOK, requestVars, postVars, pullVars
<1>17. QED
  BY <1>1, <1>2, <1>3, <1>4, <1>5, <1>6, <1>7, <1>8, <1>9, <1>10, <1>11, <1>12, <1>13,
     <1>14, <1>15, <1>16 DEF Next, Gethdrs, Pull
(* Every step keeps what is known of the request body.                     *)
LEMMA PostStep ==
    ASSUME TypeOK, PostInv, [Next]_vars
    PROVE  PostInv'
<1>1. CASE GethdrsBegin
  <2>1. Bytes(0, 0) = <<>>
    BY DEF Bytes
  <2>2. QED
    BY <1>1, <2>1 DEF GethdrsBegin, PostInv, TypeOK, NoPost, requestVars
<1>2. CASE SkipSegment
  BY <1>2 DEF SkipSegment, PostInv, TypeOK, requestVars
<1>3. CASE StreamSegment
  <2>1. pc' = "post" /\ segment' <= Len(body')
    BY <1>3 DEF StreamSegment, TypeOK, requestVars
  <2>2. QED
    BY <1>3, <2>1, StreamEffect DEF PostInv
<1>4. CASE BodyReceived
  BY <1>4 DEF BodyReceived, PostInv, requestVars, postVars
<1>5. CASE UNCHANGED vars
  BY <1>5 DEF PostInv, vars, requestVars, postVars
<1>6. ASSUME pc' \notin {"post", "call"}
      PROVE  PostInv'
  BY <1>6 DEF PostInv
<1>7. QED
  BY <1>1, <1>2, <1>3, <1>4, <1>5, <1>6
  DEF Next, Gethdrs, Pull, BodyFails, CallReturns, CallThrows, NoWorkspace, Respond,
      GethdrsUpdate, UpdateFails, Retry, PullNothing, PullBegin, PullPiece, PullReturns

(* One round of the loop keeps what is known of the buffers.               *)
LEMMA PieceKeeps ==
    ASSUME TypeOK, PullInv, BodyInOrder, PullPiece
    PROVE  PullInv'
<1> DEFINE b == result.buffers
           c == Advanced(PieceLength)
           l == PieceLength
           n == result.content_length
<1>1. pc = "pull" /\ RestInv /\ n # 0
  BY DEF PullPiece, PullInv
<1>2. /\ priv2 \in 1 .. Len(b)
      /\ b[priv2] \in [data : Nat, size : Nat]
      /\ b[priv2].data = Len(output)
      /\ l \in 1 .. room /\ l <= b[priv2].size
  BY <1>1, PieceType
<1>3. /\ c \in Seq([data : Nat, size : Nat])
      /\ Len(c) = Len(b)
      /\ \A k \in 1 .. Len(b) : k # priv2 => c[k] = b[k]
      /\ c[priv2].data = b[priv2].data + l
      /\ c[priv2].size = b[priv2].size - l
  BY <1>1, AdvancedType
<1>4. /\ Len(output') = Len(output) + l
      /\ result'.buffers = c
      /\ result'.content_length = n
  BY PieceEffect
<1>5. /\ priv2' = IF l = b[priv2].size THEN priv2 + 1 ELSE priv2
      /\ room' = room - l
      /\ pc' = PullReturns(l)
  BY DEF PullPiece
<1>6. /\ \A k \in priv2 .. Len(b) : b[k].size > 0 /\ b[k].data + b[k].size <= n
      /\ \A k \in priv2 .. Len(b) - 1 : b[k + 1].data = b[k].data + b[k].size
      /\ b[Len(b)].data + b[Len(b)].size = n
  BY <1>1 DEF RestInv
<1>7. \A k \in 1 .. Len(b) : b[k].data \in Nat /\ b[k].size \in Nat
  <2>1. b \in Seq([data : Nat, size : Nat])
    BY DEF TypeOK
  <2>2. QED
    BY <2>1, BufferType
<1>8. room \in Nat /\ n \in Nat /\ Len(output) \in Nat /\ Len(b) \in Nat
  BY DEF TypeOK
<1>9. CASE l = b[priv2].size /\ priv2 = Len(b)
  <2>1. pc' = "done"
    BY <1>5, <1>9 DEF PullReturns
  <2>2. Len(output') = n
    BY <1>2, <1>4, <1>6, <1>9
  <2>3. QED
    BY <1>4, <2>1, <2>2 DEF PullInv
<1>10. CASE ~(l = b[priv2].size /\ priv2 = Len(b))
  <2>1. pc' = IF l = room THEN "body" ELSE "pull"
    BY <1>5, <1>10 DEF PullReturns
  <2>2. pc' = "pull" => room' > 0
    BY <1>2, <1>5, <1>8, <2>1
  <2>3. RestInv'
    <3> HIDE DEF b, c, l, n
    <3>a. priv2 \in 1 .. Len(b) /\ Len(b) \in Nat
      BY <1>2, <1>8
    <3>b. \A k \in 1 .. Len(b) : k # priv2 => c[k] = b[k]
      BY <1>3
    <3>c. /\ c[priv2].data = b[priv2].data + l
          /\ c[priv2].size = b[priv2].size - l
          /\ b[priv2].data \in Nat /\ b[priv2].size \in Nat /\ l \in Nat
          /\ l <= b[priv2].size
      BY <1>2, <1>3, <1>7, <1>8
    <3>d. Len(output') = b[priv2].data + l /\ result'.buffers = c /\ Len(c) = Len(b)
          /\ result'.content_length = n
      BY <1>2, <1>3, <1>4
    <3>1. CASE l = b[priv2].size
      <4>1. priv2' = priv2 + 1 /\ priv2 + 1 \in 1 .. Len(b)
        BY <1>5, <1>10, <3>1, <3>a
      <4>2. \A k \in priv2 + 1 .. Len(b) : c[k] = b[k] /\ k \in priv2 .. Len(b)
        BY <3>a, <3>b
      <4>3. c[priv2 + 1].data = Len(output')
        BY <1>6, <3>1, <3>a, <3>d, <4>1, <4>2
      <4>4. \A k \in priv2 + 1 .. Len(b) : c[k].size > 0 /\ c[k].data + c[k].size <= n
        BY <1>6, <4>2
      <4>5. \A k \in priv2 + 1 .. Len(b) - 1 : c[k + 1].data = c[k].data + c[k].size
        BY <1>6, <3>a, <4>2
      <4>6. c[Len(b)].data + c[Len(b)].size = n
        BY <1>6, <3>a, <4>1, <4>2
      <4>7. QED
        BY <3>a, <3>d, <4>1, <4>3, <4>4, <4>5, <4>6 DEF RestInv
    <3>2. CASE l # b[priv2].size
      <4>1. priv2' = priv2
        BY <1>5, <3>2
      <4>2. c[priv2].data + c[priv2].size = b[priv2].data + b[priv2].size /\ c[priv2].size > 0
        BY <3>2, <3>c
      <4>3. \A k \in priv2 .. Len(b) :
              /\ c[k].data + c[k].size = b[k].data + b[k].size
              /\ k # priv2 => c[k] = b[k]
        <5> SUFFICES ASSUME NEW k \in priv2 .. Len(b)
                     PROVE  /\ c[k].data + c[k].size = b[k].data + b[k].size
                            /\ k # priv2 => c[k] = b[k]
          OBVIOUS
        <5>1. k # priv2 => c[k] = b[k]
          BY <3>a, <3>b
        <5>2. QED
          BY <4>2, <5>1
      <4>4. \A k \in priv2 .. Len(b) : c[k].size > 0 /\ c[k].data + c[k].size <= n
        BY <1>6, <4>2, <4>3
      <4>5. \A k \in priv2 .. Len(b) - 1 : c[k + 1].data = c[k].data + c[k].size
        <5> SUFFICES ASSUME NEW k \in priv2 .. Len(b) - 1
                     PROVE  c[k + 1].data = c[k].data + c[k].size
          OBVIOUS
        <5>1. k \in priv2 .. Len(b) /\ k + 1 \in priv2 .. Len(b) /\ k + 1 # priv2
          BY <3>a
        <5>2. c[k + 1] = b[k + 1]
          BY <4>3, <5>1
        <5>3. c[k].data + c[k].size = b[k].data + b[k].size
          BY <4>3, <5>1
        <5>4. b[k + 1].data = b[k].data + b[k].size
          BY <1>6
        <5>5. QED
          BY <5>2, <5>3, <5>4
      <4>6. c[Len(b)].data + c[Len(b)].size = n
        <5>1. Len(b) \in priv2 .. Len(b)
          BY <3>a
        <5>2. c[Len(b)].data + c[Len(b)].size = b[Len(b)].data + b[Len(b)].size
          BY <4>3, <5>1
        <5>3. QED
          BY <1>6, <5>2
      <4>7. QED
        BY <3>a, <3>c, <3>d, <4>1, <4>4, <4>5, <4>6 DEF RestInv
    <3>3. QED
      BY <3>1, <3>2
  <2>4. QED
    BY <1>1, <1>4, <2>1, <2>2, <2>3 DEF PullInv
<1>11. QED
  BY <1>9, <1>10
(* Every step keeps what is known of the response body.                    *)
LEMMA PullStep ==
    ASSUME TypeOK, PullInv, BodyInOrder, [Next]_vars
    PROVE  PullInv'
<1>1. CASE GethdrsBegin \/ SkipSegment \/ StreamSegment \/ BodyFails \/ BodyReceived
           \/ NoWorkspace \/ UpdateFails \/ Retry
  <2>1. output' = <<>> /\ pc' \in {"fetch", "post", "call", "failed"}
    BY <1>1 DEF PullInv, GethdrsBegin, SkipSegment, StreamSegment, BodyFails, BodyReceived,
                NoWorkspace, UpdateFails, Retry, pullVars
  <2>2. QED
    BY <2>1 DEF PullInv
<1>2. CASE CallReturns
  <2>1. PICK len \in 0 .. MaxContent : \E b \in Gathered(len) :
           result' = [content_length |-> len, buffers |-> b]
    BY <1>2 DEF CallReturns
  <2>2. PICK b \in Gathered(len) :
           result' = [content_length |-> len, buffers |-> b]
    BY <2>1
  <2>3. Covers(b, len)
    BY GatheredType, FetchAssumption
  <2>4. result'.buffers = b /\ result'.content_length = len
    BY <2>2
  <2>5. Covers(result'.buffers, result'.content_length)
    BY <2>3, <2>4
  <2>6. output' = <<>> /\ pc' = "respond"
    BY <1>2 DEF CallReturns, PullInv, pullVars
  <2>7. QED
    BY <2>5, <2>6 DEF PullInv, Covers
<1>3. CASE CallThrows
  <2>1. result'.buffers = <<>> /\ result'.content_length = 0
    BY <1>3 DEF CallThrows, ErrorResult
  <2>2. Covers(result'.buffers, result'.content_length)
    BY <2>1 DEF Covers
  <2>3. output' = <<>> /\ pc' = "respond"
    BY <1>3 DEF CallThrows, PullInv, pullVars
  <2>4. QED
    BY <2>2, <2>3 DEF PullInv, Covers
<1>4. CASE Respond
  <2>1. /\ pc' = "body" /\ priv2' = 1 /\ result' = result /\ output' = output /\ output = <<>>
        /\ Covers(result.buffers, result.content_length)
    BY <1>4 DEF Respond, PullInv
  <2>2. CASE result.content_length = 0
    BY <2>1, <2>2 DEF PullInv
  <2>3. CASE result.content_length # 0
    <3>1. result.buffers # <<>> /\ Len(result.buffers) \in Nat \ {0}
      BY <2>1, <2>3 DEF Covers, TypeOK
    <3>2. RestInv'
      BY <2>1, <3>1 DEF RestInv, Covers
    <3>3. QED
      BY <2>1, <2>3, <3>2 DEF PullInv
  <2>4. QED
    BY <2>2, <2>3
<1>5. CASE GethdrsUpdate
  <2>1. PICK len \in 1 .. MaxContent :
           result' = [content_length |-> len,
                      buffers |-> <<[data |-> 0, size |-> len]>>]
    BY <1>5 DEF GethdrsUpdate
  <2>2. pc' = "body" /\ priv2' = 1 /\ output' = <<>> /\ len \in Nat /\ len > 0
    BY <1>5, FetchAssumption DEF GethdrsUpdate, PullInv
  <2>3. /\ result'.content_length = len
        /\ result'.buffers = <<[data |-> 0, size |-> len]>>
    BY <2>1
  <2>4. RestInv'
    BY <2>2, <2>3 DEF RestInv
  <2>5. QED
    BY <2>2, <2>3, <2>4 DEF PullInv
<1>6. CASE PullNothing
  BY <1>6 DEF PullNothing, PullInv, pullVars
<1>7. CASE \E max \in Windows : PullBegin(max)
  <2>1. room' > 0 /\ pc' = "pull" /\ UNCHANGED <<result, priv2, output>> /\ pc = "body"
        /\ result.content_length # 0
    BY <1>7, FetchAssumption DEF PullBegin
  <2>2. QED
    BY <2>1 DEF PullInv, RestInv
<1>8. CASE PullPiece
  BY <1>8, PieceKeeps
<1>9. CASE UNCHANGED vars
  BY <1>9 DEF PullInv, RestInv, Covers, vars, pullVars
<1>10. QED
  BY <1>1, <1>2, <1>3, <1>4, <1>5, <1>6, <1>7, <1>8, <1>9 DEF Next, Gethdrs, Pull

(* Only pull delivers bytes, and it delivers the ones that follow.         *)
LEMMA OrderStep ==
    ASSUME TypeOK, PullInv, BodyInOrder, [Next]_vars
    PROVE  BodyInOrder'
<1>1. CASE PullPiece
  BY <1>1, PieceEffect DEF BodyInOrder
<1>2. CASE ~PullPiece
  <2>1. output' = output
    BY <1>2 DEF Next, Gethdrs, Pull, GethdrsBegin, SkipSegment, StreamSegment, BodyFails,
                BodyReceived, CallReturns, CallThrows, NoWorkspace, Respond, GethdrsUpdate,
                UpdateFails, Retry, PullNothing, PullBegin, pullVars, vars
  <2>2. QED
    BY <2>1 DEF BodyInOrder
<1>3. QED
  BY <1>1, <1>2

(* The three invariants hold at the start of a fetch.                      *)
LEMMA InitInv == Init => PostInv /\ PullInv /\ BodyInOrder
  BY DEF Init, PostInv, PullInv, BodyInOrder, Bytes

(* The inductive invariant of a fetch, from gethdrs to the last pull.      *)
THEOREM FetchInv == Spec => [](TypeOK /\ PostInv /\ PullInv /\ BodyInOrder)
<1>1. Init => TypeOK /\ PostInv /\ PullInv /\ BodyInOrder
  BY InitType, InitInv
<1>2. TypeOK /\ PostInv /\ PullInv /\ BodyInOrder /\ [Next]_vars
        => (TypeOK /\ PostInv /\ PullInv /\ BodyInOrder)'
  BY TypeStep, PostStep, PullStep, OrderStep
<1>3. QED
  BY <1>1, <1>2, PTL DEF Spec

(* pull delivers the bytes of the guest's response once and in order, for  *)
(* any response, any layout of its pages and any windows.                  *)
THEOREM InOrder == Spec => []BodyInOrder
  BY FetchInv, PTL

(* A guest function that is called with a request body has all of it.      *)
THEOREM PostArrives == Spec => []PostComplete
<1>1. PostInv => PostComplete
  BY DEF PostInv, PostComplete
<1>2. QED
  BY <1>1, FetchInv, PTL
(* The mapping to BodyStream, by program counter.                          *)
StreamState == CASE pc \in {"body", "pull"} -> "open" [] pc = "done" -> "ended"
                 [] OTHER -> "closed"
StreamLength == IF pc \in {"body", "pull", "done"} THEN result.content_length ELSE 0

(* A step of the fetch is a step of the stream, or leaves it as it is.     *)
LEMMA StreamStep ==
    ASSUME TypeOK, PullInv, BodyInOrder, [Next]_vars
    PROVE  BS!Next \/ UNCHANGED <<StreamState, StreamLength, Len(output)>>
<1> USE DEF StreamState, StreamLength
<1>1. CASE GethdrsBegin \/ SkipSegment \/ StreamSegment \/ BodyFails \/ BodyReceived
           \/ NoWorkspace \/ UpdateFails \/ Retry \/ CallReturns \/ CallThrows
  BY <1>1 DEF GethdrsBegin, SkipSegment, StreamSegment, BodyFails, BodyReceived,
              NoWorkspace, UpdateFails, Retry, CallReturns, CallThrows, pullVars
<1>2. CASE Respond \/ GethdrsUpdate
  <2>1. StreamState = "closed" /\ StreamState' = "open" /\ output' = output
    BY <1>2 DEF Respond, GethdrsUpdate
  <2>2. StreamLength' \in Nat
    <3>1. CASE Respond
      BY <3>1 DEF Respond, TypeOK
    <3>2. CASE GethdrsUpdate
      <4>1. PICK len \in 1 .. MaxContent :
               result' = [content_length |-> len,
                          buffers |-> <<[data |-> 0, size |-> len]>>]
        BY <3>2 DEF GethdrsUpdate
      <4>2. result'.content_length = len /\ pc' = "body"
        BY <3>2, <4>1 DEF GethdrsUpdate
      <4>3. QED
        BY <4>2
    <3>3. QED
      BY <1>2, <3>1, <3>2
  <2>3. BS!Announce
    BY <2>1, <2>2 DEF BS!Announce
  <2>4. QED
    BY <2>3 DEF BS!Next
<1>3. CASE PullNothing
  <2>1. /\ StreamState = "open" /\ StreamState' = "ended"
        /\ StreamLength = 0 /\ StreamLength' = 0
        /\ output = <<>> /\ output' = <<>>
    BY <1>3 DEF PullNothing, PullInv, pullVars
  <2>2. Len(output) = 0 /\ Len(output') = 0
    BY <2>1
  <2>3. BS!End
    BY <2>1, <2>2 DEF BS!End
  <2>4. QED
    BY <2>3 DEF BS!Next
<1>4. CASE \E max \in Windows : PullBegin(max)
  BY <1>4 DEF PullBegin
<1>5. CASE PullPiece
  <2>1. pc = "pull" /\ StreamState = "open" /\ StreamLength = result.content_length
    BY <1>5 DEF PullPiece
  <2>2. /\ result.buffers[priv2] \in [data : Nat, size : Nat]
        /\ result.buffers[priv2].data = Len(output)
        /\ PieceLength \in 1 .. room
        /\ PieceLength <= result.buffers[priv2].size
        /\ result.buffers[priv2].data + result.buffers[priv2].size <= result.content_length
    BY <2>1, PieceType
  <2>3. Len(output') = Len(output) + PieceLength /\ result'.content_length = result.content_length
    BY <1>5, PieceEffect
  <2>4. room \in Nat /\ result.content_length \in Nat /\ Len(output) \in Nat
    BY DEF TypeOK
  <2>5. Len(output') \in Len(output) + 1 .. result.content_length
    BY <2>2, <2>3, <2>4
  <2>6. CASE pc' = "done"
    <3>1. Len(output') = result'.content_length
      BY <1>5, <2>6, PieceKeeps DEF PullInv
    <3>2. StreamState' = "ended" /\ StreamLength' = StreamLength
      BY <2>1, <2>3, <2>6
    <3>3. BS!End
      BY <2>1, <2>3, <2>4, <2>5, <3>1, <3>2 DEF BS!End
    <3>4. QED
      BY <3>3 DEF BS!Next
  <2>7. CASE pc' # "done"
    <3>1. pc' \in {"body", "pull"}
      BY <1>5, <2>7 DEF PullPiece, PullReturns
    <3>2. StreamState' = StreamState /\ StreamLength' = StreamLength
      BY <2>1, <2>3, <3>1
    <3>3. BS!Send
      BY <2>1, <2>5, <3>2 DEF BS!Send
    <3>4. QED
      BY <3>3 DEF BS!Next
  <2>8. QED
    BY <2>6, <2>7
<1>6. CASE UNCHANGED vars
  BY <1>6 DEF vars, pullVars
<1>7. QED
  BY <1>1, <1>2, <1>3, <1>4, <1>5, <1>6 DEF Next, Gethdrs, Pull

(* The fetch processor implements the body stream that Varnish expects:    *)
(* what is announced is delivered, and the end comes with the last byte.   *)
THEOREM StreamImplemented == Spec => ImplementsBodyStream
<1>1. Init => BS!Init
  BY DEF Init, BS!Init
<1>2. TypeOK /\ PullInv /\ BodyInOrder /\ [Next]_vars => [BS!Next]_(BS!vars)
  BY StreamStep DEF BS!vars, StreamState, StreamLength
<1>3. QED
  BY <1>1, <1>2, FetchInv, PTL DEF Spec, ImplementsBodyStream, BS!Spec
=============================================================================
