---------------------------- MODULE HeaderFields ----------------------------
(***************************************************************************)
(* The header fields of an HTTP object, as the system calls of a guest     *)
(* change them (script_functions.cpp).  The object is an array with        *)
(* field_count fields in use, of at most fields_max.  The first HdrFirst   *)
(* are the proto fields (method, URL, status, ...).  The guest names a     *)
(* field by its index, and removing one moves all later fields back.       *)
(*                                                                         *)
(* foreach_header_field writes the index of each field into guest memory,  *)
(* runs a callback of the guest, and afterwards removes what the callback  *)
(* flagged as deleted.  The callback is guest code: it makes other calls   *)
(* too, so indices written before it may be stale after it, and it may     *)
(* write indices of its own over them.  It may also stop early, as preempt *)
(* catches its exceptions and its timeout.                                 *)
(*                                                                         *)
(* http_unsetat has assertions against proto fields and bad indices.  They *)
(* are those of <cassert>, which a release build (NDEBUG) leaves out: the  *)
(* constant Asserts says whether they are there.                           *)
(*                                                                         *)
(* Positions start at 1, so index i of the code is position i + 1.  What a *)
(* field says is left out, but for being blank.  A field has a `slot', its *)
(* number in order of arrival.  It is kept when the field gets a new value *)
(* and exists for the properties only.  A call with an index out of bounds *)
(* throws and changes nothing: it has no action.  A foreach in a callback  *)
(* of another is left out.                                                 *)
(***************************************************************************)
EXTENDS Integers, Sequences

CONSTANTS HdrFirst,    \* HDR_FIRST: how many proto fields there are
          FieldsMax,   \* fields_max
          Asserts,     \* the build has assertions
          MaxSlot      \* bound: how many fields arrive in all

ASSUME FieldsAssumption ==
    /\ HdrFirst \in Nat \ {0} /\ FieldsMax \in Nat /\ MaxSlot \in Nat
    /\ HdrFirst <= FieldsMax /\ FieldsMax <= MaxSlot
    /\ Asserts \in BOOLEAN

VARIABLES fields,    \* field_array up to field_count: records [slot, blank]
          received,  \* how many fields the object had when it was received
          arrived,   \* how many slots were given out
          entries,   \* foreach: guest_header_field records in guest memory
          iterating, \* foreach: the callback is running
          moved,     \* foreach: a call of the callback removed fields
          rewritten, \* foreach: the callback wrote an index of its own
          strayed,   \* since it was received or rolled back, a guest has named a
                     \* proto field to header_field_copy, or rewritten an index
          halted     \* http_unsetat has ended the process

vars == <<fields, received, arrived, entries, iterating, moved, rewritten, strayed, halted>>

HdrInvalid == FieldsMax + 1
Received(n) == [i \in 1 .. n |-> [slot |-> i, blank |-> FALSE]]
Slots(f) == {f[i].slot : i \in 1 .. Len(f)}

Init ==
    /\ received \in HdrFirst .. FieldsMax
    /\ fields = Received(received) /\ arrived = received
    /\ entries = <<>> /\ iterating = FALSE /\ moved = FALSE
    /\ rewritten = FALSE /\ strayed = FALSE /\ halted = FALSE

\* The memmove of http_unsetat: what follows the removed field moves back.
Closed(f, i) == [k \in 1 .. Len(f) - 1 |-> IF k < i THEN f[k] ELSE f[k + 1]]

-----------------------------------------------------------------------------
(* Faulty variants, for checking that the properties notice them.          *)

HasRoom_unchecked(f) == TRUE
HttpUnsetAt_swapsLast(i) ==
    /\ halted' = FALSE
    /\ fields' = SubSeq([fields EXCEPT ![i] = fields[Len(fields)]], 1, Len(fields) - 1)
    /\ moved' = iterating
HeaderFieldUnset_proto(i) ==
    /\ i <= Len(fields)
    /\ halted' = FALSE /\ fields' = Closed(fields, i) /\ moved' = iterating
    /\ UNCHANGED <<received, arrived, entries, iterating, rewritten, strayed>>
RePlaces_bottomUp(n) == [k \in 1 .. n - HdrFirst |-> HdrFirst + k]
Removal_ignoresMoves(st, e) ==
    IF e.deleted /\ e.index <= Len(st.fields)
    THEN [st EXCEPT !.fields = Closed(st.fields, e.index)]
    ELSE st
Removal_unchecked(st, e) ==
    LET i == e.index - st.dcount
    IN  IF ~e.deleted THEN st
        ELSE IF i > HdrFirst /\ i <= Len(st.fields)
        THEN [st EXCEPT !.fields = Closed(st.fields, i), !.dcount = @ + 1]
        ELSE [st EXCEPT !.ok = FALSE]

-----------------------------------------------------------------------------
(* Helpers of the system calls.                                            *)

IsValidIndex(f, i) == i <= Len(f)

HasRoom(f) == Len(f) < FieldsMax

\* The assertions at the start of http_unsetat.
Asserted(f, i) == i > HdrFirst /\ i <= Len(f)

\* Whether it ends the process: an assertion fails, or the build has none and the
\* memmove starts outside of the array.
Fatal(f, i) == IF Asserts THEN ~Asserted(f, i) ELSE i \notin 1 .. Len(f)

\* http_unsetat for a system call that removes one field.
HttpUnsetAt(i) ==
    /\ halted' = Fatal(fields, i)
    /\ fields' = IF Fatal(fields, i) THEN fields ELSE Closed(fields, i)
    /\ moved' = iterating

\* A field is added at the end, or lost when there is no room.
Stored(b) ==
    /\ arrived < MaxSlot
    /\ IF HasRoom(fields)
       THEN /\ fields' = Append(fields, [slot |-> arrived + 1, blank |-> b])
            /\ arrived' = arrived + 1
       ELSE UNCHANGED <<fields, arrived>>

-----------------------------------------------------------------------------
(* The system calls of the guest, inside of a callback or not.             *)

HeaderFieldAppend(b) ==
    /\ Stored(b)
    /\ UNCHANGED <<received, entries, iterating, moved, rewritten, strayed, halted>>

\* Any field is copied to the end, a proto field too.
HttpCopyFrom(i) ==
    /\ IsValidIndex(fields, i)
    /\ Stored(fields[i].blank)
    /\ UNCHANGED <<received, entries, iterating, moved, rewritten, strayed, halted>>

HeaderFieldSet(i, b) ==
    /\ IsValidIndex(fields, i)
    /\ fields' = [fields EXCEPT ![i].blank = b]
    /\ UNCHANGED <<received, arrived, entries, iterating, moved, rewritten, strayed, halted>>

\* The value of another field, of this object or of another one.
HeaderFieldCopy(i, b) ==
    /\ IsValidIndex(fields, i)
    /\ fields' = [fields EXCEPT ![i].blank = b]
    /\ UNCHANGED <<received, arrived, entries, iterating, moved, rewritten, strayed, halted>>

\* The other field does not exist: the field is unset, as in VCL.  It may be a
\* proto field.
HeaderFieldCopyInvalid(i) ==
    /\ IsValidIndex(fields, i)
    /\ HttpUnsetAt(i)
    /\ strayed' = (strayed \/ i <= HdrFirst)
    /\ UNCHANGED <<received, arrived, entries, iterating, rewritten>>

HeaderFieldUnset(i) ==
    /\ IsValidIndex(fields, i) /\ i > HdrFirst
    /\ HttpUnsetAt(i)
    /\ UNCHANGED <<received, arrived, entries, iterating, rewritten, strayed>>

\* The places in the order in which http_unset_re visits them.
RePlaces(n) == [k \in 1 .. n - HdrFirst |-> n + 1 - k]

\* One round of its loop; M has the slots of the fields that match.
ReRound(f, i, M) ==
    IF i <= Len(f) /\ f[i].slot \in M THEN Closed(f, i) ELSE f

UnsetRe(f, M) ==
    LET rounds == IF Len(f) > HdrFirst THEN Len(f) - HdrFirst ELSE 0
        after[k \in 0 .. rounds] ==
          IF k = 0 THEN f ELSE ReRound(after[k - 1], RePlaces(Len(f))[k], M)
    IN  after[rounds]

HttpUnsetRe(M) ==
    /\ fields' = UnsetRe(fields, M)
    /\ moved' = (iterating /\ (moved \/ fields' # fields))
    /\ UNCHANGED <<received, arrived, entries, iterating, rewritten, strayed, halted>>

\* VRT_Rollback puts back the fields that were received.
HttpRollback ==
    /\ fields' = Received(received)
    /\ moved' = iterating /\ strayed' = FALSE
    /\ UNCHANGED <<received, arrived, entries, iterating, rewritten, halted>>

-----------------------------------------------------------------------------
(* foreach_header_field.                                                   *)

\* The fields it hands to the guest: no proto fields and no blank ones.
Listed(f) ==
    LET list[i \in 0 .. Len(f)] ==
          IF i <= HdrFirst THEN <<>>
          ELSE IF f[i].blank THEN list[i - 1]
          ELSE Append(list[i - 1], [index |-> i, slot |-> f[i].slot, deleted |-> FALSE])
    IN  list[Len(f)]

ForeachBegin ==
    /\ ~iterating
    /\ entries' = Listed(fields)
    /\ iterating' = TRUE
    /\ UNCHANGED <<fields, received, arrived, moved, rewritten, strayed, halted>>

\* A guest that sets the flag in its memory.  It leaves the index or writes
\* another one.
GuestFlags(k, i) ==
    /\ iterating /\ ~entries[k].deleted
    /\ entries' = [entries EXCEPT ![k].deleted = TRUE, ![k].index = i]
    /\ rewritten' = (rewritten \/ i # entries[k].index)
    /\ UNCHANGED <<fields, received, arrived, iterating, moved, strayed, halted>>

\* HeaderField::unset of the C++ API, which also gives up the index.
ApiUnset(k) ==
    /\ iterating /\ ~entries[k].deleted
    /\ entries' = [entries EXCEPT ![k].deleted = TRUE, ![k].index = HdrInvalid]
    /\ UNCHANGED <<fields, received, arrived, iterating, moved, rewritten, strayed, halted>>

\* One round of the loop after the callback.
Removal(st, e) ==
    LET i == e.index - st.dcount
    IN  IF st.fatal \/ ~e.deleted \/ ~IsValidIndex(st.fields, e.index) THEN st
        ELSE [fields |-> IF Fatal(st.fields, i) THEN st.fields ELSE Closed(st.fields, i),
              dcount |-> st.dcount + 1,
              ok     |-> st.ok /\ Asserted(st.fields, i),
              fatal  |-> Fatal(st.fields, i)]

Removals(f, e) ==
    LET after[k \in 0 .. Len(e)] ==
          IF k = 0 THEN [fields |-> f, dcount |-> 0, ok |-> TRUE, fatal |-> FALSE]
          ELSE Removal(after[k - 1], e[k])
    IN  after[Len(e)]

\* The callback has returned or was stopped: the flagged fields are removed.
ForeachEnd ==
    /\ iterating
    /\ fields' = Removals(fields, entries).fields
    /\ halted' = Removals(fields, entries).fatal
    /\ strayed' = (strayed \/ rewritten)
    /\ entries' = <<>> /\ iterating' = FALSE /\ moved' = FALSE /\ rewritten' = FALSE
    /\ UNCHANGED <<received, arrived>>

-----------------------------------------------------------------------------
Next ==
    /\ ~halted
    /\ \/ \E b \in BOOLEAN : HeaderFieldAppend(b)
       \/ \E i \in 1 .. FieldsMax :
            \/ HttpCopyFrom(i) \/ HeaderFieldUnset(i) \/ HeaderFieldCopyInvalid(i)
            \/ \E b \in BOOLEAN : HeaderFieldSet(i, b) \/ HeaderFieldCopy(i, b)
       \/ \E M \in SUBSET Slots(SubSeq(fields, HdrFirst + 1, Len(fields))) : HttpUnsetRe(M)
       \/ HttpRollback
       \/ ForeachBegin \/ ForeachEnd
       \/ \E k \in 1 .. Len(entries) :
            ApiUnset(k) \/ \E i \in 1 .. FieldsMax : GuestFlags(k, i)

Spec == Init /\ [][Next]_vars

-----------------------------------------------------------------------------
(* Properties.                                                             *)

Field == [slot : 1 .. MaxSlot, blank : BOOLEAN]
GuestField == [index : 1 .. HdrInvalid, slot : 1 .. MaxSlot, deleted : BOOLEAN]

\* The type invariant; `Avoid overflowing dest' (script_functions.cpp:638): the
\* array is never overrun.
TypeOK ==
    /\ received \in HdrFirst .. FieldsMax /\ arrived \in HdrFirst .. MaxSlot
    /\ fields \in Seq(Field) /\ Len(fields) <= FieldsMax
    /\ entries \in Seq(GuestField)
    /\ {iterating, moved, rewritten, strayed, halted} \subseteq BOOLEAN

\* Every proto field is in its place.
ProtoInPlace == HdrFirst <= Len(fields) /\ \A i \in 1 .. HdrFirst : fields[i].slot = i

\* `You are not allowed to unset proto fields' (script_functions.cpp:865): no
\* sequence of calls, nor a foreach with stale indices, removes or moves one,
\* unless the guest names it to header_field_copy, which has no such check, or
\* hands foreach an index of its own.  A rollback puts all of them back.
ProtoKept == ~strayed => ProtoInPlace

InOrder(f) == \A i, j \in 1 .. Len(f) : i < j => f[i].slot < f[j].slot

\* `preserves order' (script_functions.cpp:115): fields stay in the order in
\* which they arrived, whichever of them are removed and by which call.
OrderKept == InOrder(fields)

\* http_unset_re removes while it iterates: for every set of matching fields,
\* exactly these are gone, and nothing below HDR_FIRST; the others are unchanged
\* and in order.
UnsetReExact ==
    \A M \in SUBSET Slots(fields) :
        LET g == UnsetRe(fields, M)
        IN  /\ {g[i] : i \in 1 .. Len(g)} =
                 {fields[i] : i \in {j \in 1 .. Len(fields) :
                    fields[j].slot \notin M \/ j <= HdrFirst}}
            /\ InOrder(g)

Marked == {entries[k].slot : k \in {k \in 1 .. Len(entries) : entries[k].deleted}}

\* `Deleted entries moves everything back' (script_functions.cpp:582): a foreach
\* removes only fields that its callback marked, if no call of the callback has
\* moved fields and it left the indices alone; each index is corrected for the
\* removals before it.
ForeachOnlyMarked ==
    [][iterating /\ ~iterating' /\ ~moved /\ ~rewritten =>
         Slots(fields) \ Slots(fields') \subseteq Marked]_vars

\* `Avoid proto fields', `Out of bounds' (script_functions.cpp:107): indices that
\* were written before the callback are used after it.  Even when they are stale,
\* a foreach whose callback left them alone meets the assertions of http_unsetat,
\* so it does the same whether the build has them or not.
ForeachMeetsAssertions ==
    [][iterating /\ ~iterating' /\ ~rewritten => Removals(fields, entries).ok]_vars

\* `During foreach we must delay unset to avoid index confusion'
\* (api_impl.h:190): a field that the callback has unset is gone after the
\* foreach, if no call of the callback has moved fields.  It may stay: the
\* index of the last field is compared with a count that is already lower.
MarkedRemoved ==
    [][iterating /\ ~iterating' /\ ~moved /\ ~rewritten =>
         Marked \cap Slots(fields') = {}]_vars

-----------------------------------------------------------------------------
(* The inductive invariant behind these properties.                        *)

\* Slots are given out in order.
SlotsInv == received <= arrived /\ \A i \in 1 .. Len(fields) : fields[i].slot <= arrived

\* The guest's entries while a callback runs: as long as it leaves them alone, their
\* indices grow, so entry k has at least k - 1 fields between it and HDR_FIRST.
EntriesInv ==
    /\ ~iterating => entries = <<>> /\ ~moved /\ ~rewritten
    /\ ~rewritten =>
         /\ \A k \in 1 .. Len(entries) : entries[k].index >= HdrFirst + k
         /\ \A j, k \in 1 .. Len(entries) :
              j < k /\ entries[j].index # HdrInvalid => entries[j].index < entries[k].index

\* An index that was not given up is that of the field it was written for, as
\* long as no call of the callback has moved fields.
IndicesInv ==
    ~moved /\ ~rewritten =>
        \A k \in 1 .. Len(entries) : entries[k].index # HdrInvalid =>
            /\ entries[k].index <= Len(fields)
            /\ fields[entries[k].index].slot = entries[k].slot

FieldsInv == ProtoKept /\ OrderKept /\ SlotsInv /\ EntriesInv /\ IndicesInv
=============================================================================
