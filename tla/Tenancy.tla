------------------------------- MODULE Tenancy -------------------------------
(***************************************************************************)
(* The table of tenants (tenancy.cpp): vcl_init reads JSON documents with  *)
(* embed_tenants and load_tenants, appends to the arguments of tenants and *)
(* loads their programs with finalize_tenants.  The table is static, so it *)
(* outlives the VCL and is shared by every VCL that is loaded later; the   *)
(* groups live as long as the reading of one document.                     *)
(*                                                                         *)
(* The keys of a document are read in alphabetical order and are numbers   *)
(* here.  max_memory, max_heap and max_instructions are copied and         *)
(* overridden alike: one `limit' stands for the three.  The arguments are  *)
(* a shared_ptr to a vector, so that a tenant and its group may hold the   *)
(* same one: `argv' is a reference into `vectors'.                         *)
(***************************************************************************)
EXTENDS Naturals, Sequences, FiniteSets

CONSTANTS
    Names,          \* the keys of a document, in their order
    Test,           \* the key of the group that always exists, "test"
    Hash,           \* Hash[n]: the CRC-32C of a name
    Limits,         \* values a document may give to a limit
    Args,           \* arguments of main
    MaxArgs,        \* bound: arguments of one tenant
    MaxLoads,       \* bound: documents that are read
    Absent          \* a member that an object of a document does not have

ASSUME TenancyAssumption ==
    /\ Names \subseteq Nat /\ IsFiniteSet(Names) /\ Test \in Names
    /\ Hash \in [Names -> Nat]
    /\ 0 \notin Limits /\ Absent \notin Limits \cup {0} \cup Seq(Args)
    /\ MaxArgs \in Nat /\ MaxLoads \in Nat

VARIABLES
    phase,          \* vcl_init is in "vcl" or in init_tenants, or it is "over"
    failed,         \* VRT_fail has been called for the VCL
    key,            \* the last key that has been read of the document
    groups,         \* groups[n]: the groups of the document
    given,          \* given[n]: the objects that made them (a history variable)
    tenants,        \* tenants[h]: the tenant under each hash in use
    vectors,        \* vectors[r]: the vector behind a reference
    loads           \* how many documents have been read (bounded)

vars == <<phase, failed, key, groups, given, tenants, vectors, loads>>

Arguments == UNION {[1 .. k -> Args] : k \in 0 .. MaxArgs}

\* What the object of a key may say; `file' tells whether it has a filename.
Object == [file : BOOLEAN, group : Names \cup {Absent},
           limit : Limits \cup {Absent}, arguments : Arguments \cup {Absent}]

\* max_instructions and the other limits of a TenantGroup that nothing has set.
DefaultLimit == 0

\* A shared_ptr for every key, every tenant and the vector that is being made.
References == 1 .. 2 * Cardinality(Names) + 1

Using(gs, ts) ==
    {gs[n].argv : n \in DOMAIN gs} \cup {ts[h].group.argv : h \in DOMAIN ts}

\* make_shared: a vector nobody refers to.
Fresh == CHOOSE r \in References : r \notin Using(groups, tenants)

\* A vector is deleted with its last reference.
Release(vs, gs, ts) ==
    [r \in References |-> IF r \in Using(gs, ts) THEN vs[r] ELSE <<>>]

Put(f, x, y) == [z \in DOMAIN f \cup {x} |-> IF z = x THEN y ELSE f[z]]

Nothing == [n \in {} |-> n]

Init ==
    /\ phase = "vcl" /\ failed = FALSE
    /\ key = 0 /\ groups = Nothing /\ given = Nothing
    /\ tenants = Nothing
    /\ vectors = [r \in References |-> <<>>]
    /\ loads = 0

-----------------------------------------------------------------------------
(* Faulty variants of the definition that the name begins with, one for    *)
(* each way in which the code could be wrong.  Nothing below uses them.    *)
Emplace_assigns(h, tenant) == Put(tenants, h, tenant)
GroupsAfter_shared(n, g) == Put(groups, n, g)
Appended_inPlace(h, arg) ==
    /\ tenants' = tenants
    /\ vectors' = [vectors EXCEPT ![tenants[h].group.argv] = Append(@, arg)]
Configured_unchecked(g, o) ==
    [limit |-> o.limit, argv |-> IF o.arguments = Absent THEN g.argv ELSE Fresh]

(***************************************************************************)
(* Reading a document.                                                     *)
(***************************************************************************)

\* configure_tenant: what an object says replaces what the group has.
Configured(g, o) ==
    [limit |-> IF o.limit = Absent THEN g.limit ELSE o.limit,
     argv |-> IF o.arguments = Absent THEN g.argv ELSE Fresh]

\* The vectors once the arguments of o, if it has any, are behind `Fresh'.
WithArguments(o) ==
    IF o.arguments = Absent THEN vectors ELSE [vectors EXCEPT ![Fresh] = o.arguments]

\* init_tenants begins: the group "test" with its defaults.
BeginDocument ==
    /\ phase = "vcl" /\ loads < MaxLoads
    /\ phase' = "document" /\ loads' = loads + 1
    /\ key' = 0
    /\ groups' = Put(Nothing, Test, [limit |-> DefaultLimit, argv |-> Fresh])
    /\ UNCHANGED <<failed, given, tenants, vectors>>

\* The next object is that of n.
Reads(n) ==
    /\ phase = "document" /\ n > key
    /\ key' = n
    /\ UNCHANGED <<phase, loads>>

GroupOf(o) == IF o.group = Absent THEN Test ELSE o.group

\* try_emplace: a hash that is in use keeps its tenant.
Emplace(h, tenant) == IF h \in DOMAIN tenants THEN tenants ELSE Put(tenants, h, tenant)

\* The groups once a tenant has been configured to g: it is a copy of group n
\* that has been configured, and group n is as it was.
GroupsAfter(n, g) == groups

\* An object with a filename, in a group the document has made: load_tenant
\* enters it, or fails the VCL when its hash is in use.
TenantItem(n, o) ==
    LET g == Configured(groups[GroupOf(o)], o)
    IN  /\ Reads(n)
        /\ o.file /\ GroupOf(o) \in DOMAIN groups
        /\ tenants' = Emplace(Hash[n], [name |-> n, group |-> g, program |-> Absent])
        /\ failed' = (failed \/ Hash[n] \in DOMAIN tenants)
        /\ groups' = GroupsAfter(GroupOf(o), g)
        /\ vectors' = Release(WithArguments(o), groups', tenants')
        /\ UNCHANGED given

\* An object whose group is missing is logged and left out.
GroupMissing(n, o) ==
    /\ Reads(n)
    /\ o.file /\ GroupOf(o) \notin DOMAIN groups
    /\ UNCHANGED <<failed, groups, given, tenants, vectors>>

\* An object with no filename, under the hash of a tenant: the tenant is
\* configured where it stands.
Reconfigure(n, o) ==
    /\ Reads(n)
    /\ ~o.file /\ Hash[n] \in DOMAIN tenants
    /\ tenants' = [tenants EXCEPT ![Hash[n]].group = Configured(@, o)]
    /\ vectors' = Release(WithArguments(o), groups, tenants')
    /\ UNCHANGED <<failed, groups, given>>

\* An object with no filename otherwise: a group, new unless it is "test".
\* The vector of a new group is made before the one it is configured with.
GroupItem(n, o) ==
    LET g == IF n \in DOMAIN groups
             THEN groups[n] ELSE [limit |-> DefaultLimit, argv |-> Fresh]
    IN  /\ Reads(n)
        /\ ~o.file /\ Hash[n] \notin DOMAIN tenants
        /\ groups' = Put(groups, n, Configured(g, o))
        /\ given' = Put(given, n, o)
        /\ vectors' = Release(WithArguments(o), groups', tenants)
        /\ UNCHANGED <<failed, tenants>>

\* init_tenants returns, and with it the groups are gone.  A VCL that has
\* failed goes no further.
EndDocument ==
    /\ phase' = IF failed' THEN "over" ELSE "vcl"
    /\ groups' = Nothing /\ given' = Nothing /\ key' = 0
    /\ vectors' = Release(vectors, groups', tenants')
    /\ UNCHANGED loads

Finished == phase = "document" /\ UNCHANGED <<failed, tenants>> /\ EndDocument

\* The parser throws, or a member has the wrong type: the VCL fails, and what
\* has been read of the document stays.
DocumentThrows ==
    /\ phase = "document"
    /\ failed' = TRUE /\ UNCHANGED tenants
    /\ EndDocument

\* The arguments have the wrong type: they are the last that configure_tenant
\* reads, so that a tenant which is reconfigured has its limit already.
ReconfigureThrows(n, o) ==
    /\ phase = "document" /\ n > key
    /\ ~o.file /\ o.arguments = Absent /\ Hash[n] \in DOMAIN tenants
    /\ tenants' = [tenants EXCEPT ![Hash[n]].group = Configured(@, o)]
    /\ failed' = TRUE
    /\ EndDocument

(***************************************************************************)
(* The other calls of vcl_init.                                            *)
(***************************************************************************)

\* tenant_append_main_argument: a copy with one more takes the vector's place.
Appended(h, arg) ==
    /\ tenants' = [tenants EXCEPT ![h].group.argv = Fresh]
    /\ vectors' = Release([vectors EXCEPT
                               ![Fresh] = Append(vectors[tenants[h].group.argv], arg)],
                          groups, tenants')

\* The tenant is found by its hash alone; for one that is not there the call
\* is logged and does nothing.
AppendMainArgument(n, arg) ==
    /\ phase = "vcl"
    /\ Hash[n] \in DOMAIN tenants
    /\ Len(vectors[tenants[Hash[n]].group.argv]) < MaxArgs
    /\ Appended(Hash[n], arg)
    /\ UNCHANGED <<phase, failed, key, groups, given, loads>>

\* What main and the machine of a tenant are started with.
Settings(h) == [limit |-> tenants[h].group.limit,
                arguments |-> vectors[tenants[h].group.argv]]

Unloaded == {h \in DOMAIN tenants : tenants[h].program = Absent}

\* finalize_tenants_impl: a program for every tenant that has none, of any
\* VCL; those outside `made' throw, are logged and stay without one.
FinalizeTenants(made) ==
    /\ phase = "vcl"
    /\ made \subseteq Unloaded
    /\ tenants' = [h \in DOMAIN tenants |->
                      IF h \in made THEN [tenants[h] EXCEPT !.program = Settings(h)]
                      ELSE tenants[h]]
    /\ UNCHANGED <<phase, failed, key, groups, given, vectors, loads>>

\* The VCL has failed, and another one is loaded.  (Where vcl_init returns,
\* the next one may begin with any of the calls above.)
NextVcl ==
    /\ phase = "over"
    /\ phase' = "vcl" /\ failed' = FALSE
    /\ UNCHANGED <<key, groups, given, tenants, vectors, loads>>

Item(n, o) ==
    TenantItem(n, o) \/ GroupMissing(n, o) \/ Reconfigure(n, o) \/ GroupItem(n, o)

Next ==
    \/ BeginDocument \/ Finished \/ DocumentThrows \/ NextVcl
    \/ \E n \in Names, o \in Object : Item(n, o) \/ ReconfigureThrows(n, o)
    \/ \E n \in Names, arg \in Args : AppendMainArgument(n, arg)
    \/ \E made \in SUBSET DOMAIN tenants : FinalizeTenants(made)

Spec == Init /\ [][Next]_vars

-----------------------------------------------------------------------------
Group == [limit : Limits \cup {DefaultLimit}, argv : References]

Setting == [limit : Limits \cup {DefaultLimit}, arguments : Arguments]

\* Type correctness.  No group outlives the document it was made for, and every
\* tenant is under the hash of a name.
TypeOK ==
    /\ phase \in {"vcl", "document", "over"} /\ failed \in BOOLEAN
    /\ key \in Names \cup {0} /\ loads \in 0 .. MaxLoads
    /\ DOMAIN groups \subseteq Names /\ \A n \in DOMAIN groups : groups[n] \in Group
    /\ DOMAIN given \subseteq DOMAIN groups /\ \A n \in DOMAIN given : given[n] \in Object
    /\ IF phase = "document" THEN Test \in DOMAIN groups ELSE DOMAIN groups = {}
    /\ DOMAIN tenants \subseteq {Hash[n] : n \in Names}
    /\ \A h \in DOMAIN tenants :
           tenants[h] \in [name : Names, group : Group, program : Setting \cup {Absent}]
    /\ vectors \in [References -> Arguments]

\* A tenant is never taken from the table, and its name, and the program it
\* has been given, are never replaced by a document or by finalize_tenants,
\* whichever VCL makes the call: requests hold pointers to tenants
\* (tenancy.cpp:22, 155).
TenantsStay ==
    [][\A h \in DOMAIN tenants :
           /\ h \in DOMAIN tenants'
           /\ tenants'[h].name = tenants[h].name
           /\ tenants[h].program # Absent => tenants'[h].program = tenants[h].program]_vars

\* A step changes the limit or the arguments of one tenant at most, although
\* tenants and groups share the vector of their arguments: the copy-and-swap
\* of tenancy.cpp:166.
OneTenantChanges ==
    [][\A h, k \in DOMAIN tenants :
           Settings(h)' # Settings(h) /\ Settings(k)' # Settings(k) => h = k]_vars

\* What the document says of a member, for a tenant of group g: its own value,
\* or that of the object which made the group, or the default.
Written(own, group, default) ==
    IF own # Absent THEN own ELSE IF group # Absent THEN group ELSE default

OfGroup(g) ==
    IF g \in DOMAIN given THEN given[g]
    ELSE [file |-> FALSE, group |-> Absent, limit |-> Absent, arguments |-> Absent]

\* A tenant enters the table with what its document says: its own members,
\* then those of its group, then the defaults.  What other tenants of the
\* group have overridden, and what earlier documents said of a group of that
\* name, has no part in it (tenancy.cpp:58, 82).
EntersAsWritten ==
    [][\A n \in Names :
           Hash[n] \in DOMAIN tenants' \ DOMAIN tenants =>
           \A o \in Object :
               TenantItem(n, o) =>
               Settings(Hash[n])' =
                   [limit |-> Written(o.limit, OfGroup(GroupOf(o)).limit, DefaultLimit),
                    arguments |-> Written(o.arguments, OfGroup(GroupOf(o)).arguments, <<>>)]
      ]_vars

-----------------------------------------------------------------------------
(* The inductive invariant behind EntersAsWritten.                         *)

\* What is behind a reference that nobody holds is empty.
CleanInv == \A r \in References \ Using(groups, tenants) : vectors[r] = <<>>

\* A group is what the object that made it says, over the defaults.
GivenInv ==
    /\ \A n \in DOMAIN given : n <= key
    /\ DOMAIN groups \subseteq DOMAIN given \cup {Test}
    /\ \A g \in DOMAIN groups :
           /\ groups[g].limit = Written(Absent, OfGroup(g).limit, DefaultLimit)
           /\ vectors[groups[g].argv] = Written(Absent, OfGroup(g).arguments, <<>>)
==============================================================================
