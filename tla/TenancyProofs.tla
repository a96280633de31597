---------------------------- MODULE TenancyProofs ----------------------------
(***************************************************************************)
(* Proofs about Tenancy, for any number of names, groups, tenants and      *)
(* documents, and for hashes that collide.                                 *)
(***************************************************************************)
EXTENDS Tenancy, FiniteSetTheorems, SequenceTheorems, TLAPS

\* A leaf is left to the SMT solver, unless it names another prover.
USE SMTT(60)

Tenant == [name : Names, group : Group, program : Setting \cup {Absent}]

-----------------------------------------------------------------------------
(* References.                                                             *)

\* The values of a function on a finite set are no more than its arguments.
LEMMA ImageCardinality ==
    ASSUME NEW S, IsFiniteSet(S), NEW f, DOMAIN f = S
    PROVE  LET T == {f[x] : x \in S}
           IN  IsFiniteSet(T) /\ Cardinality(T) <= Cardinality(S)
  <1> DEFINE T == {f[x] : x \in S}
             g == [x \in S |-> f[x]]
  <1>1. g \in Surjection(S, T)
    BY DEF Surjection
  <1> HIDE DEF g, T
  <1>2. IsFiniteSet(T) /\ Cardinality(T) <= Cardinality(S)
    BY <1>1, FS_Surjection
  <1> QED
    BY <1>2 DEF T

\* So are the members `argv' of a table with no more rows than there are names.
LEMMA UsedByTable ==
    ASSUME NEW tab, NEW S, IsFiniteSet(S), DOMAIN tab \subseteq S, NEW f, DOMAIN f = DOMAIN tab
    PROVE  LET T == {f[x] : x \in DOMAIN tab}
           IN  IsFiniteSet(T) /\ Cardinality(T) <= Cardinality(S)
  <1> DEFINE T == {f[x] : x \in DOMAIN tab}
  <1>1. IsFiniteSet(DOMAIN tab) /\ Cardinality(DOMAIN tab) <= Cardinality(S)
    BY FS_Subset
  <1>2. IsFiniteSet(T) /\ Cardinality(T) <= Cardinality(DOMAIN tab)
    BY <1>1, ImageCardinality
  <1> HIDE DEF T
  <1>3. Cardinality(T) \in Nat /\ Cardinality(S) \in Nat /\ Cardinality(DOMAIN tab) \in Nat
    BY <1>1, <1>2, FS_CardinalityType
  <1>4. Cardinality(T) <= Cardinality(S)
    BY <1>1, <1>2, <1>3
  <1> QED
    BY <1>2, <1>4 DEF T

\* make_shared finds a vector that neither a group nor a tenant refers to.
LEMMA FreshIsNew ==
    ASSUME TypeOK
    PROVE  Fresh \in References /\ Fresh \notin Using(groups, tenants)
  <1> DEFINE N == Cardinality(Names)
             H == {Hash[n] : n \in Names}
             fg == [n \in DOMAIN groups |-> groups[n].argv]
             ft == [h \in DOMAIN tenants |-> tenants[h].group.argv]
             G == {fg[n] : n \in DOMAIN groups}
             T == {ft[h] : h \in DOMAIN tenants}
  <1>1. IsFiniteSet(Names) /\ N \in Nat
    BY TenancyAssumption, FS_CardinalityType
  <1>2. IsFiniteSet(H) /\ Cardinality(H) <= N /\ Cardinality(H) \in Nat
    <2>1. DOMAIN Hash = Names
      BY TenancyAssumption
    <2> QED
      BY <1>1, <2>1, ImageCardinality, FS_CardinalityType
  <1>3. IsFiniteSet(G) /\ Cardinality(G) <= N
    <2>1. DOMAIN groups \subseteq Names /\ DOMAIN fg = DOMAIN groups
      BY DEF TypeOK
    <2> HIDE DEF fg
    <2> QED
      BY <1>1, <2>1, UsedByTable
  <1>4. IsFiniteSet(T) /\ Cardinality(T) <= Cardinality(H)
    <2>1. DOMAIN tenants \subseteq H /\ DOMAIN ft = DOMAIN tenants
      BY DEF TypeOK
    <2> HIDE DEF ft, H
    <2> QED
      BY <1>2, <2>1, UsedByTable
  <1>5. Using(groups, tenants) = G \cup T
    BY DEF Using
  <1> HIDE DEF G, T, H
  <1>6. /\ IsFiniteSet(G \cup T)
        /\ Cardinality(G \cup T) <= 2 * N
    <2>1. Cardinality(G) \in Nat /\ Cardinality(T) \in Nat /\ Cardinality(G \cap T) \in Nat
      BY ZenonT(60), <1>3, <1>4, FS_CardinalityType, FS_Intersection
    <2>2. Cardinality(G \cup T) = Cardinality(G) + Cardinality(T) - Cardinality(G \cap T)
      BY <1>3, <1>4, FS_Union
    <2> QED
      BY <1>1, <1>2, <1>3, <1>4, <2>1, <2>2, FS_Union
  <1>7. Cardinality(References) = 2 * N + 1 /\ IsFiniteSet(References)
    <2>1. 2 * N + 1 \in Nat /\ 2 * N + 1 >= 1
      BY <1>1
    <2> QED
      BY <2>1, FS_Interval DEF References
  <1>8. \E r \in References : r \notin G \cup T
    <2> SUFFICES ASSUME References \subseteq G \cup T PROVE FALSE
      OBVIOUS
    <2>1. Cardinality(References) <= Cardinality(G \cup T)
      BY <1>6, FS_Subset
    <2>2. Cardinality(G \cup T) \in Nat
      BY <1>6, FS_CardinalityType
    <2> QED
      BY <1>1, <1>6, <1>7, <2>1, <2>2
  <1> QED
    BY <1>5, <1>8 DEF Fresh

-----------------------------------------------------------------------------
(* What the helpers return.                                                *)

\* No arguments are arguments, and one more still are.
LEMMA ArgumentsFacts ==
    /\ <<>> \in Arguments
    /\ \A s \in Arguments, arg \in Args : Len(s) < MaxArgs => Append(s, arg) \in Arguments
  <1>1. <<>> \in Arguments
    <2>1. 0 \in 0 .. MaxArgs /\ <<>> \in [1 .. 0 -> Args]
      BY TenancyAssumption
    <2> QED
      BY <2>1 DEF Arguments
  <1>2. ASSUME NEW s \in Arguments, NEW arg \in Args, Len(s) < MaxArgs
        PROVE  Append(s, arg) \in Arguments
    <2>1. PICK k \in 0 .. MaxArgs : s \in [1 .. k -> Args]
      BY DEF Arguments
    <2>2. s \in Seq(Args) /\ k \in Nat
      BY <2>1, TenancyAssumption
    <2>3. Len(s) = k
      BY <2>1, <2>2
    <2>4. Append(s, arg) \in [1 .. k + 1 -> Args]
      <3>1. Append(s, arg) \in Seq(Args) /\ Len(Append(s, arg)) = Len(s) + 1
        BY <2>2, AppendProperties
      <3>2. Append(s, arg) \in [1 .. Len(Append(s, arg)) -> Args]
        BY ZenonT(60), <3>1, LenProperties
      <3> QED
        BY <2>3, <3>1, <3>2
    <2>5. k + 1 \in 0 .. MaxArgs
      BY <1>2, <2>2, <2>3, TenancyAssumption
    <2> QED
      BY <2>4, <2>5 DEF Arguments
  <1> QED
    BY <1>1, <1>2

\* Vectors that are in use survive, and what is left is typed.
LEMMA ReleaseFacts ==
    ASSUME NEW vs, NEW gs, NEW ts
    PROVE  /\ \A r \in References \cap Using(gs, ts) : Release(vs, gs, ts)[r] = vs[r]
           /\ vs \in [References -> Arguments] =>
                Release(vs, gs, ts) \in [References -> Arguments]
  <1> USE ArgumentsFacts DEF Release
  <1> HIDE DEF References, Using, Arguments
  <1>1. \A r \in References \cap Using(gs, ts) : Release(vs, gs, ts)[r] = vs[r]
    OBVIOUS
  <1>2. vs \in [References -> Arguments] =>
          Release(vs, gs, ts) \in [References -> Arguments]
    OBVIOUS
  <1> QED
    BY <1>1, <1>2

\* A group that has been configured is a group, and its new vector, if it has
\* one, is the fresh one.
LEMMA ConfiguredFacts ==
    ASSUME TypeOK, NEW g \in Group, NEW o \in Object
    PROVE  /\ Configured(g, o) \in Group
           /\ WithArguments(o) \in [References -> Arguments]
           /\ \A r \in Using(groups, tenants) : WithArguments(o)[r] = vectors[r]
  <1>1. Fresh \in References /\ Fresh \notin Using(groups, tenants)
    BY FreshIsNew
  <1>2. vectors \in [References -> Arguments]
    BY DEF TypeOK
  <1>3. o.limit \in Limits \cup {Absent} /\ o.arguments \in Arguments \cup {Absent}
    BY DEF Object
  <1>4. g.limit \in Limits \cup {DefaultLimit} /\ g.argv \in References
    BY DEF Group
  <1> HIDE DEF Arguments, References, Using, Fresh
  <1>5. Configured(g, o) \in Group
    BY <1>1, <1>3, <1>4 DEF Configured, Group
  <1>6. WithArguments(o) \in [References -> Arguments]
    BY <1>1, <1>2, <1>3 DEF WithArguments
  <1>7. \A r \in Using(groups, tenants) : WithArguments(o)[r] = vectors[r]
    BY <1>1, <1>2 DEF WithArguments
  <1> QED
    BY <1>5, <1>6, <1>7

\* The rows of the two tables.
LEMMA Rows ==
    ASSUME TypeOK
    PROVE  /\ \A n \in DOMAIN groups : groups[n] \in Group
           /\ \A h \in DOMAIN tenants :
                /\ tenants[h] \in Tenant /\ tenants[h].group \in Group
                /\ tenants[h].group.argv \in References \cap Using(groups, tenants)
  <1>1. \A n \in DOMAIN groups : groups[n] \in Group
    BY DEF TypeOK
  <1>2. \A h \in DOMAIN tenants : tenants[h] \in Tenant /\ tenants[h].group \in Group
    BY DEF TypeOK, Tenant
  <1>3. \A h \in DOMAIN tenants : tenants[h].group.argv \in References
    BY <1>2 DEF Group
  <1>4. \A h \in DOMAIN tenants : tenants[h].group.argv \in Using(groups, tenants)
    BY DEF Using
  <1> QED
    BY <1>1, <1>2, <1>3, <1>4

\* A tenant whose row keeps its group, and whose vector has the contents it
\* had, has its settings.
LEMMA SettingsKept ==
    ASSUME TypeOK, NEW h \in DOMAIN tenants, NEW vs,
           h \in DOMAIN tenants', tenants'[h].group = tenants[h].group,
           vectors' = Release(vs, groups', tenants'),
           vs[tenants[h].group.argv] = vectors[tenants[h].group.argv]
    PROVE  Settings(h)' = Settings(h)
  <1>1. tenants[h].group.argv \in References
    BY Rows
  <1>2. tenants[h].group.argv \in Using(groups', tenants')
    BY DEF Using
  <1>3. vectors'[tenants[h].group.argv] = vectors[tenants[h].group.argv]
    BY <1>1, <1>2, ReleaseFacts
  <1> QED
    BY <1>3 DEF Settings

-----------------------------------------------------------------------------
(* The steps.  Each keeps the types; keeps the tenants, their names and    *)
(* the programs they have; and changes the settings of one at most.        *)

\* Every tenant of the table stays, as TenantsStay says of a step.
Stays ==
    \A h \in DOMAIN tenants :
        /\ h \in DOMAIN tenants'
        /\ tenants'[h].name = tenants[h].name
        /\ tenants[h].program # Absent => tenants'[h].program = tenants[h].program

\* Nobody's settings change but those of c.
OnlyChanges(c) == \A h \in DOMAIN tenants \ {c} : Settings(h)' = Settings(h)

\* The group of one tenant is replaced.
LEMMA NewGroup ==
    ASSUME TypeOK, NEW c \in DOMAIN tenants, NEW g \in Group,
           tenants' = [tenants EXCEPT ![c].group = g]
    PROVE  /\ DOMAIN tenants' = DOMAIN tenants
           /\ \A h \in DOMAIN tenants' : tenants'[h] \in Tenant
           /\ Stays
           /\ \A h \in DOMAIN tenants \ {c} : tenants'[h] = tenants[h]
  <1>1. \A h \in DOMAIN tenants : tenants[h] \in Tenant
    BY Rows
  <1>2. DOMAIN tenants' = DOMAIN tenants /\ \A h \in DOMAIN tenants \ {c} : tenants'[h] = tenants[h]
    OBVIOUS
  <1>3. tenants'[c] = [tenants[c] EXCEPT !.group = g]
    OBVIOUS
  <1>4. /\ tenants'[c] \in Tenant /\ tenants'[c].name = tenants[c].name
        /\ tenants'[c].program = tenants[c].program
    BY <1>1, <1>3 DEF Tenant
  <1> QED
    BY <1>1, <1>2, <1>4 DEF Stays

\* The variables that are not tables.
PlainOK ==
    /\ phase \in {"vcl", "document", "over"} /\ failed \in BOOLEAN
    /\ key \in Names \cup {0} /\ loads \in 0 .. MaxLoads

GroupsOK ==
    /\ DOMAIN groups \subseteq Names /\ \A n \in DOMAIN groups : groups[n] \in Group
    /\ DOMAIN given \subseteq DOMAIN groups /\ \A n \in DOMAIN given : given[n] \in Object
    /\ IF phase = "document" THEN Test \in DOMAIN groups ELSE DOMAIN groups = {}

TenantsOK ==
    /\ DOMAIN tenants \subseteq {Hash[n] : n \in Names}
    /\ \A h \in DOMAIN tenants : tenants[h] \in Tenant
    /\ vectors \in [References -> Arguments]

\* The three parts of the type invariant.
LEMMA TypeParts ==
    /\ TypeOK <=> PlainOK /\ GroupsOK /\ TenantsOK
    /\ TypeOK' <=> PlainOK' /\ GroupsOK' /\ TenantsOK'
  BY DEF TypeOK, PlainOK, GroupsOK, TenantsOK, Tenant

\* The first document, and those after it.
LEMMA BeginDocumentStep ==
    ASSUME TypeOK, BeginDocument
    PROVE  TypeOK' /\ Stays /\ UNCHANGED <<tenants, vectors>>
  <1>1. PlainOK /\ GroupsOK /\ TenantsOK
    BY TypeParts
  <1>2. UNCHANGED <<tenants, vectors>> /\ TenantsOK' /\ Stays
    BY <1>1 DEF BeginDocument, TenantsOK, Stays
  <1>3. PlainOK'
    BY <1>1, TenancyAssumption DEF BeginDocument, PlainOK
  <1>4. GroupsOK'
    <2> DEFINE g == [limit |-> DefaultLimit, argv |-> Fresh]
    <2>1. g \in Group
      BY FreshIsNew DEF Group
    <2> HIDE DEF g
    <2>2. groups' = Put(Nothing, Test, g)
      BY DEF BeginDocument, g
    <2>3. DOMAIN groups' = {Test} /\ groups'[Test] = g
      BY <2>2 DEF Put, Nothing
    <2>4. DOMAIN given = {}
      BY ZenonT(60), <1>1 DEF BeginDocument, GroupsOK
    <2> QED
      BY <2>1, <2>3, <2>4, TenancyAssumption DEF BeginDocument, GroupsOK
  <1> QED
    BY <1>2, <1>3, <1>4, TypeParts

\* A row that is entered leaves the others alone.
LEMMA EmplaceFacts ==
    ASSUME TypeOK, NEW n \in Names, NEW t \in Tenant, tenants' = Emplace(Hash[n], t)
    PROVE  /\ DOMAIN tenants' \subseteq {Hash[m] : m \in Names}
           /\ \A h \in DOMAIN tenants' : tenants'[h] \in Tenant
           /\ \A h \in DOMAIN tenants : h \in DOMAIN tenants' /\ tenants'[h] = tenants[h]
  <1>1. /\ DOMAIN tenants \subseteq {Hash[m] : m \in Names}
        /\ \A h \in DOMAIN tenants : tenants[h] \in Tenant
    BY TypeParts DEF TenantsOK
  <1>2. CASE Hash[n] \in DOMAIN tenants
    BY <1>1, <1>2 DEF Emplace
  <1>3. CASE Hash[n] \notin DOMAIN tenants
    <2>1. tenants' = Put(tenants, Hash[n], t)
      BY <1>3 DEF Emplace
    <2>2. /\ DOMAIN tenants' = DOMAIN tenants \cup {Hash[n]}
          /\ tenants'[Hash[n]] = t
          /\ \A h \in DOMAIN tenants \ {Hash[n]} : tenants'[h] = tenants[h]
      BY <2>1 DEF Put
    <2> QED
      BY <1>1, <1>3, <2>2
  <1> QED
    BY <1>2, <1>3

\* A tenant of a document enters the table.
LEMMA TenantItemStep ==
    ASSUME TypeOK, NEW n \in Names, NEW o \in Object, TenantItem(n, o)
    PROVE  TypeOK' /\ Stays /\ \A h \in DOMAIN tenants : Settings(h)' = Settings(h)
  <1> DEFINE g == Configured(groups[GroupOf(o)], o)
             t == [name |-> n, group |-> g, program |-> Absent]
  <1>1. PlainOK /\ GroupsOK /\ TenantsOK
    BY TypeParts
  <1>2. GroupOf(o) \in DOMAIN groups /\ groups[GroupOf(o)] \in Group
    BY Rows DEF TenantItem
  <1>3. /\ g \in Group /\ WithArguments(o) \in [References -> Arguments]
        /\ \A r \in Using(groups, tenants) : WithArguments(o)[r] = vectors[r]
    BY <1>2, ConfiguredFacts
  <1>4. /\ tenants' = Emplace(Hash[n], t) /\ groups' = groups /\ given' = given
        /\ vectors' = Release(WithArguments(o), groups', tenants')
        /\ failed' \in BOOLEAN /\ key' = n /\ UNCHANGED <<phase, loads>>
    BY <1>1 DEF TenantItem, Reads, GroupsAfter, PlainOK
  <1> HIDE DEF g
  <1>5. t \in Tenant
    BY <1>3 DEF Tenant
  <1> HIDE DEF t
  <1>6. /\ DOMAIN tenants' \subseteq {Hash[m] : m \in Names}
        /\ \A h \in DOMAIN tenants' : tenants'[h] \in Tenant
        /\ \A h \in DOMAIN tenants : h \in DOMAIN tenants' /\ tenants'[h] = tenants[h]
    BY <1>4, <1>5, EmplaceFacts
  <1>7. TenantsOK'
    <2>1. vectors' \in [References -> Arguments]
      BY <1>3, <1>4, ReleaseFacts
    <2> QED
      BY <1>6, <2>1 DEF TenantsOK
  <1>8. GroupsOK' /\ PlainOK'
    BY <1>1, <1>4 DEF GroupsOK, PlainOK
  <1>9. Stays
    BY <1>6 DEF Stays
  <1>10. ASSUME NEW h \in DOMAIN tenants PROVE Settings(h)' = Settings(h)
    <2>1. WithArguments(o)[tenants[h].group.argv] = vectors[tenants[h].group.argv]
      BY <1>3, Rows
    <2> QED
      BY <1>4, <1>6, <2>1, SettingsKept
  <1> QED
    BY <1>7, <1>8, <1>9, <1>10, TypeParts

\* A tenant is configured again.
LEMMA ReconfiguredFacts ==
    ASSUME TypeOK, NEW n \in Names, NEW o \in Object, Hash[n] \in DOMAIN tenants,
           tenants' = [tenants EXCEPT ![Hash[n]].group = Configured(@, o)],
           vectors' = Release(WithArguments(o), groups', tenants')
    PROVE  TenantsOK' /\ Stays /\ OnlyChanges(Hash[n])
  <1> DEFINE c == Hash[n]
             g == Configured(tenants[c].group, o)
  <1>1. /\ g \in Group /\ WithArguments(o) \in [References -> Arguments]
        /\ \A r \in Using(groups, tenants) : WithArguments(o)[r] = vectors[r]
    BY Rows, ConfiguredFacts
  <1>2. tenants' = [tenants EXCEPT ![c].group = g]
    OBVIOUS
  <1> HIDE DEF g
  <1>3. /\ DOMAIN tenants' = DOMAIN tenants
        /\ \A h \in DOMAIN tenants' : tenants'[h] \in Tenant
        /\ Stays
        /\ \A h \in DOMAIN tenants \ {c} : tenants'[h] = tenants[h]
    BY ZenonT(60), <1>1, <1>2, NewGroup
  <1>4. TenantsOK'
    <2>1. vectors' \in [References -> Arguments]
      BY <1>1, ReleaseFacts
    <2>2. DOMAIN tenants \subseteq {Hash[m] : m \in Names}
      BY TypeParts DEF TenantsOK
    <2> QED
      BY ZenonT(60), <1>3, <2>1, <2>2 DEF TenantsOK
  <1>5. ASSUME NEW h \in DOMAIN tenants \ {c} PROVE Settings(h)' = Settings(h)
    <2>1. WithArguments(o)[tenants[h].group.argv] = vectors[tenants[h].group.argv]
      BY <1>1, Rows
    <2>2. h \in DOMAIN tenants' /\ tenants'[h].group = tenants[h].group
      BY <1>3
    <2> QED
      BY <2>1, <2>2, SettingsKept
  <1> QED
    BY <1>3, <1>4, <1>5 DEF OnlyChanges

\* By a document.
LEMMA ReconfigureStep ==
    ASSUME TypeOK, NEW n \in Names, NEW o \in Object, Reconfigure(n, o)
    PROVE  TypeOK' /\ Stays /\ OnlyChanges(Hash[n])
  <1>1. PlainOK /\ GroupsOK /\ TenantsOK
    BY TypeParts
  <1>2. TenantsOK' /\ Stays /\ OnlyChanges(Hash[n])
    BY ZenonT(60), ReconfiguredFacts DEF Reconfigure
  <1>3. GroupsOK' /\ PlainOK'
    BY <1>1 DEF Reconfigure, Reads, GroupsOK, PlainOK
  <1> QED
    BY <1>2, <1>3, TypeParts

\* A group of a document.
LEMMA GroupItemStep ==
    ASSUME TypeOK, NEW n \in Names, NEW o \in Object, GroupItem(n, o)
    PROVE  TypeOK' /\ Stays /\ \A h \in DOMAIN tenants : Settings(h)' = Settings(h)
  <1> DEFINE old == IF n \in DOMAIN groups
                    THEN groups[n] ELSE [limit |-> DefaultLimit, argv |-> Fresh]
             g == Configured(old, o)
  <1>1. PlainOK /\ GroupsOK /\ TenantsOK
    BY TypeParts
  <1>2. old \in Group
    <2>1. CASE n \in DOMAIN groups
      BY <2>1, Rows
    <2>2. CASE n \notin DOMAIN groups
      BY <2>2, FreshIsNew DEF Group
    <2> QED
      BY <2>1, <2>2
  <1>3. /\ groups' = Put(groups, n, g) /\ given' = Put(given, n, o)
        /\ vectors' = Release(WithArguments(o), groups', tenants)
        /\ UNCHANGED <<failed, tenants, phase, loads>> /\ key' = n
    BY DEF GroupItem, Reads
  <1> HIDE DEF old
  <1>4. /\ g \in Group /\ WithArguments(o) \in [References -> Arguments]
        /\ \A r \in Using(groups, tenants) : WithArguments(o)[r] = vectors[r]
    BY <1>2, ConfiguredFacts
  <1> HIDE DEF g
  <1>5. /\ DOMAIN groups' = DOMAIN groups \cup {n} /\ DOMAIN given' = DOMAIN given \cup {n}
        /\ \A m \in DOMAIN groups' : groups'[m] \in Group
        /\ \A m \in DOMAIN given' : given'[m] \in Object
    BY <1>1, <1>3, <1>4 DEF Put, GroupsOK
  <1>6. GroupsOK'
    <2>1. phase = "document" /\ Test \in DOMAIN groups
      BY <1>1 DEF GroupItem, Reads, GroupsOK
    <2> QED
      BY <1>1, <1>3, <1>5, <2>1 DEF GroupsOK
  <1>7. PlainOK'
    BY <1>1, <1>3 DEF PlainOK
  <1>8. TenantsOK'
    <2>1. vectors' \in [References -> Arguments]
      BY <1>3, <1>4, ReleaseFacts
    <2> QED
      BY <1>1, <1>3, <2>1 DEF TenantsOK
  <1>9. ASSUME NEW h \in DOMAIN tenants PROVE Settings(h)' = Settings(h)
    <2>1. WithArguments(o)[tenants[h].group.argv] = vectors[tenants[h].group.argv]
      BY <1>4, Rows
    <2>2. /\ h \in DOMAIN tenants' /\ tenants'[h].group = tenants[h].group
          /\ vectors' = Release(WithArguments(o), groups', tenants')
      BY <1>3
    <2> QED
      BY <2>1, <2>2, SettingsKept
  <1>10. Stays
    BY <1>3 DEF Stays
  <1> QED
    BY <1>6, <1>7, <1>8, <1>9, <1>10, TypeParts

\* A document ends, and its groups with it.
LEMMA EndFacts ==
    ASSUME TypeOK, EndDocument, failed' \in BOOLEAN
    PROVE  PlainOK' /\ GroupsOK'
  <1>1. DOMAIN groups' = {} /\ DOMAIN given' = {} /\ phase' # "document"
    BY DEF EndDocument, Nothing
  <1>2. PlainOK
    BY TypeParts
  <1>3. PlainOK'
    BY <1>2 DEF EndDocument, PlainOK
  <1> QED
    BY <1>1, <1>3 DEF GroupsOK

\* Whether it was read to its end or not.
LEMMA EndStep ==
    ASSUME TypeOK, Finished \/ DocumentThrows
    PROVE  TypeOK' /\ Stays /\ \A h \in DOMAIN tenants : Settings(h)' = Settings(h)
  <1>1. PlainOK /\ GroupsOK /\ TenantsOK
    BY TypeParts
  <1>2. /\ EndDocument /\ tenants' = tenants /\ failed' \in BOOLEAN
        /\ vectors' = Release(vectors, groups', tenants')
    BY ZenonT(60), <1>1 DEF Finished, DocumentThrows, EndDocument, PlainOK
  <1>3. PlainOK' /\ GroupsOK'
    BY <1>2, EndFacts
  <1>4. TenantsOK'
    <2>1. vectors' \in [References -> Arguments]
      BY <1>1, <1>2, ReleaseFacts DEF TenantsOK
    <2> QED
      BY <1>1, <1>2, <2>1 DEF TenantsOK
  <1>5. ASSUME NEW h \in DOMAIN tenants PROVE Settings(h)' = Settings(h)
    BY <1>2, SettingsKept
  <1>6. Stays
    BY <1>2 DEF Stays
  <1> QED
    BY <1>3, <1>4, <1>5, <1>6, TypeParts

\* A document ends in the middle of a tenant.
LEMMA ReconfigureThrowsStep ==
    ASSUME TypeOK, NEW n \in Names, NEW o \in Object, ReconfigureThrows(n, o)
    PROVE  TypeOK' /\ Stays /\ OnlyChanges(Hash[n])
  <1>1. /\ Hash[n] \in DOMAIN tenants /\ EndDocument /\ failed' \in BOOLEAN
        /\ tenants' = [tenants EXCEPT ![Hash[n]].group = Configured(@, o)]
        /\ vectors' = Release(vectors, groups', tenants')
        /\ o.arguments = Absent
    BY DEF ReconfigureThrows, EndDocument
  <1>2. WithArguments(o) = vectors
    BY <1>1 DEF WithArguments
  <1>3. TenantsOK' /\ Stays /\ OnlyChanges(Hash[n])
    BY ZenonT(60), <1>1, <1>2, ReconfiguredFacts
  <1>4. PlainOK' /\ GroupsOK'
    BY <1>1, EndFacts
  <1> QED
    BY <1>3, <1>4, TypeParts

\* An argument is appended.
LEMMA AppendStep ==
    ASSUME TypeOK, NEW n \in Names, NEW arg \in Args, AppendMainArgument(n, arg)
    PROVE  TypeOK' /\ Stays /\ OnlyChanges(Hash[n])
  <1> DEFINE c == Hash[n]
             g == [tenants[c].group EXCEPT !.argv = Fresh]
             vs == [vectors EXCEPT ![Fresh] = Append(vectors[tenants[c].group.argv], arg)]
  <1>1. PlainOK /\ GroupsOK /\ TenantsOK
    BY TypeParts
  <1>2. /\ c \in DOMAIN tenants /\ Len(vectors[tenants[c].group.argv]) < MaxArgs
        /\ tenants' = [tenants EXCEPT ![c].group.argv = Fresh]
        /\ vectors' = Release(vs, groups, tenants')
        /\ UNCHANGED <<phase, failed, key, groups, given, loads>>
    BY DEF AppendMainArgument, Appended
  <1>3. Fresh \in References /\ Fresh \notin Using(groups, tenants)
    BY FreshIsNew
  <1>4. g \in Group
    BY <1>2, <1>3, Rows DEF Group
  <1>5. tenants' = [tenants EXCEPT ![c].group = g]
    BY <1>2
  <1>6. vs \in [References -> Arguments]
    <2>1. vectors \in [References -> Arguments] /\ tenants[c].group.argv \in References
      BY <1>1, <1>2, Rows DEF TenantsOK
    <2>2. Append(vectors[tenants[c].group.argv], arg) \in Arguments
      BY <1>2, <2>1, ArgumentsFacts
    <2> QED
      BY <1>3, <2>1, <2>2
  <1>7. \A r \in Using(groups, tenants) : vs[r] = vectors[r]
    BY <1>1, <1>3 DEF TenantsOK
  <1> HIDE DEF g, vs
  <1>8. /\ DOMAIN tenants' = DOMAIN tenants
        /\ \A h \in DOMAIN tenants' : tenants'[h] \in Tenant
        /\ Stays
        /\ \A h \in DOMAIN tenants \ {c} : tenants'[h] = tenants[h]
    BY ZenonT(60), <1>2, <1>4, <1>5, NewGroup
  <1>9. TenantsOK'
    <2>1. vectors' \in [References -> Arguments]
      BY <1>2, <1>6, ReleaseFacts
    <2> QED
      BY <1>1, <1>8, <2>1 DEF TenantsOK
  <1>10. ASSUME NEW h \in DOMAIN tenants \ {c} PROVE Settings(h)' = Settings(h)
    <2>1. vs[tenants[h].group.argv] = vectors[tenants[h].group.argv]
      BY <1>7, Rows
    <2>2. /\ h \in DOMAIN tenants' /\ tenants'[h].group = tenants[h].group
          /\ vectors' = Release(vs, groups', tenants')
      BY <1>2, <1>8
    <2> QED
      BY <2>1, <2>2, SettingsKept
  <1>11. PlainOK' /\ GroupsOK'
    BY <1>1, <1>2 DEF PlainOK, GroupsOK
  <1> QED
    BY <1>8, <1>9, <1>10, <1>11, TypeParts DEF OnlyChanges

\* Programs are loaded.
LEMMA FinalizeStep ==
    ASSUME TypeOK, NEW made \in SUBSET DOMAIN tenants, FinalizeTenants(made)
    PROVE  TypeOK' /\ Stays /\ \A h \in DOMAIN tenants : Settings(h)' = Settings(h)
  <1>1. PlainOK /\ GroupsOK /\ TenantsOK
    BY TypeParts
  <1>2. /\ DOMAIN tenants' = DOMAIN tenants
        /\ \A h \in DOMAIN tenants \ made : tenants'[h] = tenants[h]
        /\ \A h \in made : tenants'[h] = [tenants[h] EXCEPT !.program = Settings(h)]
        /\ made \subseteq Unloaded
        /\ UNCHANGED <<phase, failed, key, groups, given, vectors, loads>>
    BY DEF FinalizeTenants
  <1>3. \A h \in DOMAIN tenants : Settings(h) \in Setting /\ tenants[h] \in Tenant
    <2> SUFFICES ASSUME NEW h \in DOMAIN tenants
                 PROVE  Settings(h) \in Setting /\ tenants[h] \in Tenant
      OBVIOUS
    <2>1. tenants[h] \in Tenant /\ tenants[h].group \in Group
          /\ tenants[h].group.argv \in References
      BY Rows
    <2>2. tenants[h].group.limit \in Limits \cup {DefaultLimit}
          /\ vectors[tenants[h].group.argv] \in Arguments
      BY <1>1, <2>1 DEF Group, TenantsOK
    <2> QED
      BY <2>1, <2>2 DEF Settings, Setting
  <1>4. ASSUME NEW h \in made
        PROVE  /\ tenants'[h] \in Tenant /\ tenants'[h].name = tenants[h].name
               /\ tenants'[h].group = tenants[h].group /\ tenants[h].program = Absent
    <2>1. tenants[h].program = Absent /\ tenants[h] \in Tenant /\ Settings(h) \in Setting
      BY <1>2, <1>3 DEF Unloaded
    <2>2. tenants'[h] = [tenants[h] EXCEPT !.program = Settings(h)]
      BY <1>2
    <2> QED
      BY <2>1, <2>2 DEF Tenant
  <1>5. Stays
    BY <1>2, <1>4 DEF Stays
  <1>6. TenantsOK'
    BY <1>1, <1>2, <1>4 DEF TenantsOK
  <1>7. PlainOK' /\ GroupsOK'
    BY <1>1, <1>2 DEF PlainOK, GroupsOK
  <1>8. ASSUME NEW h \in DOMAIN tenants PROVE Settings(h)' = Settings(h)
    <2>1. tenants'[h].group = tenants[h].group /\ vectors' = vectors
      BY <1>2, <1>4
    <2> QED
      BY <2>1 DEF Settings
  <1> QED
    BY <1>5, <1>6, <1>7, <1>8, TypeParts

\* The other steps change no table.
LEMMA OtherSteps ==
    ASSUME TypeOK,
           \/ NextVcl \/ UNCHANGED vars
           \/ \E n \in Names, o \in Object : GroupMissing(n, o)
    PROVE  TypeOK' /\ Stays /\ \A h \in DOMAIN tenants : Settings(h)' = Settings(h)
  <1>1. PlainOK /\ GroupsOK /\ TenantsOK
    BY TypeParts
  <1>2. /\ UNCHANGED <<groups, given, tenants, vectors, loads>> /\ failed' \in BOOLEAN
        /\ key' \in Names \cup {0}
        /\ phase' \in {"vcl", "document", "over"}
        /\ (phase' = "document") = (phase = "document")
    <2>1. CASE NextVcl
      BY ZenonT(60), <1>1, <2>1 DEF NextVcl, PlainOK
    <2>2. CASE UNCHANGED vars
      BY <1>1, <2>2 DEF vars, PlainOK
    <2>3. CASE \E n \in Names, o \in Object : GroupMissing(n, o)
      BY <1>1, <2>3 DEF GroupMissing, Reads, PlainOK
    <2> QED
      BY <2>1, <2>2, <2>3
  <1>3. PlainOK' /\ GroupsOK' /\ TenantsOK'
    BY <1>1, <1>2 DEF PlainOK, GroupsOK, TenantsOK
  <1>4. Stays /\ \A h \in DOMAIN tenants : Settings(h)' = Settings(h)
    BY <1>2 DEF Stays, Settings
  <1> QED
    BY <1>3, <1>4, TypeParts

\* What any step keeps.
LEMMA StepFacts ==
    ASSUME TypeOK, [Next]_vars
    PROVE  TypeOK' /\ Stays /\ \E c : OnlyChanges(c)
  <1>1. CASE BeginDocument
    BY <1>1, BeginDocumentStep DEF OnlyChanges, Settings
  <1>2. CASE Finished \/ DocumentThrows
    BY <1>2, EndStep DEF OnlyChanges
  <1>3. CASE NextVcl \/ UNCHANGED vars
    BY <1>3, OtherSteps DEF OnlyChanges
  <1>4. ASSUME NEW n \in Names, NEW o \in Object, Item(n, o) \/ ReconfigureThrows(n, o)
        PROVE  TypeOK' /\ Stays /\ \E c : OnlyChanges(c)
    <2>1. CASE TenantItem(n, o)
      BY <2>1, TenantItemStep DEF OnlyChanges
    <2>2. CASE GroupMissing(n, o)
      BY <2>2, OtherSteps DEF OnlyChanges
    <2>3. CASE Reconfigure(n, o)
      BY <2>3, ReconfigureStep
    <2>4. CASE GroupItem(n, o)
      BY <2>4, GroupItemStep DEF OnlyChanges
    <2>5. CASE ReconfigureThrows(n, o)
      BY <2>5, ReconfigureThrowsStep
    <2> QED
      BY <1>4, <2>1, <2>2, <2>3, <2>4, <2>5 DEF Item
  <1>5. ASSUME NEW n \in Names, NEW arg \in Args, AppendMainArgument(n, arg)
        PROVE  TypeOK' /\ Stays /\ \E c : OnlyChanges(c)
    BY <1>5, AppendStep
  <1>6. ASSUME NEW made \in SUBSET DOMAIN tenants, FinalizeTenants(made)
        PROVE  TypeOK' /\ Stays /\ \E c : OnlyChanges(c)
    BY <1>6, FinalizeStep DEF OnlyChanges
  <1> QED
    BY <1>1, <1>2, <1>3, <1>4, <1>5, <1>6 DEF Next

-----------------------------------------------------------------------------
(* The groups of a document.                                               *)

\* A release leaves nothing behind.
LEMMA ReleaseClean ==
    ASSUME NEW vs, vectors' = Release(vs, groups', tenants')
    PROVE  CleanInv'
  BY DEF CleanInv, Release

\* Groups that stay as they are keep what is behind their references.
LEMMA GroupsKept ==
    ASSUME TypeOK, GivenInv, NEW vs, vectors' = Release(vs, groups', tenants'),
           UNCHANGED <<groups, given>>, key' \in Nat, key <= key', key \in Nat,
           \A r \in Using(groups, tenants) : vs[r] = vectors[r]
    PROVE  GivenInv'
  <1>1. ASSUME NEW g \in DOMAIN groups
        PROVE  vectors'[groups[g].argv] = vectors[groups[g].argv]
    <2>1. groups[g].argv \in References
      BY Rows DEF Group
    <2>2. groups[g].argv \in Using(groups', tenants') /\ groups[g].argv \in Using(groups, tenants)
      BY DEF Using
    <2>3. vectors'[groups[g].argv] = vs[groups[g].argv]
      BY <2>1, <2>2, ReleaseFacts
    <2> QED
      BY <2>2, <2>3
  <1>2. \A n \in DOMAIN given : n <= key'
    <2>1. \A n \in DOMAIN given : n \in Nat
      BY ZenonT(60), TypeParts, TenancyAssumption DEF GroupsOK
    <2> QED
      BY <2>1 DEF GivenInv
  <1>3. \A g : OfGroup(g)' = OfGroup(g)
    BY DEF OfGroup
  <1> QED
    BY <1>1, <1>2, <1>3 DEF GivenInv

\* Keys are numbers.
LEMMA KeyType == TypeOK => key \in Nat
  BY TypeParts, TenancyAssumption DEF PlainOK

\* The document has just begun: the group "test" is all there is.
LEMMA BeginDocumentGiven ==
    ASSUME TypeOK, CleanInv, GivenInv, BeginDocument
    PROVE  CleanInv' /\ GivenInv'
  <1>1. DOMAIN groups = {} /\ DOMAIN given = {} /\ UNCHANGED <<given, tenants, vectors>>
    BY ZenonT(60), TypeParts DEF GroupsOK, BeginDocument
  <1>2. /\ DOMAIN groups' = {Test} /\ groups'[Test].limit = DefaultLimit
        /\ groups'[Test].argv = Fresh
    BY DEF BeginDocument, Put, Nothing
  <1>3. vectors[Fresh] = <<>>
    BY FreshIsNew DEF CleanInv
  <1>4. CleanInv'
    <2>1. Using(groups, tenants) \subseteq Using(groups', tenants')
      BY <1>1 DEF Using
    <2> QED
      BY <1>1, <2>1 DEF CleanInv
  <1>5. OfGroup(Test)' = [file |-> FALSE, group |-> Absent, limit |-> Absent,
                          arguments |-> Absent]
    BY <1>1 DEF OfGroup
  <1>6. GivenInv'
    BY <1>1, <1>2, <1>3, <1>5 DEF GivenInv, Written
  <1> QED
    BY <1>4, <1>6

\* The document makes, or configures, a group.
LEMMA GroupItemGiven ==
    ASSUME TypeOK, CleanInv, GivenInv, NEW n \in Names, NEW o \in Object, GroupItem(n, o)
    PROVE  CleanInv' /\ GivenInv'
  <1> DEFINE old == IF n \in DOMAIN groups
                    THEN groups[n] ELSE [limit |-> DefaultLimit, argv |-> Fresh]
             g == Configured(old, o)
  <1>1. /\ groups' = Put(groups, n, g) /\ given' = Put(given, n, o)
        /\ vectors' = Release(WithArguments(o), groups', tenants')
        /\ tenants' = tenants /\ key' = n /\ n > key
    BY DEF GroupItem, Reads
  <1>2. n \in Nat /\ key \in Nat /\ \A m \in DOMAIN given : m \in Nat
    BY KeyType, TypeParts, TenancyAssumption DEF GroupsOK
  <1>3. n \notin DOMAIN given
    BY <1>1, <1>2 DEF GivenInv
  <1>4. Fresh \in References /\ Fresh \notin Using(groups, tenants) /\ vectors[Fresh] = <<>>
    BY FreshIsNew DEF CleanInv
  <1>5. /\ old \in Group /\ old.limit = DefaultLimit /\ vectors[old.argv] = <<>>
    <2>1. CASE n \in DOMAIN groups
      <3>1. OfGroup(n).limit = Absent /\ OfGroup(n).arguments = Absent
        BY <1>3 DEF OfGroup
      <3> QED
        BY <2>1, <3>1, Rows DEF GivenInv, Written
    <2>2. CASE n \notin DOMAIN groups
      BY <1>4, <2>2 DEF Group
    <2> QED
      BY <2>1, <2>2
  <1> HIDE DEF old
  <1>6. /\ g \in Group /\ WithArguments(o) \in [References -> Arguments]
        /\ \A r \in Using(groups, tenants) : WithArguments(o)[r] = vectors[r]
    BY <1>5, ConfiguredFacts
  <1>7. /\ g.limit = Written(Absent, o.limit, DefaultLimit)
        /\ WithArguments(o)[g.argv] = Written(Absent, o.arguments, <<>>)
    <2>1. g.limit = Written(Absent, o.limit, DefaultLimit)
      BY <1>5 DEF Configured, Written
    <2>2. CASE o.arguments = Absent
      BY <1>5, <2>1, <2>2 DEF Configured, Written, WithArguments
    <2>3. CASE o.arguments # Absent
      <3>1. g.argv = Fresh /\ vectors \in [References -> Arguments]
        BY <2>3, TypeParts DEF Configured, TenantsOK
      <3> QED
        BY <1>4, <2>1, <2>3, <3>1 DEF Written, WithArguments
    <2> QED
      BY <2>1, <2>2, <2>3
  <1> HIDE DEF g
  <1>8. /\ DOMAIN groups' = DOMAIN groups \cup {n} /\ groups'[n] = g
        /\ \A m \in DOMAIN groups \ {n} : groups'[m] = groups[m]
        /\ DOMAIN given' = DOMAIN given \cup {n} /\ given'[n] = o
        /\ \A m \in DOMAIN given \ {n} : given'[m] = given[m]
    BY <1>1 DEF Put
  <1>9. OfGroup(n)' = o /\ \A m : m # n => OfGroup(m)' = OfGroup(m)
    BY <1>8 DEF OfGroup
  <1>10. ASSUME NEW m \in DOMAIN groups'
         PROVE  vectors'[groups'[m].argv] = WithArguments(o)[groups'[m].argv]
    <2>1. groups'[m].argv \in Using(groups', tenants')
      BY DEF Using
    <2>2. groups'[m].argv \in References
      BY <1>6, <1>8, Rows DEF Group
    <2> QED
      BY <1>1, <2>1, <2>2, ReleaseFacts
  <1>11. ASSUME NEW m \in DOMAIN groups \ {n}
         PROVE  WithArguments(o)[groups[m].argv] = vectors[groups[m].argv]
    BY <1>6 DEF Using
  <1>12. ASSUME NEW m \in DOMAIN groups'
         PROVE  /\ groups'[m].limit = Written(Absent, OfGroup(m)'.limit, DefaultLimit)
                /\ vectors'[groups'[m].argv] = Written(Absent, OfGroup(m)'.arguments, <<>>)
    <2>1. CASE m = n
      BY <1>7, <1>8, <1>9, <1>10, <2>1
    <2>2. CASE m # n
      BY <1>8, <1>9, <1>10, <1>11, <2>2 DEF GivenInv
    <2> QED
      BY <2>1, <2>2
  <1>13. (\A m \in DOMAIN given' : m <= key') /\ DOMAIN groups' \subseteq DOMAIN given' \cup {Test}
    <2>1. \A m \in DOMAIN given : m <= key /\ key < n
      BY <1>1, <1>2 DEF GivenInv
    <2> QED
      BY <1>1, <1>2, <1>8, <2>1 DEF GivenInv
  <1>14. GivenInv'
    BY <1>12, <1>13 DEF GivenInv
  <1> QED
    BY <1>1, <1>14, ReleaseClean

\* Every step keeps the groups true to their objects.
LEMMA GivenStep == TypeOK /\ CleanInv /\ GivenInv /\ [Next]_vars => CleanInv' /\ GivenInv'
  <1> SUFFICES ASSUME TypeOK, CleanInv, GivenInv, [Next]_vars PROVE CleanInv' /\ GivenInv'
    OBVIOUS
  <1>1. key \in Nat
    BY KeyType
  <1>2. CASE BeginDocument
    BY <1>2, BeginDocumentGiven
  <1>3. ASSUME EndDocument PROVE CleanInv' /\ GivenInv'
    <2>1. DOMAIN groups' = {} /\ DOMAIN given' = {}
      BY <1>3 DEF EndDocument, Nothing
    <2>2. GivenInv'
      BY <2>1 DEF GivenInv
    <2> QED
      BY <1>3, <2>2, ReleaseClean DEF EndDocument
  <1>4. ASSUME UNCHANGED <<groups, given, vectors>>,
               Using(groups', tenants') = Using(groups, tenants), key' \in Nat, key <= key'
        PROVE  CleanInv' /\ GivenInv'
    <2>1. \A n \in DOMAIN given : n \in Nat
      BY TypeParts, TenancyAssumption DEF GroupsOK
    <2>2. \A g : OfGroup(g)' = OfGroup(g)
      BY <1>4 DEF OfGroup
    <2>3. GivenInv'
      BY <1>1, <1>4, <2>1, <2>2 DEF GivenInv
    <2> QED
      BY <1>4, <2>3 DEF CleanInv
  <1>5. CASE NextVcl \/ UNCHANGED vars
    BY <1>1, <1>4, <1>5 DEF NextVcl, vars
  <1>6. ASSUME NEW n \in Names, NEW o \in Object, Item(n, o) \/ ReconfigureThrows(n, o)
        PROVE  CleanInv' /\ GivenInv'
    <2>1. n \in Nat
      BY TenancyAssumption
    <2>2. CASE TenantItem(n, o)
      <3>1. groups[GroupOf(o)] \in Group
        BY <2>2, Rows DEF TenantItem
      <3>2. \A r \in Using(groups, tenants) : WithArguments(o)[r] = vectors[r]
        BY <3>1, ConfiguredFacts
      <3>3. /\ vectors' = Release(WithArguments(o), groups', tenants')
            /\ UNCHANGED <<groups, given>> /\ key' = n /\ n > key
        BY <2>2 DEF TenantItem, Reads, GroupsAfter
      <3> QED
        BY <1>1, <2>1, <3>2, <3>3, GroupsKept, ReleaseClean
    <2>3. CASE GroupMissing(n, o)
      BY <1>1, <1>4, <2>1, <2>3 DEF GroupMissing, Reads
    <2>4. CASE Reconfigure(n, o)
      <3>1. tenants[Hash[n]].group \in Group
        BY <2>4, Rows DEF Reconfigure
      <3>2. \A r \in Using(groups, tenants) : WithArguments(o)[r] = vectors[r]
        BY <3>1, ConfiguredFacts
      <3>3. /\ vectors' = Release(WithArguments(o), groups', tenants')
            /\ UNCHANGED <<groups, given>> /\ key' = n /\ n > key
        BY <2>4 DEF Reconfigure, Reads
      <3> QED
        BY <1>1, <2>1, <3>2, <3>3, GroupsKept, ReleaseClean
    <2>5. CASE GroupItem(n, o)
      BY <2>5, GroupItemGiven
    <2>6. CASE ReconfigureThrows(n, o)
      BY <1>3, <2>6 DEF ReconfigureThrows
    <2> QED
      BY <1>6, <2>2, <2>3, <2>4, <2>5, <2>6 DEF Item
  <1>7. ASSUME NEW n \in Names, NEW arg \in Args, AppendMainArgument(n, arg)
        PROVE  CleanInv' /\ GivenInv'
    <2>1. DOMAIN groups = {} /\ DOMAIN given = {} /\ UNCHANGED <<groups, given>>
      BY ZenonT(60), <1>7, TypeParts DEF GroupsOK, AppendMainArgument
    <2>2. GivenInv'
      BY <2>1 DEF GivenInv
    <2> QED
      BY <1>7, <2>1, <2>2, ReleaseClean DEF AppendMainArgument, Appended
  <1>8. ASSUME NEW made \in SUBSET DOMAIN tenants, FinalizeTenants(made)
        PROVE  CleanInv' /\ GivenInv'
    <2>1. DOMAIN tenants' = DOMAIN tenants /\ UNCHANGED <<groups, given, vectors, key>>
      BY <1>8 DEF FinalizeTenants
    <2>2. \A h \in DOMAIN tenants : tenants'[h].group = tenants[h].group
      BY <1>8, Rows DEF FinalizeTenants, Tenant
    <2>3. Using(groups', tenants') = Using(groups, tenants)
      BY <2>1, <2>2 DEF Using
    <2> QED
      BY <1>1, <1>4, <2>1, <2>3
  <1>9. CASE Finished \/ DocumentThrows
    BY <1>3, <1>9 DEF Finished, DocumentThrows
  <1> QED
    BY <1>2, <1>5, <1>6, <1>7, <1>8, <1>9 DEF Next

\* The first state.
LEMMA InitFacts == Init => TypeOK /\ CleanInv /\ GivenInv
  <1> SUFFICES ASSUME Init PROVE TypeOK /\ CleanInv /\ GivenInv
    OBVIOUS
  <1>1. DOMAIN groups = {} /\ DOMAIN given = {} /\ DOMAIN tenants = {}
    BY DEF Init, Nothing
  <1>2. PlainOK /\ GroupsOK
    <2>1. phase = "vcl" /\ failed = FALSE /\ key = 0 /\ loads \in 0 .. MaxLoads
      BY TenancyAssumption DEF Init
    <2>2. PlainOK
      BY ZenonT(60), <2>1 DEF PlainOK
    <2>3. GroupsOK
      BY <1>1, <2>1 DEF GroupsOK
    <2> QED
      BY <2>2, <2>3
  <1>3. vectors \in [References -> Arguments] /\ \A r \in References : vectors[r] = <<>>
    <2>1. <<>> \in Arguments
      BY ArgumentsFacts
    <2> QED
      BY <2>1 DEF Init
  <1>4. TenantsOK
    BY <1>1, <1>3 DEF TenantsOK
  <1> QED
    BY <1>1, <1>2, <1>3, <1>4, TypeParts DEF CleanInv, GivenInv

-----------------------------------------------------------------------------
(* The theorems.                                                           *)

\* The types, and the groups true to their objects, at every step.
THEOREM TableInv == Spec => [](TypeOK /\ CleanInv /\ GivenInv)
  <1>1. TypeOK /\ CleanInv /\ GivenInv /\ [Next]_vars => (TypeOK /\ CleanInv /\ GivenInv)'
    BY StepFacts, GivenStep
  <1> QED
    BY <1>1, InitFacts, PTL DEF Spec

\* The tables are well-typed, and there is always room for one more vector.
THEOREM TypeCorrect == Spec => []TypeOK
  BY TableInv, PTL

\* No document and no finalize_tenants of any VCL removes a tenant, or replaces
\* its name or the program it has, however hashes collide.
THEOREM TenantsAreKept == Spec => TenantsStay
  <1>1. TypeOK /\ [Next]_vars =>
          [\A h \in DOMAIN tenants :
              /\ h \in DOMAIN tenants'
              /\ tenants'[h].name = tenants[h].name
              /\ tenants[h].program # Absent => tenants'[h].program = tenants[h].program]_vars
    BY StepFacts DEF Stays
  <1> QED
    BY <1>1, TypeCorrect, PTL DEF Spec, TenantsStay

\* However tenants and groups share their vectors, a step changes the settings
\* of one tenant at most.
THEOREM OneAtATime == Spec => OneTenantChanges
  <1>1. TypeOK /\ [Next]_vars =>
          [\A h, k \in DOMAIN tenants :
              Settings(h)' # Settings(h) /\ Settings(k)' # Settings(k) => h = k]_vars
    BY StepFacts DEF OnlyChanges
  <1> QED
    BY <1>1, TypeCorrect, PTL DEF Spec, OneTenantChanges

\* A tenant enters the table with its own members over those of its group over
\* the defaults, whatever was read before it.
THEOREM EntryAsWritten == Spec => EntersAsWritten
  <1> DEFINE A == \A n \in Names :
                    Hash[n] \in DOMAIN tenants' \ DOMAIN tenants =>
                    \A o \in Object :
                        TenantItem(n, o) =>
                        Settings(Hash[n])' =
                          [limit |-> Written(o.limit, OfGroup(GroupOf(o)).limit, DefaultLimit),
                           arguments |->
                             Written(o.arguments, OfGroup(GroupOf(o)).arguments, <<>>)]
  <1>1. TypeOK /\ CleanInv /\ GivenInv /\ [Next]_vars => [A]_vars
    <2> SUFFICES ASSUME TypeOK, CleanInv, GivenInv, NEW n \in Names,
                        Hash[n] \in DOMAIN tenants' \ DOMAIN tenants,
                        NEW o \in Object, TenantItem(n, o)
                 PROVE  Settings(Hash[n])' =
                          [limit |-> Written(o.limit, OfGroup(GroupOf(o)).limit, DefaultLimit),
                           arguments |->
                             Written(o.arguments, OfGroup(GroupOf(o)).arguments, <<>>)]
      OBVIOUS
    <2> DEFINE c == Hash[n]
               old == groups[GroupOf(o)]
               g == Configured(old, o)
    <2>1. /\ tenants'[c].group = g /\ GroupOf(o) \in DOMAIN groups
          /\ vectors' = Release(WithArguments(o), groups', tenants')
      BY DEF TenantItem, Emplace, Put
    <2>2. old \in Group /\ old.argv \in Using(groups, tenants)
      BY <2>1, Rows DEF Using
    <2>3. /\ g \in Group
          /\ \A r \in Using(groups, tenants) : WithArguments(o)[r] = vectors[r]
      BY <2>2, ConfiguredFacts
    <2>4. /\ old.limit = Written(Absent, OfGroup(GroupOf(o)).limit, DefaultLimit)
          /\ vectors[old.argv] = Written(Absent, OfGroup(GroupOf(o)).arguments, <<>>)
      BY <2>1 DEF GivenInv
    <2>5. Fresh \in References /\ vectors \in [References -> Arguments]
      BY FreshIsNew, TypeParts DEF TenantsOK
    <2>6. WithArguments(o)[g.argv] =
            Written(o.arguments, OfGroup(GroupOf(o)).arguments, <<>>)
      <3>1. CASE o.arguments = Absent
        BY <2>2, <2>3, <2>4, <3>1 DEF Configured, Written
      <3>2. CASE o.arguments # Absent
        <4>1. g.argv = Fresh
          BY <3>2 DEF Configured
        <4> QED
          BY <2>5, <3>2, <4>1 DEF WithArguments, Written
      <3> QED
        BY <3>1, <3>2
    <2>7. g.limit = Written(o.limit, OfGroup(GroupOf(o)).limit, DefaultLimit)
      BY <2>4 DEF Configured, Written
    <2> HIDE DEF g, old
    <2>8. vectors'[g.argv] = WithArguments(o)[g.argv]
      <3>1. g.argv \in References
        BY <2>3 DEF Group
      <3>2. g.argv \in Using(groups', tenants')
        BY <2>1 DEF Using
      <3> QED
        BY <2>1, <3>1, <3>2, ReleaseFacts
    <2> QED
      BY <2>1, <2>6, <2>7, <2>8 DEF Settings
  <1> QED
    BY <1>1, TableInv, PTL DEF Spec, EntersAsWritten
==============================================================================
