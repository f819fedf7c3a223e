--------------------------- MODULE KeyFileProofs ---------------------------
(***************************************************************************)
(* One identity for a volume, for any number of processes and crashes.     *)
(***************************************************************************)
EXTENDS KeyFile, FiniteSetTheorems, TLAPS

Creating(p) == step[p] \in {"open", "write"}

\* A key is generated before it is written.
KeysGenerated == \A p \in All : Creating(p) => key[p] # Empty

TInv == TypeOK /\ KeysGenerated

LEMMA TypedStart == Init => TInv
<1> SUFFICES ASSUME Init PROVE TInv
    OBVIOUS
<1>1. overlapped \in BOOLEAN
    BY Zenon DEF Init
<1> QED
    BY <1>1 DEF Init, TInv, TypeOK, KeysGenerated, Creating, Absent, Empty

LEMMA TypedStep == TInv /\ [Next]_vars => TInv'
<1> SUFFICES ASSUME TInv, [Next]_vars PROVE TInv'
    OBVIOUS
<1> USE DEF TInv, TypeOK, KeysGenerated, Creating, Empty
<1>1. ASSUME NEW p \in All, ToCreate(p), forced' \in Nat PROVE TInv'
    BY <1>1 DEF ToCreate
<1>2. ASSUME NEW p \in Procs, Start(p) PROVE TInv'
    <2>1. CASE ToLoad(p)
        BY <2>1 DEF ToLoad, All
    <2>2. CASE ToCreate(p) /\ UNCHANGED forced
        BY <1>1, <2>2 DEF All
    <2> QED
        BY <1>2, <2>1, <2>2 DEF Start
<1>3. ASSUME NEW p \in Keygens, Keygen(p) PROVE TInv'
    BY <1>1, <1>3 DEF Keygen, All
<1>4. ASSUME NEW p \in All, Open(p) PROVE TInv'
    BY <1>4 DEF Open
<1>5. ASSUME NEW p \in All, Write(p) PROVE TInv'
    <2>1. key[p] \in Nat \ {Empty} /\ file' = key[p]
          /\ UNCHANGED <<generated, overlapped, forced, crashes>>
        BY <1>5 DEF Write
    <2>2. CASE step' = [step EXCEPT ![p] = "up"] /\ used' = used \cup {key[p]} /\ UNCHANGED key
        BY <2>1, <2>2
    <2>3. CASE step' = [step EXCEPT ![p] = "down"] /\ key' = [key EXCEPT ![p] = Empty]
               /\ UNCHANGED used
        BY <2>1, <2>3
    <2> QED
        BY <1>5, <2>2, <2>3 DEF Write
<1>6. ASSUME NEW p \in Procs, Load(p) PROVE TInv'
    <2>1. CASE file = Empty
        <3>1. /\ step' = [step EXCEPT ![p] = "down"]
              /\ UNCHANGED <<file, key, generated, used, overlapped, forced, crashes>>
            BY <1>6, <2>1 DEF Load
        <3> QED
            BY <3>1
    <2>2. CASE file > Empty
        <3>1. file \in Nat \ {Empty} /\ p \in All
            BY <2>2 DEF Absent, All
        <3>2. /\ key' = [key EXCEPT ![p] = file]
              /\ step' = [step EXCEPT ![p] = "up"]
              /\ used' = used \cup {file}
              /\ UNCHANGED <<file, generated, overlapped, forced, crashes>>
            BY <1>6, <2>2 DEF Load
        <3> QED
            BY <3>1, <3>2
    <2> QED
        BY <1>6, <2>1, <2>2 DEF Load
<1>7. ASSUME NEW p \in All, Crash(p) PROVE TInv'
    BY <1>7 DEF Crash
<1>8. CASE UNCHANGED vars
    BY <1>8 DEF vars
<1> QED
    BY <1>2, <1>3, <1>4, <1>5, <1>6, <1>7, <1>8 DEF Next, Save

\* For any number of processes and crashes all of KeyFile's state keeps its
\* type; in particular no node runs with an empty key.
THEOREM TypeCorrect == Spec => []TypeOK
<1>1. TInv => TypeOK
    BY DEF TInv
<1> QED
    BY TypedStart, TypedStep, <1>1, PTL DEF Spec

-----------------------------------------------------------------------------

\* At most one process creates the key, and finds the file as it left it.
OneCreator ==
    /\ \A p, q \in All : Creating(p) /\ Creating(q) => p = q
    /\ \A p \in All : step[p] = "open" => file = Absent
    /\ \A p \in All : step[p] = "write" => file = Empty

OneInv == ~overlapped /\ forced = 0 => OneCreator /\ OneIdentity

LEMMA OneStep ==
    ASSUME TInv, OneInv, [Next]_vars
    PROVE  OneInv'
<1> SUFFICES ASSUME ~overlapped', forced' = 0 PROVE OneCreator' /\ OneIdentity'
    BY DEF OneInv
<1> USE DEF TInv, TypeOK, OneCreator, OneIdentity, Creating, Absent, Empty
<1>1. ASSUME NEW p \in All, ToCreate(p), file = Absent, UNCHANGED forced
      PROVE  OneCreator' /\ OneIdentity'
    <2>1. ~overlapped /\ forced = 0 /\ \A q \in All : step[q] # "open"
        BY <1>1 DEF ToCreate
    <2>2. \A q \in All : step[q] # "write"
        BY <1>1, <2>1 DEF OneInv
    <2> QED
        BY <1>1, <2>1, <2>2 DEF ToCreate, OneInv
<1>2. ASSUME NEW p \in Procs, Start(p) PROVE OneCreator' /\ OneIdentity'
    <2>1. CASE ToLoad(p) /\ file # Absent
        BY <1>2, <2>1 DEF ToLoad, OneInv, All
    <2>2. CASE ToCreate(p) /\ file = Absent /\ UNCHANGED forced
        BY <1>1, <2>2 DEF All
    <2> QED
        BY <1>2, <2>1, <2>2 DEF Start
<1>3. ASSUME NEW p \in Keygens, Keygen(p) PROVE OneCreator' /\ OneIdentity'
    BY <1>1, <1>3 DEF Keygen, All
<1>4. ASSUME NEW p \in All, Open(p) PROVE OneCreator' /\ OneIdentity'
    BY <1>4 DEF Open, OneInv
<1>5. ASSUME NEW p \in All, Write(p) PROVE OneCreator' /\ OneIdentity'
    <2>1. ~overlapped /\ forced = 0 /\ file' = key[p] /\ step[p] = "write"
          /\ key[p] # Empty /\ key[p] \in Nat
        BY <1>5 DEF Write, KeysGenerated
    <2>2. file = Empty /\ used = {} /\ \A q \in All : q # p => ~Creating(q)
        BY <2>1 DEF OneInv
    <2>3. used' \subseteq {key[p]} /\ \A q \in All : ~Creating(q)'
        <3>1. step' = [step EXCEPT ![p] = "up"] \/ step' = [step EXCEPT ![p] = "down"]
            BY <1>5 DEF Write
        <3>2. used' \subseteq used \cup {key[p]}
            BY <1>5 DEF Write
        <3> QED
            BY <2>2, <3>1, <3>2
    <2> QED
        BY <2>1, <2>3
<1>6. ASSUME NEW p \in Procs, Load(p) PROVE OneCreator' /\ OneIdentity'
    <2>1. UNCHANGED <<file, overlapped, forced>> /\ used' \subseteq used \cup {file}
        BY <1>6 DEF Load
    <2>2. \A q \in All : Creating(q)' => Creating(q) /\ step'[q] = step[q]
        BY <1>6 DEF Load, All
    <2> QED
        BY <2>1, <2>2 DEF OneInv
<1>7. ASSUME NEW p \in All, Crash(p) PROVE OneCreator' /\ OneIdentity'
    BY <1>7 DEF Crash, OneInv
<1>8. CASE UNCHANGED vars
    BY <1>8 DEF vars, OneInv
<1> QED
    BY <1>2, <1>3, <1>4, <1>5, <1>6, <1>7, <1>8 DEF Next, Save

\* build_node_from_settings for any number of processes and crashes: unless two
\* processes found no key file at the same time or keygen was told to overwrite
\* it, all nodes that ever run on the volume have the identity of the key in it.
THEOREM OneIdentityHolds == Spec => []OneIdentity
<1>1. Init => OneInv
    BY DEF Init, OneInv, OneCreator, OneIdentity, Creating, Absent, Empty
<1>2. TInv /\ OneInv /\ [Next]_vars => OneInv'
    BY OneStep
<1>3. OneInv => OneIdentity
    BY DEF OneInv, OneIdentity
<1> QED
    BY TypedStart, TypedStep, <1>1, <1>2, <1>3, PTL DEF Spec

-----------------------------------------------------------------------------
(* How many identities there can be.                                       *)

\* The keys nodes have run with, or will when they load the file.
Known == used \cup (IF file > Empty THEN {file} ELSE {})

Creators == {p \in All : Creating(p)}

\* A process that has yet to write can make one more key known, and nobody gets
\* to be such a process once there is a file, except by force.
CountInv ==
    /\ IsFiniteSet(used)
    /\ (file = Absent => used = {})
    /\ Cardinality(Known) + Cardinality(Creators) <= Cardinality(All) + forced

LEMMA KnownFinite == ASSUME TInv, IsFiniteSet(used)
                     PROVE  IsFiniteSet(Known) /\ Cardinality(Known) \in Nat
                            /\ Cardinality(used) <= Cardinality(Known)
                            /\ Cardinality(used) \in Nat
<1>1. Known = used \/ Known = used \cup {file}
    BY DEF Known
<1>2. IsFiniteSet(used \cup {file})
    BY FS_AddElement
<1>3. IsFiniteSet(Known)
    BY <1>1, <1>2
<1>4. used \subseteq Known
    BY DEF Known
<1> QED
    BY <1>3, <1>4, FS_Subset, FS_CardinalityType

LEMMA CreatorsFinite ==
    /\ IsFiniteSet(Creators) /\ Cardinality(Creators) \in Nat
    /\ Cardinality(Creators) <= Cardinality(All) /\ Cardinality(All) \in Nat
<1>1. Creators \subseteq All /\ IsFiniteSet(All)
    BY KeyFileAssumption DEF Creators
<1> QED
    BY <1>1, FS_Subset, FS_CardinalityType

\* No key becomes known, and nobody begins to create one.
LEMMA CountFewer ==
    ASSUME TInv, CountInv, TInv', IsFiniteSet(used'), file' = Absent => used' = {},
           Known' \subseteq Known, Creators' \subseteq Creators, forced' = forced
    PROVE  CountInv'
<1>1. /\ IsFiniteSet(Known) /\ Cardinality(Known) \in Nat
      /\ IsFiniteSet(Creators) /\ Cardinality(Creators) \in Nat /\ Cardinality(All) \in Nat
      /\ forced \in Nat
    BY KnownFinite, CreatorsFinite DEF CountInv, TInv, TypeOK
<1>2. IsFiniteSet(Known') /\ Cardinality(Known') <= Cardinality(Known)
      /\ Cardinality(Known') \in Nat
    BY <1>1, FS_Subset, FS_CardinalityType
<1>3. IsFiniteSet(Creators') /\ Cardinality(Creators') <= Cardinality(Creators)
      /\ Cardinality(Creators') \in Nat
    BY <1>1, FS_Subset, FS_CardinalityType
<1> QED
    BY <1>1, <1>2, <1>3 DEF CountInv

\* Creating a key, because there is none or by force.
LEMMA CountCreate ==
    ASSUME TInv, CountInv, TInv', NEW p \in All, ToCreate(p), step[p] = "down",
           \/ file = Absent /\ forced' = forced
           \/ forced' = forced + 1
    PROVE  CountInv'
<1>1. UNCHANGED <<file, used>> /\ Creators' = Creators \cup {p} /\ Known' = Known
    <2>1. UNCHANGED <<file, used>> /\ step' = [step EXCEPT ![p] = "open"]
        BY DEF ToCreate
    <2>2. Creators' = Creators \cup {p}
        BY <2>1 DEF Creators, Creating, TInv, TypeOK
    <2> QED
        BY <2>1, <2>2 DEF Known
<1>2. /\ Cardinality(Known) \in Nat /\ Cardinality(All) \in Nat /\ forced \in Nat
      /\ IsFiniteSet(Creators) /\ Cardinality(Creators) \in Nat
    BY KnownFinite, CreatorsFinite DEF CountInv, TInv, TypeOK
<1>3. Cardinality(Creators') <= Cardinality(Creators) + 1 /\ Cardinality(Creators') \in Nat
    <2>1. /\ IsFiniteSet(Creators \cup {p})
          /\ Cardinality(Creators \cup {p}) =
               IF p \in Creators THEN Cardinality(Creators) ELSE Cardinality(Creators) + 1
        BY <1>2, FS_AddElement
    <2>2. /\ Cardinality(Creators \cup {p}) \in Nat
          /\ Cardinality(Creators \cup {p}) <= Cardinality(Creators) + 1
        BY <1>2, <2>1
    <2> QED
        BY <1>1, <2>1, <2>2
<1>4. Cardinality(Creators') <= Cardinality(All)
    <2>1. Creators' \subseteq All /\ IsFiniteSet(All)
        BY KeyFileAssumption DEF Creators
    <2> QED
        BY <2>1, FS_Subset
<1>5. CASE file = Absent /\ forced' = forced
    <2>1. Known = {}
        BY <1>5 DEF CountInv, Known, Absent, Empty
    <2>2. Cardinality(Known') = 0
        BY <1>1, <2>1, FS_EmptySet
    <2> QED
        BY <1>1, <1>2, <1>3, <1>4, <1>5, <2>2 DEF CountInv
<1>6. CASE forced' = forced + 1
    BY <1>1, <1>2, <1>3, <1>6 DEF CountInv
<1> QED
    BY <1>5, <1>6

LEMMA CountWrite ==
    ASSUME TInv, CountInv, TInv', NEW p \in All, Write(p)
    PROVE  CountInv'
<1>1. /\ step[p] = "write" /\ file' = key[p] /\ forced' = forced
      /\ used' \subseteq used \cup {key[p]}
      /\ key[p] \in Nat \ {Empty}
    BY DEF Write, TInv, TypeOK, KeysGenerated, Creating
<1>2. p \in Creators /\ Creators' = Creators \ {p}
    <2>1. step' = [step EXCEPT ![p] = "up"] \/ step' = [step EXCEPT ![p] = "down"]
        BY DEF Write
    <2> QED
        BY <1>1, <2>1 DEF Creators, Creating, TInv, TypeOK
<1>3. Known' \subseteq Known \cup {key[p]}
    BY <1>1 DEF Known, Empty
<1>4. /\ IsFiniteSet(Known) /\ Cardinality(Known) \in Nat /\ Cardinality(All) \in Nat
      /\ forced \in Nat
      /\ IsFiniteSet(Creators) /\ Cardinality(Creators) \in Nat
    BY KnownFinite, CreatorsFinite DEF CountInv, TInv, TypeOK
<1>5. /\ IsFiniteSet(Known \cup {key[p]})
      /\ Cardinality(Known \cup {key[p]}) <= Cardinality(Known) + 1
    <2>1. /\ IsFiniteSet(Known \cup {key[p]})
          /\ Cardinality(Known \cup {key[p]}) =
               IF key[p] \in Known THEN Cardinality(Known) ELSE Cardinality(Known) + 1
        BY <1>4, FS_AddElement
    <2> QED
        BY <1>4, <2>1
<1>6. /\ IsFiniteSet(Known') /\ Cardinality(Known') <= Cardinality(Known \cup {key[p]})
      /\ Cardinality(Known') \in Nat /\ Cardinality(Known \cup {key[p]}) \in Nat
    BY <1>3, <1>5, FS_Subset, FS_CardinalityType
<1>7. Cardinality(Creators') = Cardinality(Creators) - 1
    BY <1>2, <1>4, FS_RemoveElement
<1>8. IsFiniteSet(used')
    <2>1. used' \subseteq Known'
        BY DEF Known
    <2> QED
        BY <1>6, <2>1, FS_Subset
<1>9. file' # Absent
    BY <1>1 DEF Absent
<1> QED
    BY <1>1, <1>4, <1>5, <1>6, <1>7, <1>8, <1>9 DEF CountInv

LEMMA CountStep ==
    ASSUME TInv, CountInv, [Next]_vars
    PROVE  CountInv'
<1>0. TInv'
    BY TypedStep
<1>1. ASSUME NEW p \in Procs, Start(p) PROVE CountInv'
    <2>1. CASE ToLoad(p)
        <3>1. UNCHANGED <<used, file, forced>> /\ Known' = Known /\ Creators' \subseteq Creators
            BY <2>1 DEF ToLoad, Known, Creators, Creating, TInv, TypeOK
        <3> QED
            BY <1>0, <3>1, CountFewer DEF CountInv
    <2>2. CASE ToCreate(p) /\ file = Absent /\ UNCHANGED forced
        BY <1>0, <1>1, <2>2, CountCreate DEF Start, All
    <2> QED
        BY <1>1, <2>1, <2>2 DEF Start
<1>2. ASSUME NEW p \in Keygens, Keygen(p) PROVE CountInv'
    BY <1>0, <1>2, CountCreate DEF Keygen, All
<1>3. ASSUME NEW p \in All, Open(p) PROVE CountInv'
    <2>1. /\ UNCHANGED <<used, forced>> /\ Known' \subseteq Known
          /\ Creators' \subseteq Creators /\ file' # Absent
        BY <1>3 DEF Open, Known, Creators, Creating, TInv, TypeOK, Empty, Absent
    <2> QED
        BY <1>0, <2>1, CountFewer DEF CountInv
<1>4. ASSUME NEW p \in Procs, Load(p) PROVE CountInv'
    <2>1. /\ UNCHANGED <<file, forced>> /\ Creators' \subseteq Creators
        BY <1>4 DEF Load, Creators, Creating, TInv, TypeOK
    <2>2. Known' \subseteq Known /\ used' \subseteq Known /\ file # Absent
        BY <1>4, <2>1 DEF Load, Known, Empty, Absent
    <2>3. IsFiniteSet(used')
        BY <2>2, KnownFinite, FS_Subset DEF CountInv
    <2> QED
        BY <1>0, <2>1, <2>2, <2>3, CountFewer
<1>5. ASSUME NEW p \in All, Crash(p) PROVE CountInv'
    <2>1. /\ UNCHANGED <<used, file, forced>> /\ Known' = Known /\ Creators' \subseteq Creators
        BY <1>5 DEF Crash, Known, Creators, Creating, TInv, TypeOK
    <2> QED
        BY <1>0, <2>1, CountFewer DEF CountInv
<1>6. CASE UNCHANGED vars
    <2>1. /\ UNCHANGED <<used, file, forced>> /\ Known' = Known /\ Creators' = Creators
        BY <1>6 DEF vars, Known, Creators, Creating
    <2> QED
        BY <1>0, <2>1, CountFewer DEF CountInv
<1> QED
    BY <1>0, <1>1, <1>2, <1>3, <1>4, <1>5, <1>6, CountWrite DEF Next, Save

\* However many processes race for the volume, die and are started again, nodes
\* run with no more keys than there are processes and forced replacements.
THEOREM FewIdentities == Spec => []IdentitiesBounded
<1>1. Init => CountInv
    <2> SUFFICES ASSUME Init PROVE CountInv
        OBVIOUS
    <2>1. used = {} /\ Known = {} /\ Creators = {} /\ forced = 0
        BY DEF Init, Known, Creators, Creating, Absent, Empty
    <2> QED
        BY <2>1, FS_EmptySet, CreatorsFinite DEF CountInv
<1>2. TInv /\ CountInv /\ [Next]_vars => CountInv'
    BY CountStep
<1>3. TInv /\ CountInv => IdentitiesBounded
    <2> SUFFICES ASSUME TInv, CountInv PROVE IdentitiesBounded
        OBVIOUS
    <2>1. /\ Cardinality(used) \in Nat /\ Cardinality(Known) \in Nat
          /\ Cardinality(used) <= Cardinality(Known)
        BY KnownFinite DEF CountInv
    <2> QED
        BY <2>1, CreatorsFinite DEF CountInv, IdentitiesBounded, TInv, TypeOK
<1> QED
    BY TypedStart, TypedStep, <1>1, <1>2, <1>3, PTL DEF Spec
=============================================================================
