---------------------------- MODULE MemDBProofs -----------------------------
(***************************************************************************)
(* Theorems about MemDB, for any identities, devices, keys and bounds.     *)
(***************************************************************************)
EXTENDS MemDB, TLAPS, FiniteSetTheorems

\* What an action does to the variables is in these definitions.
USE DEF vars, keyVars, numberVars

-----------------------------------------------------------------------------
(***************************************************************************)
(* Type correctness.  An identity in the map has a device: this is what    *)
(* keeps ErrUnknownIdentity right.                                         *)
(***************************************************************************)

MapInv ==
  /\ TypeOK
  /\ \A i \in DOMAIN identities : DOMAIN identities[i] # {}

\* The keys of one Register, and those on file with them.
LEMMA UploadTyped ==
  ASSUME NEW n \in Nat, uploaded \in Nat, uploaded + n <= MaxKeys
  PROVE  /\ NewKeys(n) \in Seq(Keys)
         /\ Len(NewKeys(n)) = n
         /\ \A j \in 1..n : NewKeys(n)[j] = uploaded + j
  BY MemDBConstants DEF NewKeys, Keys

\* What is on file after Register is a registration.
LEMMA RegistrationTyped ==
  ASSUME NEW n \in Nat, uploaded \in Nat, uploaded + n <= MaxKeys,
         NEW spk \in SignedPreKeys, NEW existing \in Registrations \cup {None}
  PROVE  Registration(existing, spk, n) \in Registrations
<1> DEFINE new == NewKeys(n)
<1>1. new \in Seq(Keys)
  BY UploadTyped
<1>2. CASE existing # None /\ existing.signed = spk
  <2>1. existing \in Registrations
    BY <1>2
  <2>2. existing.keys \o new \in Seq(Keys)
    BY <1>1, <2>1 DEF Registrations
  <2> HIDE DEF new
  <2>3. [existing EXCEPT !.keys = existing.keys \o new] \in Registrations
    BY <2>1, <2>2, Zenon DEF Registrations
  <2> QED BY <1>2, <2>3 DEF new, Registration
<1>3. CASE ~(existing # None /\ existing.signed = spk)
  <2> HIDE DEF new
  <2>1. [signed |-> spk, keys |-> new] \in Registrations
    BY <1>1 DEF Registrations
  <2> QED BY <1>3, <2>1 DEF new, Registration
<1> QED BY <1>2, <1>3

\* A registration without its last key is one.
LEMMA PoppedTyped ==
  ASSUME NEW registration \in Registrations
  PROVE  Popped(registration) \in Registrations
<1>1. registration.keys \in Seq(Keys)
  BY DEF Registrations
<1>2. CASE registration.keys # <<>>
  <2>1. Front(registration.keys) \in Seq(Keys)
    BY <1>1, <1>2 DEF Front
  <2> QED BY <1>2, <2>1 DEF Popped, Registrations
<1> QED BY <1>2 DEF Popped

\* The maps inside the map, after an entry for an identity was put or deleted.
MapOK(m) ==
  /\ DOMAIN m \subseteq Identities
  /\ \A i \in DOMAIN m :
       /\ DOMAIN m[i] \subseteq DeviceIds
       /\ DOMAIN m[i] # {}
       /\ m[i] \in [DOMAIN m[i] -> Registrations]

\* Putting a map of devices that is not empty keeps the types.
LEMMA PutOK ==
  ASSUME MapOK(identities), NEW i \in Identities, NEW D \in SUBSET DeviceIds, D # {},
         NEW f \in [D -> Registrations], identities' = Put(identities, i, f)
  PROVE  MapOK(identities')
  BY DEF MapOK, Put

\* Every step keeps the types, and leaves no identity without a device.
LEMMA MapStep == MapInv /\ [Next]_vars => MapInv'
<1> SUFFICES ASSUME MapInv, [Next]_vars PROVE MapInv'
  OBVIOUS
<1> USE MemDBConstants
<1>0. /\ MapOK(identities) /\ uploaded \in 0..MaxKeys /\ handed \in [Keys -> Nat]
      /\ DOMAIN identityKeyToNumber \subseteq Identities
      /\ DOMAIN numberToIdentityKey \subseteq Numbers
  BY DEF MapInv, TypeOK, MapOK
<1>1. ASSUME MapOK(identities'), uploaded' \in 0..MaxKeys, handed' \in [Keys -> Nat],
             UNCHANGED numberVars
      PROVE  MapInv'
  BY <1>0, <1>1 DEF MapInv, TypeOK, MapOK
<1>2. ASSUME NEW i \in Identities, NEW d \in DeviceIds, NEW spk \in SignedPreKeys,
             NEW n \in 0..MaxUpload, Register(i, d, spk, n)
      PROVE  MapInv'
  <2> DEFINE identity == IF i \in DOMAIN identities THEN identities[i] ELSE NewMap
             existing == IF d \in DOMAIN identity THEN identity[d] ELSE None
             reg == Registration(existing, spk, n)
             D == DOMAIN identity \cup {d}
  <2>1. /\ uploaded \in Nat /\ n \in Nat /\ uploaded + n <= MaxKeys
        /\ uploaded' = uploaded + n /\ UNCHANGED <<handed, numberVars>>
        /\ identities' = Put(identities, i, Put(identity, d, reg))
    BY <1>0, <1>2 DEF Register
  <2>2. /\ DOMAIN identity \subseteq DeviceIds
        /\ \A e \in DOMAIN identity : identity[e] \in Registrations
    BY <1>0 DEF MapOK, NewMap
  <2> HIDE DEF identity
  <2>3. existing \in Registrations \cup {None}
    BY <2>2
  <2> HIDE DEF existing
  <2>4. reg \in Registrations
    BY <2>1, <2>3, RegistrationTyped
  <2> HIDE DEF reg
  <2>5. Put(identity, d, reg) \in [D -> Registrations]
    BY <2>2, <2>4 DEF Put
  <2>6. D \in SUBSET DeviceIds /\ D # {}
    BY <2>2
  <2>7. MapOK(identities')
    <3> HIDE DEF D
    <3> QED BY <1>0, <2>1, <2>5, <2>6, PutOK
  <2>8. uploaded' \in 0..MaxKeys
    BY <2>1
  <2> QED BY <1>0, <1>1, <2>1, <2>7, <2>8
<1>3. ASSUME NEW i \in Identities, NEW d \in DeviceIds, Unregister(i, d)
      PROVE  MapInv'
  <2>1. UNCHANGED <<uploaded, handed, numberVars>>
    BY <1>3 DEF Unregister
  <2>2. MapOK(identities')
    <3>1. CASE i \notin DOMAIN identities
      BY <1>0, <1>3, <3>1 DEF Unregister
    <3>2. CASE i \in DOMAIN identities /\ DOMAIN identities[i] \ {d} = {}
      BY <1>0, <1>3, <3>2 DEF Unregister, Delete, MapOK
    <3>3. CASE i \in DOMAIN identities /\ DOMAIN identities[i] \ {d} # {}
      <4> DEFINE D == DOMAIN identities[i] \ {d}
      <4>1. D \in SUBSET DeviceIds /\ Delete(identities[i], d) \in [D -> Registrations]
        BY <1>0, <3>3 DEF MapOK, Delete
      <4>2. identities' = Put(identities, i, Delete(identities[i], d))
        BY <1>3, <3>3 DEF Unregister
      <4> QED BY <1>0, <3>3, <4>1, <4>2, PutOK, SMTT(20)
    <3> QED BY <3>1, <3>2, <3>3
  <2> QED BY <1>0, <1>1, <2>1, <2>2
<1>4. ASSUME NEW i \in Identities, NEW known \in SUBSET DeviceIds,
             RequestPreKeys(i, known)
      PROVE  MapInv'
  <2> DEFINE popped == [d \in DOMAIN identities[i] |->
               IF d \in known THEN identities[i][d] ELSE Popped(identities[i][d])]
  <2>1. /\ i \in DOMAIN identities
        /\ identities' = [identities EXCEPT ![i] = popped]
        /\ handed' = [k \in Keys |-> handed[k] + (IF k \in Handed(i, known) THEN 1 ELSE 0)]
        /\ UNCHANGED <<uploaded, numberVars>>
    BY <1>4 DEF RequestPreKeys
  <2>2. \A d \in DOMAIN identities[i] : identities[i][d] \in Registrations
    BY <1>0, <2>1 DEF MapOK
  <2>3. popped \in [DOMAIN identities[i] -> Registrations]
    BY <2>2, PoppedTyped
  <2> HIDE DEF popped
  <2>4. MapOK(identities')
    BY <1>0, <2>1, <2>3 DEF MapOK
  <2>5. handed' \in [Keys -> Nat]
    BY <1>0, <2>1
  <2> QED BY <1>0, <1>1, <2>1, <2>4, <2>5
<1>5. ASSUME NEW i \in Identities, NEW n \in 0..TailLen, RegisterChatNumber(i, n)
      PROVE  MapInv'
  <2>1. newNumber(i, n) \in Numbers
    BY DEF Numbers
  <2>2. /\ DOMAIN identityKeyToNumber' \subseteq Identities
        /\ DOMAIN numberToIdentityKey' \subseteq Numbers
        /\ UNCHANGED keyVars
    BY <1>0, <1>5, <2>1 DEF RegisterChatNumber, Put
  <2> QED BY <2>2 DEF MapInv, TypeOK
<1>6. CASE UNCHANGED vars
  BY <1>6 DEF MapInv, TypeOK
<1> QED BY <1>2, <1>3, <1>4, <1>5, <1>6 DEF Next

\* The maps in every reachable state.
LEMMA MapsHold == Spec => []MapInv
<1>1. New => MapInv
  BY MemDBConstants DEF New, MapInv, TypeOK, NewMap
<1>2. MapInv /\ [Next]_vars => MapInv'
  BY MapStep
<1> QED BY <1>1, <1>2, PTL DEF Spec

\* The maps hold what the operations put into them.
THEOREM TypeCorrect == Spec => []TypeOK
<1>1. MapInv => TypeOK
  BY DEF MapInv
<1> QED BY <1>1, MapsHold, PTL

\* PreKeysRemaining, RequestPreKeys and AllRegisteredDevices agree on what is
\* registered, whatever devices are unregistered, in any order.
THEOREM UnknownIdentities == Spec => []UnknownHasNoDevice
<1>1. MapInv => UnknownHasNoDevice
  <2> SUFFICES ASSUME MapInv, NEW i \in Identities, NEW d \in DeviceIds,
                      NEW listed,
                      listed = {e \in DeviceIds : <<i, e>> \in AllRegisteredDevices}
               PROVE  /\ PreKeysRemaining(i, d)[2] = "nil" <=> d \in listed
                      /\ PreKeysRemaining(i, d)[2] = "ErrUnknownIdentity" <=> listed = {}
    BY Zenon DEF UnknownHasNoDevice
  <2>1. \A e \in DeviceIds : e \in listed <=> Registered(i, e)
    BY DEF AllRegisteredDevices, Registered
  <2>2. listed = {} <=> i \notin DOMAIN identities
    BY <2>1, Zenon DEF MapInv, TypeOK, Registered
  <2>3. CASE i \notin DOMAIN identities
    BY <2>1, <2>2, <2>3 DEF PreKeysRemaining, Registered
  <2>4. CASE i \in DOMAIN identities
    BY <2>1, <2>2, <2>4 DEF PreKeysRemaining, Registered
  <2> QED BY <2>3, <2>4
<1> QED BY <1>1, MapsHold, PTL

-----------------------------------------------------------------------------
(***************************************************************************)
(* Refinement of KeyDirectory.                                             *)
(***************************************************************************)

\* A device's entry is a registration, and none is nil.
LEMMA EntryTyped ==
  ASSUME MapInv
  PROVE  /\ registrations = [a \in Addresses |-> registrations[a]]
         /\ \A a \in Addresses :
              /\ a = <<a[1], a[2]>> /\ a[1] \in Identities /\ a[2] \in DeviceIds
              /\ Registered(a[1], a[2]) =>
                   /\ registrations[a] = identities[a[1]][a[2]]
                   /\ registrations[a] \in Registrations
                   /\ registrations[a] # None
              /\ ~Registered(a[1], a[2]) => registrations[a] = None
<1>1. registrations = [a \in Addresses |-> registrations[a]]
  BY DEF registrations
<1>2. ASSUME NEW a \in Addresses
      PROVE  a = <<a[1], a[2]>> /\ a[1] \in Identities /\ a[2] \in DeviceIds
  BY DEF Addresses
<1>3. ASSUME NEW a \in Addresses, Registered(a[1], a[2])
      PROVE  /\ registrations[a] = identities[a[1]][a[2]]
             /\ registrations[a] \in Registrations
  BY <1>3 DEF registrations, Registered, MapInv, TypeOK
<1>4. None \notin Registrations
  BY MemDBConstants DEF Registrations, Keys
<1>5. ASSUME NEW a \in Addresses, ~Registered(a[1], a[2])
      PROVE  registrations[a] = None
  BY <1>5 DEF registrations
<1> QED BY <1>1, <1>2, <1>3, <1>4, <1>5

\* A registration with other keys.
LEMMA OtherKeys ==
  ASSUME NEW reg \in Registrations, NEW keys
  PROVE  [reg EXCEPT !.keys = keys] = [signed |-> reg.signed, keys |-> keys]
<1>1. ASSUME NEW a, NEW b
      PROVE  [[signed |-> a, keys |-> b] EXCEPT !.keys = keys]
               = [signed |-> a, keys |-> keys]
  OBVIOUS
<1>2. reg = [signed |-> reg.signed, keys |-> reg.keys]
  BY DEF Registrations
<1> QED BY <1>1, <1>2

\* Register is a Register of the directory.
LEMMA RegisterRefines ==
  ASSUME MapInv, MapInv', NEW i \in Identities, NEW d \in DeviceIds,
         NEW spk \in SignedPreKeys, NEW n \in 0..MaxUpload, Register(i, d, spk, n)
  PROVE  Directory!DirRegister(<<i, d>>, spk, n)
<1> DEFINE identity == IF i \in DOMAIN identities THEN identities[i] ELSE NewMap
           existing == IF d \in DOMAIN identity THEN identity[d] ELSE None
           reg == Registration(existing, spk, n)
           b == <<i, d>>
           new == NewKeys(n)
<1>1. /\ uploaded + n <= MaxKeys /\ uploaded' = uploaded + n /\ UNCHANGED handed
      /\ identities' = Put(identities, i, Put(identity, d, reg))
  BY DEF Register
<1>2. b \in Addresses
  BY DEF Addresses
<1>3. existing = registrations[b]
  <2>1. Registered(i, d) <=> d \in DOMAIN identity
    BY DEF Registered, NewMap
  <2> QED BY <1>2, <2>1 DEF registrations, Registered, NewMap
<1>4. reg = IF registrations[b] # None /\ registrations[b].signed = spk
            THEN [signed |-> spk, keys |-> registrations[b].keys \o new]
            ELSE [signed |-> spk, keys |-> new]
  <2>1. CASE existing # None /\ existing.signed = spk
    <3>1. existing \in Registrations
      BY <1>2, <1>3, <2>1, EntryTyped
    <3>2. reg = [existing EXCEPT !.keys = existing.keys \o new]
      BY <2>1 DEF Registration
    <3> HIDE DEF existing, new, reg
    <3>3. reg = [signed |-> existing.signed, keys |-> existing.keys \o new]
      BY <3>1, <3>2, OtherKeys, SMTT(20)
    <3> QED BY <1>3, <2>1, <3>3
  <2>2. CASE ~(existing # None /\ existing.signed = spk)
    BY <1>3, <2>2 DEF Registration
  <2> QED BY <2>1, <2>2, Zenon
<1> HIDE DEF reg, existing
<1>5. /\ i \in DOMAIN identities' /\ d \in DOMAIN identities'[i]
      /\ identities'[i][d] = reg
  BY <1>1 DEF Put
<1>6. registrations'[b] = reg
  BY <1>2, <1>5 DEF registrations, Registered
<1>7. ASSUME NEW a \in Addresses, a # b PROVE registrations'[a] = registrations[a]
  <2>1. a = <<a[1], a[2]>> /\ (a[1] # i \/ a[2] # d)
    BY <1>7, EntryTyped
  <2>2. CASE a[1] # i
    <3>1. /\ a[1] \in DOMAIN identities' <=> a[1] \in DOMAIN identities
          /\ a[1] \in DOMAIN identities => identities'[a[1]] = identities[a[1]]
      BY <1>1, <2>2 DEF Put
    <3> QED BY <3>1 DEF registrations, Registered
  <2>3. CASE a[1] = i /\ a[2] # d
    <3>1. /\ i \in DOMAIN identities'
          /\ a[2] \in DOMAIN identities'[i] <=> a[2] \in DOMAIN identity
          /\ a[2] \in DOMAIN identity => identities'[i][a[2]] = identity[a[2]]
      <4> HIDE DEF identity
      <4> QED BY <1>1, <2>3 DEF Put
    <3>2. a[2] \in DOMAIN identity <=> Registered(i, a[2])
      BY DEF NewMap, Registered
    <3>3. Registered(i, a[2]) => identity = identities[i]
      BY DEF Registered
    <3> HIDE DEF identity
    <3> QED BY <2>3, <3>1, <3>2, <3>3 DEF registrations, Registered
  <2> QED BY <2>1, <2>2, <2>3
<1>8. registrations' = [registrations EXCEPT ![b] = reg]
  <2>1. /\ registrations = [a \in Addresses |-> registrations[a]]
        /\ registrations' = [a \in Addresses |-> registrations'[a]]
    BY EntryTyped DEF registrations
  <2> HIDE DEF b
  <2> QED BY <1>2, <1>6, <1>7, <2>1
<1>9. Directory!NewKeys(n) = new
  BY DEF Directory!NewKeys, NewKeys
<1> QED BY <1>1, <1>4, <1>8, <1>9 DEF Directory!DirRegister

\* Unregister is an Unregister of the directory.
LEMMA UnregisterRefines ==
  ASSUME MapInv, NEW i \in Identities, NEW d \in DeviceIds, Unregister(i, d)
  PROVE  Directory!DirUnregister(<<i, d>>)
<1> DEFINE b == <<i, d>>
<1>1. UNCHANGED <<uploaded, handed>>
  BY DEF Unregister
<1>2. b \in Addresses
  BY DEF Addresses
<1>3. ASSUME NEW e \in DeviceIds
      PROVE  /\ Registered(i, e)' <=> Registered(i, e) /\ e # d
             /\ Registered(i, e)' => identities'[i][e] = identities[i][e]
  <2>1. CASE i \notin DOMAIN identities
    BY <2>1 DEF Unregister, Registered
  <2>2. CASE i \in DOMAIN identities /\ DOMAIN identities[i] \ {d} = {}
    BY <2>2 DEF Unregister, Registered, Delete
  <2>3. CASE i \in DOMAIN identities /\ DOMAIN identities[i] \ {d} # {}
    <3>1. /\ i \in DOMAIN identities' /\ identities'[i] = Delete(identities[i], d)
      BY <2>3 DEF Unregister, Put
    <3> QED BY <2>3, <3>1 DEF Registered, Delete
  <2> QED BY <2>1, <2>2, <2>3
<1>4. ASSUME NEW j \in Identities, j # i
      PROVE  /\ j \in DOMAIN identities' <=> j \in DOMAIN identities
             /\ j \in DOMAIN identities => identities'[j] = identities[j]
  BY <1>4 DEF Unregister, Put, Delete
<1>5. ASSUME NEW a \in Addresses
      PROVE  registrations'[a] = IF a = b THEN None ELSE registrations[a]
  <2>1. a = <<a[1], a[2]>> /\ a[1] \in Identities /\ a[2] \in DeviceIds
    BY EntryTyped
  <2>2. CASE a[1] # i
    BY <1>4, <2>1, <2>2 DEF registrations, Registered
  <2>3. CASE a[1] = i
    <3>1. registrations'[a] = IF Registered(i, a[2])' THEN identities'[i][a[2]] ELSE None
      BY <2>3 DEF registrations
    <3>2. registrations[a] = IF Registered(i, a[2]) THEN identities[i][a[2]] ELSE None
      BY <2>3 DEF registrations
    <3>3. a = b <=> a[2] = d
      BY <2>1, <2>3
    <3> QED BY <1>3, <2>1, <3>1, <3>2, <3>3
  <2> QED BY <2>2, <2>3
<1>6. registrations' = [registrations EXCEPT ![b] = None]
  <2>1. /\ registrations = [a \in Addresses |-> registrations[a]]
        /\ registrations' = [a \in Addresses |-> registrations'[a]]
    BY DEF registrations
  <2> HIDE DEF b
  <2> QED BY <1>2, <1>5, <2>1
<1> QED BY <1>1, <1>6 DEF Directory!DirUnregister

\* RequestPreKeys is a Take from the devices that were asked for.
LEMMA RequestRefines ==
  ASSUME MapInv, NEW i \in Identities, NEW known \in SUBSET DeviceIds,
         RequestPreKeys(i, known)
  PROVE  \E D \in SUBSET Addresses : Directory!DirTake(D)
<1> DEFINE D == {<<i, e>> : e \in Asked(i, known)}
           having == {a \in D : registrations[a].keys # <<>>}
           last(a) == registrations[a].keys[Len(registrations[a].keys)]
           take(a) == [registrations[a] EXCEPT !.keys = SubSeq(@, 1, Len(@) - 1)]
           popped == [e \in DOMAIN identities[i] |->
             IF e \in known THEN identities[i][e] ELSE Popped(identities[i][e])]
<1>1. /\ i \in DOMAIN identities
      /\ identities' = [identities EXCEPT ![i] = popped]
      /\ handed' = [k \in Keys |-> handed[k] + (IF k \in Handed(i, known) THEN 1 ELSE 0)]
      /\ UNCHANGED uploaded
  BY DEF RequestPreKeys
<1>2. DOMAIN identities[i] \subseteq DeviceIds
  BY <1>1 DEF MapInv, TypeOK
<1>3. D \subseteq Addresses
  BY <1>2 DEF Asked, Addresses
<1>4. ASSUME NEW e \in DOMAIN identities[i]
      PROVE  /\ <<i, e>> \in Addresses
             /\ registrations[<<i, e>>] = identities[i][e]
             /\ registrations[<<i, e>>] # None
  <2>1. <<i, e>> \in Addresses /\ <<i, e>>[1] = i /\ <<i, e>>[2] = e
    BY <1>2 DEF Addresses
  <2>2. Registered(i, e)
    BY <1>1 DEF Registered
  <2> QED BY <2>1, <2>2, EntryTyped
<1>5. \A a \in D : registrations[a] # None
  BY <1>4 DEF Asked
<1>6. ASSUME NEW a \in Addresses
      PROVE  registrations'[a] = IF a \notin having THEN registrations[a] ELSE take(a)
  <2>1. a = <<a[1], a[2]>> /\ a[1] \in Identities /\ a[2] \in DeviceIds
    BY EntryTyped
  <2>2. DOMAIN identities' = DOMAIN identities /\ identities'[i] = popped
    BY <1>1
  <2>3. \A j \in DOMAIN identities : j # i => identities'[j] = identities[j]
    BY <1>1
  <2> HIDE DEF take, popped
  <2>4. CASE a[1] # i
    <3>1. a \notin having
      BY <2>1, <2>4
    <3>2. registrations'[a] = registrations[a]
      BY <2>2, <2>3, <2>4 DEF registrations, Registered
    <3> QED BY <3>1, <3>2
  <2>5. CASE a[1] = i /\ a[2] \notin DOMAIN identities[i]
    <3>1. a \notin having
      BY <2>1, <2>5 DEF Asked
    <3>2. DOMAIN popped = DOMAIN identities[i]
      BY DEF popped
    <3>3. registrations'[a] = registrations[a]
      BY <2>2, <2>5, <3>2 DEF registrations, Registered
    <3> QED BY <3>1, <3>3
  <2>6. CASE a[1] = i /\ a[2] \in DOMAIN identities[i]
    <3>1. a = <<i, a[2]>> /\ registrations[a] = identities[i][a[2]]
      BY <1>4, <2>1, <2>6
    <3>2. registrations'[a] = popped[a[2]]
      <4>1. a[2] \in DOMAIN identities'[i]
        BY <2>2, <2>6 DEF popped
      <4> QED BY <1>1, <2>2, <2>6, <4>1 DEF registrations, Registered
    <3>3. a \in D <=> a[2] \notin known
      BY <2>6, <3>1 DEF Asked
    <3>4. popped[a[2]] = IF a[2] \in known THEN registrations[a] ELSE Popped(registrations[a])
      BY <2>6, <3>1 DEF popped
    <3>5. Popped(registrations[a]) =
            IF registrations[a].keys = <<>> THEN registrations[a] ELSE take(a)
      BY DEF Popped, Front, take
    <3> HIDE DEF D
    <3> QED BY <3>2, <3>3, <3>4, <3>5
  <2> QED BY <2>4, <2>5, <2>6
<1>7. registrations' = [a \in Addresses |->
        IF a \notin having THEN registrations[a] ELSE take(a)]
  <2>1. registrations' = [a \in Addresses |-> registrations'[a]]
    BY DEF registrations
  <2> HIDE DEF having, take
  <2> QED BY <1>6, <2>1
<1>8. ASSUME NEW k
      PROVE  k \in Handed(i, known) <=> \E a \in having : last(a) = k
  <2>1. ASSUME NEW e \in Asked(i, known)
        PROVE  /\ <<i, e>> \in having <=> identities[i][e].keys # <<>>
               /\ last(<<i, e>>) = Last(identities[i][e].keys)
    <3>1. registrations[<<i, e>>] = identities[i][e]
      BY <1>4 DEF Asked
    <3> QED BY <3>1 DEF Last
  <2>2. ASSUME k \in Handed(i, known) PROVE \E a \in having : last(a) = k
    <3>1. PICK e \in Asked(i, known) :
            identities[i][e].keys # <<>> /\ Last(identities[i][e].keys) = k
      BY <2>2 DEF Handed
    <3> HIDE DEF having, last
    <3> QED BY <2>1, <3>1, Zenon
  <2>3. ASSUME NEW a \in having, last(a) = k PROVE k \in Handed(i, known)
    <3>1. PICK e \in Asked(i, known) : a = <<i, e>>
      OBVIOUS
    <3>2. identities[i][e].keys # <<>> /\ Last(identities[i][e].keys) = k
      <4> HIDE DEF having, last
      <4> QED BY <2>1, <2>3, <3>1
    <3> QED BY <3>2 DEF Handed
  <2> QED BY <2>2, <2>3
<1>9. handed' = [k \in 1..MaxKeys |->
        handed[k] + (IF \E a \in having : last(a) = k THEN 1 ELSE 0)]
  <2> HIDE DEF having, last
  <2> QED BY <1>1, <1>8 DEF Keys
<1>10. Directory!DirTake(D)
  BY <1>1, <1>5, <1>7, <1>9 DEF Directory!DirTake
<1> QED BY <1>3, <1>10

\* A step of memdb is a step of the directory, or changes nothing there.
LEMMA StepRefines ==
  ASSUME MapInv, MapInv', [Next]_vars
  PROVE  Directory!DirNext \/ UNCHANGED <<registrations, uploaded, handed>>
<1>1. ASSUME NEW i \in Identities, NEW d \in DeviceIds, NEW spk \in SignedPreKeys,
             NEW n \in 0..MaxUpload, Register(i, d, spk, n)
      PROVE  Directory!DirNext
  <2>1. <<i, d>> \in Addresses
    BY DEF Addresses
  <2> QED BY <1>1, <2>1, RegisterRefines DEF Directory!DirNext
<1>2. ASSUME NEW i \in Identities, NEW d \in DeviceIds, Unregister(i, d)
      PROVE  Directory!DirNext
  <2>1. <<i, d>> \in Addresses
    BY DEF Addresses
  <2> QED BY <1>2, <2>1, UnregisterRefines DEF Directory!DirNext
<1>3. ASSUME NEW i \in Identities, NEW known \in SUBSET DeviceIds,
             RequestPreKeys(i, known)
      PROVE  Directory!DirNext
  BY <1>3, RequestRefines DEF Directory!DirNext
<1>4. CASE UNCHANGED keyVars
  BY <1>4 DEF registrations, Registered
<1> QED BY <1>1, <1>2, <1>3, <1>4 DEF Next, RegisterChatNumber

\* memdb keeps what db.DB promises about keys: keys on file are added to or
\* replaced as a whole, and handed out one per device, the last one first.
THEOREM DirectoryImplemented == Spec => ImplementsDirectory
<1>1. New => Directory!DirInit
  BY DEF New, Directory!DirInit, registrations, Registered, NewMap, Keys
<1>2. MapInv /\ MapInv' /\ [Next]_vars =>
        [Directory!DirNext]_(<<registrations, uploaded, handed>>)
  BY StepRefines
<1> QED
  BY <1>1, <1>2, MapsHold, PTL
     DEF Spec, ImplementsDirectory, Directory!DirSpec, Directory!dirVars

-----------------------------------------------------------------------------
(***************************************************************************)
(* The life of a one-time pre key, of which the directory says enough.     *)
(* HandedOutOnce is not inductive: it rests on where keys that are not     *)
(* handed out yet are, and on those not uploaded yet being nowhere.        *)
(***************************************************************************)

\* The keys of a device that can still be handed out.
List(a) == IF registrations[a] = None THEN <<>> ELSE registrations[a].keys

\* They have been uploaded and not handed out.
ListInv ==
  \A a \in Addresses : \A j \in 1..Len(List(a)) :
    List(a)[j] <= uploaded /\ handed[List(a)[j]] = 0

\* None of them is a key of another device, or is there twice.
OnceListed ==
  \A a, b \in Addresses : \A j \in 1..Len(List(a)), l \in 1..Len(List(b)) :
    List(a)[j] = List(b)[l] => a = b /\ j = l

\* A key is handed out once, after it was uploaded.
HandedInv ==
  \A k \in Keys : handed[k] <= 1 /\ (uploaded < k => handed[k] = 0)

KeyInv == ListInv /\ OnceListed /\ HandedInv

\* The keys of a device are a sequence of keys.
LEMMA ListTyped ==
  ASSUME MapInv
  PROVE  \A a \in Addresses :
           /\ List(a) \in Seq(Keys) /\ Len(List(a)) \in Nat
           /\ \A j \in 1..Len(List(a)) : List(a)[j] \in Keys /\ List(a)[j] \in Nat
<1>1. ASSUME NEW a \in Addresses PROVE List(a) \in Seq(Keys)
  <2>1. registrations[a] = None \/ registrations[a] \in Registrations
    BY EntryTyped
  <2> QED BY <2>1 DEF List, Registrations
<1>2. \A k \in Keys : k \in Nat
  BY DEF Keys
<1> QED BY <1>1, <1>2

\* Register in the directory: the keys of b become those that stay and then
\* the new ones.
LEMMA RegisterLists ==
  ASSUME MapInv, NEW b \in Addresses, NEW spk \in SignedPreKeys,
         NEW n \in 0..MaxUpload, Directory!DirRegister(b, spk, n)
  PROVE  \E m \in Nat :
           /\ m = 0 \/ m = Len(List(b))
           /\ Len(List(b)') = m + n
           /\ \A j \in 1..m : j \in 1..Len(List(b)) /\ List(b)'[j] = List(b)[j]
           /\ \A j \in 1..n : List(b)'[m + j] = uploaded + j
           /\ \A a \in Addresses : a # b => List(a)' = List(a)
<1> DEFINE new == NewKeys(n)
           keep == registrations[b] # None /\ registrations[b].signed = spk
           base == IF keep THEN registrations[b].keys ELSE <<>>
           reg == IF keep THEN [signed |-> spk, keys |-> registrations[b].keys \o new]
                  ELSE [signed |-> spk, keys |-> new]
<1>1. uploaded \in Nat /\ n \in Nat /\ uploaded + n <= MaxKeys
  BY MemDBConstants DEF MapInv, TypeOK, Directory!DirRegister
<1>2. /\ new \in Seq(Keys) /\ Len(new) = n
      /\ \A j \in 1..n : new[j] = uploaded + j
  BY <1>1, UploadTyped
<1>3. Directory!NewKeys(n) = new
  BY DEF Directory!NewKeys, NewKeys
<1>4. registrations' = [registrations EXCEPT ![b] = reg]
  BY <1>3 DEF Directory!DirRegister
<1> HIDE DEF new
<1>5. base \in Seq(Keys) /\ Len(base) \in Nat /\ (base = List(b) \/ base = <<>>)
  BY ListTyped DEF List
<1>6. reg.keys = base \o new /\ reg \in Registrations
  <2>1. <<>> \o new = new
    BY <1>2
  <2>2. reg = [signed |-> spk, keys |-> base \o new]
    BY <2>1, Zenon
  <2>3. base \o new \in Seq(Keys)
    BY <1>2, <1>5
  <2> HIDE DEF reg, base
  <2> QED BY <2>2, <2>3 DEF Registrations
<1>7. registrations'[b] = reg /\ \A a \in Addresses : a # b => registrations'[a] = registrations[a]
  <2> HIDE DEF reg
  <2> QED BY <1>4, EntryTyped
<1>8. reg # None
  BY <1>6, MemDBConstants, Zenon DEF Registrations, Keys
<1> HIDE DEF reg, base
<1>9. List(b)' = base \o new /\ \A a \in Addresses : a # b => List(a)' = List(a)
  BY <1>6, <1>7, <1>8 DEF List
<1>10. /\ Len(base \o new) = Len(base) + n
       /\ \A j \in 1..Len(base) : (base \o new)[j] = base[j]
       /\ \A j \in 1..n : (base \o new)[Len(base) + j] = uploaded + j
  <2>1. /\ Len(base \o new) = Len(base) + Len(new)
        /\ \A j \in 1..Len(base) : (base \o new)[j] = base[j]
        /\ \A j \in 1..Len(new) : (base \o new)[Len(base) + j] = new[j]
    BY ONLY <1>2, <1>5
  <2> QED BY <1>2, <2>1
<1>11. \A j \in 1..Len(base) : j \in 1..Len(List(b)) /\ base[j] = List(b)[j]
  BY <1>5
<1>12. Len(base) = 0 \/ Len(base) = Len(List(b))
  BY <1>5
<1> QED BY <1>5, <1>9, <1>10, <1>11, <1>12, Zenon

\* Register keeps the invariant.
LEMMA RegisterKeys ==
  ASSUME MapInv, KeyInv, NEW b \in Addresses, NEW spk \in SignedPreKeys,
         NEW n \in 0..MaxUpload, Directory!DirRegister(b, spk, n)
  PROVE  KeyInv'
<1>1. /\ uploaded \in Nat /\ n \in Nat /\ uploaded + n <= MaxKeys
      /\ uploaded' = uploaded + n /\ UNCHANGED handed
  BY MemDBConstants DEF MapInv, TypeOK, Directory!DirRegister
<1>2. PICK m \in Nat :
        /\ Len(List(b)') = m + n
        /\ \A j \in 1..m : j \in 1..Len(List(b)) /\ List(b)'[j] = List(b)[j]
        /\ \A j \in 1..n : List(b)'[m + j] = uploaded + j
        /\ \A a \in Addresses : a # b => List(a)' = List(a)
  BY RegisterLists, Zenon
<1>3. ASSUME NEW a \in Addresses, NEW j \in 1..Len(List(a)')
      PROVE  \/ j \in 1..Len(List(a)) /\ List(a)'[j] = List(a)[j]
             \/ a = b /\ uploaded < List(a)'[j] /\ List(a)'[j] = uploaded + (j - m)
  <2>1. CASE a # b
    BY <1>2, <2>1
  <2>2. CASE a = b /\ j \in 1..m
    BY <1>2, <2>2
  <2>3. CASE a = b /\ j \notin 1..m
    <3>1. j - m \in 1..n /\ m + (j - m) = j
      BY <1>1, <1>2, <2>3
    <3>2. List(b)'[j] = uploaded + (j - m)
      BY <1>2, <3>1
    <3> QED BY <1>1, <2>3, <3>1, <3>2
  <2> QED BY <2>1, <2>2, <2>3
<1>4. \A a \in Addresses : \A j \in 1..Len(List(a)) :
        List(a)[j] \in Nat /\ List(a)[j] <= uploaded /\ handed[List(a)[j]] = 0
  BY ListTyped DEF KeyInv, ListInv
<1>5. ListInv'
  <2> SUFFICES ASSUME NEW a \in Addresses, NEW j \in 1..Len(List(a)')
               PROVE  List(a)'[j] <= uploaded' /\ handed[List(a)'[j]] = 0
    BY <1>1 DEF ListInv
  <2>1. CASE j \in 1..Len(List(a)) /\ List(a)'[j] = List(a)[j]
    BY <1>1, <1>4, <2>1
  <2>2. CASE a = b /\ uploaded < List(a)'[j] /\ List(a)'[j] = uploaded + (j - m)
    <3>1. j <= m + n /\ j \in Nat
      BY <1>1, <1>2, <2>2
    <3>2. List(a)'[j] \in Keys /\ List(a)'[j] <= uploaded + n
      BY <1>1, <2>2, <3>1, MemDBConstants DEF Keys
    <3>3. handed[List(a)'[j]] = 0
      BY <2>2, <3>2 DEF KeyInv, HandedInv
    <3> QED BY <1>1, <3>2, <3>3
  <2> QED BY <1>3, <2>1, <2>2
<1>6. OnceListed'
  <2> SUFFICES ASSUME NEW a \in Addresses, NEW c \in Addresses,
                      NEW j \in 1..Len(List(a)'), NEW l \in 1..Len(List(c)'),
                      List(a)'[j] = List(c)'[l]
               PROVE  a = c /\ j = l
    BY DEF OnceListed
  <2> DEFINE Old(x, i) == i \in 1..Len(List(x)) /\ List(x)'[i] = List(x)[i]
             Fresh(x, i) == x = b /\ uploaded < List(x)'[i] /\ List(x)'[i] = uploaded + (i - m)
  <2>1. CASE Old(a, j) /\ Old(c, l)
    <3>1. List(a)[j] = List(c)[l] /\ j \in 1..Len(List(a)) /\ l \in 1..Len(List(c))
      BY <2>1, Zenon
    <3> QED BY ONLY <3>1, KeyInv DEF KeyInv, OnceListed
  <2>2. CASE Old(a, j) /\ Fresh(c, l)
    BY <1>1, <1>4, <2>2
  <2>3. CASE Fresh(a, j) /\ Old(c, l)
    BY <1>1, <1>4, <2>3
  <2>4. CASE Fresh(a, j) /\ Fresh(c, l)
    <3>1. j \in Int /\ l \in Int
      BY <1>1, <1>2, <2>4
    <3> QED BY <1>1, <2>4, <3>1
  <2> QED BY <1>3, <2>1, <2>2, <2>3, <2>4
<1>7. HandedInv'
  BY <1>1 DEF KeyInv, HandedInv, Keys
<1> QED BY <1>5, <1>6, <1>7 DEF KeyInv

\* Unregister and Take only make lists shorter.
LEMMA ShorterLists ==
  ASSUME KeyInv,
         \A a \in Addresses : \A j \in 1..Len(List(a)') :
           j \in 1..Len(List(a)) /\ List(a)'[j] = List(a)[j]
  PROVE  OnceListed'
<1> SUFFICES ASSUME NEW a \in Addresses, NEW c \in Addresses,
                    NEW j \in 1..Len(List(a)'), NEW l \in 1..Len(List(c)'),
                    List(a)'[j] = List(c)'[l]
             PROVE  a = c /\ j = l
  BY DEF OnceListed
<1>1. List(a)[j] = List(c)[l] /\ j \in 1..Len(List(a)) /\ l \in 1..Len(List(c))
  OBVIOUS
<1> QED BY <1>1 DEF KeyInv, OnceListed

\* Unregister keeps the invariant.
LEMMA UnregisterKeys ==
  ASSUME MapInv, KeyInv, NEW b \in Addresses, Directory!DirUnregister(b)
  PROVE  KeyInv'
<1>1. registrations' = [registrations EXCEPT ![b] = None] /\ UNCHANGED <<uploaded, handed>>
  BY DEF Directory!DirUnregister
<1>2. /\ registrations'[b] = None
      /\ \A a \in Addresses : a # b => registrations'[a] = registrations[a]
  BY <1>1, EntryTyped
<1>3. List(b)' = <<>> /\ \A a \in Addresses : a # b => List(a)' = List(a)
  BY <1>2 DEF List
<1>4. ASSUME NEW a \in Addresses, NEW j \in 1..Len(List(a)')
      PROVE  j \in 1..Len(List(a)) /\ List(a)'[j] = List(a)[j]
  BY <1>3
<1>5. ListInv'
  BY <1>1, <1>4 DEF KeyInv, ListInv
<1>6. HandedInv'
  BY <1>1 DEF KeyInv, HandedInv
<1> QED BY <1>4, <1>5, <1>6, ShorterLists DEF KeyInv

\* A sequence without its last element.
LEMMA WithoutLast ==
  ASSUME NEW ks \in Seq(Keys), ks # <<>>, NEW sub, sub = SubSeq(ks, 1, Len(ks) - 1)
  PROVE  /\ sub \in Seq(Keys) /\ Len(sub) = Len(ks) - 1
         /\ \A j \in 1..Len(sub) : sub[j] = ks[j]
<1>1. Len(ks) \in Nat /\ Len(ks) # 0
  OBVIOUS
<1>2. sub \in Seq(Keys)
  BY <1>1
<1>3. Len(sub) = Len(ks) - 1
  <2> DEFINE n == Len(ks) - 1
  <2>1. n \in Nat /\ sub = SubSeq(ks, 1, n)
    BY <1>1
  <2> HIDE DEF n
  <2>2. Len(SubSeq(ks, 1, n)) = n
    BY ONLY <2>1, ks \in Seq(Keys)
  <2> QED BY <2>1, <2>2 DEF n
<1>4. \A j \in 1..(Len(ks) - 1) : sub[j] = ks[j]
  BY <1>1
<1> QED BY <1>2, <1>3, <1>4

\* Take keeps the invariant: the key it takes from a device was handed out to
\* nobody, and no device lists it afterwards.
LEMMA TakeKeys ==
  ASSUME MapInv, KeyInv, NEW D \in SUBSET Addresses, Directory!DirTake(D)
  PROVE  KeyInv'
<1> DEFINE having == {a \in D : registrations[a].keys # <<>>}
           last(a) == registrations[a].keys[Len(registrations[a].keys)]
           taken(k) == \E a \in having : last(a) = k
<1>1. /\ \A a \in D : registrations[a] # None
      /\ registrations' = [a \in Addresses |->
           IF a \notin having THEN registrations[a]
           ELSE [registrations[a] EXCEPT !.keys = SubSeq(@, 1, Len(@) - 1)]]
      /\ handed' = [k \in 1..MaxKeys |-> handed[k] + (IF taken(k) THEN 1 ELSE 0)]
      /\ uploaded' = uploaded
  BY DEF Directory!DirTake
<1>2. \A a \in having : /\ a \in Addresses /\ registrations[a] # None
                        /\ List(a) = registrations[a].keys /\ List(a) # <<>>
  BY <1>1 DEF List
<1>3. ASSUME NEW a \in having
      PROVE  /\ Len(List(a)) \in 1..Len(List(a)) /\ last(a) = List(a)[Len(List(a))]
             /\ last(a) \in Keys
  <2>1. List(a) \in Seq(Keys) /\ List(a) # <<>>
    BY <1>2, ListTyped
  <2>2. Len(List(a)) \in 1..Len(List(a))
    BY <2>1
  <2> QED BY <1>2, <2>2, ListTyped
<1>4. ASSUME NEW a \in having
      PROVE  /\ Len(List(a)') = Len(List(a)) - 1
             /\ \A j \in 1..Len(List(a)') : List(a)'[j] = List(a)[j]
  <2> DEFINE ks == registrations[a].keys
             sub == SubSeq(ks, 1, Len(ks) - 1)
  <2>1. registrations[a] \in Registrations /\ ks = List(a)
    BY <1>2, EntryTyped
  <2>2. ks \in Seq(Keys) /\ ks # <<>>
    BY <1>2, <2>1, ListTyped
  <2>3. /\ sub \in Seq(Keys) /\ Len(sub) = Len(ks) - 1
        /\ \A j \in 1..Len(sub) : sub[j] = ks[j]
    <3> HIDE DEF ks
    <3> QED BY ONLY <2>2, WithoutLast, Zenon
  <2>4. registrations'[a] = [registrations[a] EXCEPT !.keys = sub]
    BY <1>1, <1>2
  <2> HIDE DEF sub
  <2>5. registrations'[a] \in Registrations /\ registrations'[a].keys = sub
    BY <2>1, <2>3, <2>4 DEF Registrations
  <2>6. registrations'[a] # None
    BY <2>5, MemDBConstants DEF Registrations, Keys
  <2>7. List(a)' = sub
    BY <2>5, <2>6 DEF List
  <2> QED BY <2>1, <2>3, <2>7
<1>5. ASSUME NEW a \in Addresses, a \notin having PROVE List(a)' = List(a)
  BY <1>1, <1>5 DEF List
<1> HIDE DEF having, last
<1>6. ASSUME NEW a \in Addresses, NEW j \in 1..Len(List(a)')
      PROVE  /\ j \in 1..Len(List(a)) /\ List(a)'[j] = List(a)[j]
             /\ a \in having => j # Len(List(a))
  <2>1. Len(List(a)) \in Nat
    BY ListTyped
  <2>2. CASE a \in having
    BY <1>4, <2>1, <2>2
  <2>3. CASE a \notin having
    BY <1>5, <2>3
  <2> QED BY <2>2, <2>3
<1>7. ASSUME NEW a \in Addresses, NEW j \in 1..Len(List(a)')
      PROVE  ~taken(List(a)'[j])
  <2> SUFFICES ASSUME NEW c \in having, last(c) = List(a)'[j] PROVE FALSE
    OBVIOUS
  <2>1. /\ c \in Addresses /\ Len(List(c)) \in 1..Len(List(c))
        /\ List(c)[Len(List(c))] = List(a)[j]
    BY <1>2, <1>3, <1>6
  <2>2. j \in 1..Len(List(a)) /\ (a \in having => j # Len(List(a)))
    BY <1>6
  <2>3. c = a /\ j = Len(List(c))
    BY ONLY <2>1, <2>2, a \in Addresses, KeyInv DEF KeyInv, OnceListed
  <2> QED BY <2>2, <2>3
<1>8. \A k \in Keys : /\ handed[k] \in Nat
                      /\ taken(k) => handed[k] = 0 /\ handed'[k] = 1 /\ k <= uploaded
                      /\ ~taken(k) => handed'[k] = handed[k]
  <2> SUFFICES ASSUME NEW k \in Keys
               PROVE  /\ handed[k] \in Nat
                      /\ taken(k) => handed[k] = 0 /\ handed'[k] = 1 /\ k <= uploaded
                      /\ ~taken(k) => handed'[k] = handed[k]
    OBVIOUS
  <2>1. handed[k] \in Nat
    BY DEF MapInv, TypeOK
  <2>2. handed'[k] = handed[k] + (IF taken(k) THEN 1 ELSE 0)
    <3> HIDE DEF taken
    <3> QED BY <1>1 DEF Keys
  <2>3. taken(k) => handed[k] = 0 /\ k <= uploaded
    BY <1>2, <1>3 DEF KeyInv, ListInv
  <2> HIDE DEF taken
  <2> QED BY <2>1, <2>2, <2>3
<1>9. ListInv'
  <2> SUFFICES ASSUME NEW a \in Addresses, NEW j \in 1..Len(List(a)')
               PROVE  List(a)'[j] <= uploaded /\ handed'[List(a)'[j]] = 0
    BY <1>1 DEF ListInv
  <2>1. List(a)'[j] \in Keys /\ List(a)'[j] <= uploaded /\ handed[List(a)'[j]] = 0
    BY <1>6, ListTyped DEF KeyInv, ListInv
  <2>2. ~taken(List(a)'[j])
    BY <1>7
  <2> HIDE DEF taken
  <2> QED BY <1>8, <2>1, <2>2
<1>10. HandedInv'
  <2> SUFFICES ASSUME NEW k \in Keys
               PROVE  handed'[k] <= 1 /\ (uploaded < k => handed'[k] = 0)
    BY <1>1 DEF HandedInv
  <2> HIDE DEF taken
  <2>1. uploaded \in Nat /\ k \in Nat
    BY DEF MapInv, TypeOK, Keys
  <2> QED BY <1>8, <2>1 DEF KeyInv, HandedInv
<1>11. OnceListed'
  BY ONLY <1>6, KeyInv, ShorterLists
<1> QED BY <1>9, <1>10, <1>11 DEF KeyInv

\* Every step keeps the invariant.
LEMMA KeyStep ==
  ASSUME MapInv, MapInv', KeyInv, [Next]_vars
  PROVE  KeyInv'
<1>1. CASE UNCHANGED <<registrations, uploaded, handed>>
  <2>1. \A a \in Addresses : List(a)' = List(a)
    BY <1>1 DEF List
  <2>2. ListInv'
    BY <1>1, <2>1 DEF KeyInv, ListInv
  <2>3. HandedInv'
    BY <1>1 DEF KeyInv, HandedInv
  <2>4. OnceListed'
    BY <2>1, ShorterLists
  <2> QED BY <2>2, <2>3, <2>4 DEF KeyInv
<1>2. CASE Directory!DirNext
  BY <1>2, RegisterKeys, UnregisterKeys, TakeKeys DEF Directory!DirNext
<1> QED BY <1>1, <1>2, StepRefines

\* At the start no device has a key and no key was handed out.
LEMMA KeyInit == ASSUME New PROVE KeyInv
<1>1. \A a \in Addresses : List(a) = <<>>
  BY DEF New, List, registrations, Registered, NewMap
<1> QED BY <1>1 DEF New, KeyInv, ListInv, OnceListed, HandedInv, Keys

\* No call of RequestPreKeys hands out a one-time pre key that another handed
\* out, whatever was registered, unregistered and requested before.
THEOREM KeysHandedOutOnce == Spec => []HandedOutOnce
<1>1. MapInv /\ KeyInv => HandedOutOnce
  <2> SUFFICES ASSUME MapInv, KeyInv, NEW k \in Keys, NEW listed,
                      listed = {l \in Addresses \X Keys :
                                  /\ Registered(l[1][1], l[1][2])
                                  /\ l[2] <= Len(identities[l[1][1]][l[1][2]].keys)
                                  /\ identities[l[1][1]][l[1][2]].keys[l[2]] = k}
               PROVE  handed[k] + Cardinality(listed) <= 1
    BY Zenon DEF HandedOutOnce
  <2>1. ASSUME NEW l \in listed
        PROVE  /\ l = <<l[1], l[2]>> /\ l[1] \in Addresses
               /\ l[2] \in 1..Len(List(l[1])) /\ List(l[1])[l[2]] = k
    <3>1. /\ l = <<l[1], l[2]>> /\ l[1] \in Addresses /\ l[2] \in Keys
          /\ Registered(l[1][1], l[1][2])
          /\ l[2] <= Len(identities[l[1][1]][l[1][2]].keys)
          /\ identities[l[1][1]][l[1][2]].keys[l[2]] = k
      <4>1. l \in Addresses \X Keys
        OBVIOUS
      <4>2. l = <<l[1], l[2]>> /\ l[1] \in Addresses /\ l[2] \in Keys
        BY ONLY <4>1, SMTT(20)
      <4>3. /\ Registered(l[1][1], l[1][2])
            /\ l[2] <= Len(identities[l[1][1]][l[1][2]].keys)
            /\ identities[l[1][1]][l[1][2]].keys[l[2]] = k
        OBVIOUS
      <4> QED BY ONLY <4>2, <4>3, SMTT(20)
    <3>2. List(l[1]) = identities[l[1][1]][l[1][2]].keys
      BY <3>1, EntryTyped, Zenon DEF List
    <3>3. Len(List(l[1])) \in Nat
      BY <3>1, ListTyped, Zenon
    <3>4. l[2] \in 1..Len(List(l[1]))
      BY ONLY <3>1, <3>2, <3>3 DEF Keys
    <3> QED BY ONLY <3>1, <3>2, <3>4
  <2>2. ASSUME NEW l \in listed, NEW m \in listed PROVE l = m
    <3>1. l[1] = m[1] /\ l[2] = m[2]
      BY ONLY <2>1, KeyInv DEF KeyInv, OnceListed
    <3> QED BY ONLY <2>1, <3>1
  <2>3. handed[k] \in {0, 1}
    BY DEF MapInv, TypeOK, KeyInv, HandedInv
  <2>4. CASE listed = {}
    <3>1. Cardinality(listed) = 0
      BY ONLY <2>4, FS_EmptySet
    <3> QED BY ONLY <2>3, <3>1
  <2>5. CASE listed # {}
    <3>1. PICK l : l \in listed
      BY <2>5
    <3>2. listed = {l}
      BY <2>2, <3>1, Zenon
    <3>3. Cardinality(listed) = 1
      BY <3>2, FS_Singleton, Zenon
    <3>4. handed[k] = 0
      BY ONLY <2>1, <3>1, KeyInv DEF KeyInv, ListInv
    <3> QED BY ONLY <3>3, <3>4, SMTT(20)
  <2> QED BY <2>4, <2>5, Zenon
<1>2. MapInv /\ MapInv' /\ KeyInv /\ [Next]_vars => KeyInv'
  BY KeyStep
<1> QED BY <1>1, <1>2, KeyInit, MapsHold, PTL DEF Spec

-----------------------------------------------------------------------------
(***************************************************************************)
(* Chat numbers.                                                           *)
(***************************************************************************)

\* An identity's number is one of the variants, and the other maps have it.
NumberInv ==
  \A i \in DOMAIN identityKeyToNumber :
    /\ identityKeyToNumber[i] \in Numbers
    /\ identityKeyToNumber[i] \in DOMAIN numberToIdentityKey
    /\ identityKeyToNumber[i] \in DOMAIN numberToShortNumber

\* Its short number is that of the same variant, and leads back to it.
ShortInv ==
  \A i \in DOMAIN identityKeyToNumber : \E n \in 0..TailLen :
    LET short == newShortNumber(i, n)
    IN  /\ identityKeyToNumber[i] = newNumber(i, n)
        /\ numberToShortNumber[identityKeyToNumber[i]] = short
        /\ short \in DOMAIN shortNumberToNumber
        /\ shortNumberToNumber[short] = identityKeyToNumber[i]

\* Numbers with the same short number are the same.
LEMMA ShortDecides ==
  ASSUME ShortPartDecides, NEW i \in Identities, NEW j \in Identities,
         NEW n \in 0..TailLen, NEW k \in 0..TailLen,
         newShortNumber(i, n) = newShortNumber(j, k)
  PROVE  newNumber(i, n) = newNumber(j, k)
<1>1. CASE lastChance(n) /\ lastChance(k)
  BY <1>1 DEF newShortNumber
<1>2. CASE ~lastChance(n) /\ ~lastChance(k)
  <2>1. <<n, ShortPart[i]>> = <<k, ShortPart[j]>>
    BY <1>2 DEF newShortNumber
  <2>2. n = k /\ ShortPart[i] = ShortPart[j]
    BY <2>1
  <2>3. TailPart[i] = TailPart[j]
    BY <2>2 DEF ShortPartDecides
  <2> QED BY <2>2, <2>3 DEF newNumber
<1>3. CASE lastChance(n) /\ ~lastChance(k)
  <2>1. <<IF lastChance(n) THEN 0 ELSE n, ShortPart[i], TailPart[i]>>
          = <<k, ShortPart[j]>>
    BY <1>3 DEF newShortNumber, newNumber
  <2> QED BY <2>1
<1>4. CASE ~lastChance(n) /\ lastChance(k)
  <2>1. <<n, ShortPart[i]>>
          = <<IF lastChance(k) THEN 0 ELSE k, ShortPart[j], TailPart[j]>>
    BY <1>4 DEF newShortNumber, newNumber
  <2> QED BY <2>1
<1> QED BY <1>1, <1>2, <1>3, <1>4

\* Only RegisterChatNumber changes the maps of numbers.
LEMMA NumberMapsStep ==
  ASSUME [Next]_vars
  PROVE  \/ UNCHANGED numberVars
         \/ \E i \in Identities, n \in 0..TailLen : RegisterChatNumber(i, n)
  BY DEF Next, vars, Register, Unregister, RequestPreKeys

\* What RegisterChatNumber does to the four maps.
LEMMA Registering ==
  ASSUME NEW i \in Identities, NEW n \in 0..TailLen, RegisterChatNumber(i, n)
  PROVE  LET number == newNumber(i, n)
             short == newShortNumber(i, n)
         IN  /\ number \in Numbers /\ number \notin DOMAIN numberToIdentityKey
             /\ i \notin DOMAIN identityKeyToNumber
             /\ DOMAIN identityKeyToNumber' = DOMAIN identityKeyToNumber \cup {i}
             /\ identityKeyToNumber'[i] = number
             /\ \A j \in DOMAIN identityKeyToNumber :
                  identityKeyToNumber'[j] = identityKeyToNumber[j]
             /\ DOMAIN numberToIdentityKey' = DOMAIN numberToIdentityKey \cup {number}
             /\ DOMAIN numberToShortNumber' = DOMAIN numberToShortNumber \cup {number}
             /\ numberToShortNumber'[number] = short
             /\ \A m \in DOMAIN numberToShortNumber :
                  m # number => numberToShortNumber'[m] = numberToShortNumber[m]
             /\ DOMAIN shortNumberToNumber' = DOMAIN shortNumberToNumber \cup {short}
             /\ shortNumberToNumber'[short] = number
             /\ \A s \in DOMAIN shortNumberToNumber :
                  s # short => shortNumberToNumber'[s] = shortNumberToNumber[s]
<1> DEFINE number == newNumber(i, n)
           short == newShortNumber(i, n)
<1>1. /\ i \notin DOMAIN identityKeyToNumber
      /\ number \notin DOMAIN numberToIdentityKey
      /\ identityKeyToNumber' = Put(identityKeyToNumber, i, number)
      /\ numberToIdentityKey' = Put(numberToIdentityKey, number, i)
      /\ numberToShortNumber' = Put(numberToShortNumber, number, short)
      /\ shortNumberToNumber' = Put(shortNumberToNumber, short, number)
  BY DEF RegisterChatNumber, Free
<1>2. number \in Numbers
  BY DEF Numbers
<1> HIDE DEF number, short
<1>3. /\ DOMAIN identityKeyToNumber' = DOMAIN identityKeyToNumber \cup {i}
      /\ identityKeyToNumber'[i] = number
      /\ \A j \in DOMAIN identityKeyToNumber :
           identityKeyToNumber'[j] = identityKeyToNumber[j]
  BY <1>1 DEF Put
<1>4. DOMAIN numberToIdentityKey' = DOMAIN numberToIdentityKey \cup {number}
  BY <1>1 DEF Put
<1>5. /\ DOMAIN numberToShortNumber' = DOMAIN numberToShortNumber \cup {number}
      /\ numberToShortNumber'[number] = short
      /\ \A m \in DOMAIN numberToShortNumber :
           m # number => numberToShortNumber'[m] = numberToShortNumber[m]
  BY <1>1 DEF Put
<1>6. /\ DOMAIN shortNumberToNumber' = DOMAIN shortNumberToNumber \cup {short}
      /\ shortNumberToNumber'[short] = number
      /\ \A s \in DOMAIN shortNumberToNumber :
           s # short => shortNumberToNumber'[s] = shortNumberToNumber[s]
  BY <1>1 DEF Put
<1> QED BY <1>1, <1>2, <1>3, <1>4, <1>5, <1>6 DEF number, short

\* Every step keeps the first invariant.
LEMMA NumberStep == NumberInv /\ [Next]_vars => NumberInv'
<1> SUFFICES ASSUME NumberInv, [Next]_vars PROVE NumberInv'
  OBVIOUS
<1>1. CASE UNCHANGED numberVars
  BY <1>1 DEF NumberInv, numberVars
<1>2. ASSUME NEW i \in Identities, NEW n \in 0..TailLen, RegisterChatNumber(i, n)
      PROVE  NumberInv'
  <2> DEFINE number == newNumber(i, n)
  <2> HIDE DEF number
  <2>1. /\ number \in Numbers
        /\ DOMAIN identityKeyToNumber' = DOMAIN identityKeyToNumber \cup {i}
        /\ identityKeyToNumber'[i] = number
        /\ \A j \in DOMAIN identityKeyToNumber :
             identityKeyToNumber'[j] = identityKeyToNumber[j]
        /\ DOMAIN numberToIdentityKey' = DOMAIN numberToIdentityKey \cup {number}
        /\ DOMAIN numberToShortNumber' = DOMAIN numberToShortNumber \cup {number}
    BY <1>2, Registering, Zenon DEF number
  <2> QED BY ONLY <2>1, NumberInv DEF NumberInv
<1> QED BY <1>1, <1>2, NumberMapsStep

\* What the maps say of a number holds after any sequence of operations.
LEMMA NumbersHold == Spec => []NumberInv
<1>1. New => NumberInv
  BY DEF New, NumberInv, NewMap
<1> QED BY <1>1, NumberStep, PTL DEF Spec

\* RegisterChatNumber assigns a number that nobody has, to an identity without
\* one, and no other operation changes who has which: memdb implements the
\* directory of numbers.
THEOREM NumbersImplemented == Spec => ImplementsNumbers
<1>1. New => NumbersOnce!NumbersInit
  BY DEF New, NumbersOnce!NumbersInit, numberOf, NewMap
<1>2. NumberInv /\ [Next]_vars => [NumbersOnce!NumbersNext]_numberOf
  <2> SUFFICES ASSUME NumberInv, [Next]_vars
               PROVE  NumbersOnce!NumbersNext \/ UNCHANGED numberOf
    OBVIOUS
  <2>1. CASE UNCHANGED numberVars
    BY <2>1 DEF numberOf, numberVars
  <2>2. ASSUME NEW i \in Identities, NEW n \in 0..TailLen, RegisterChatNumber(i, n)
        PROVE  NumbersOnce!NumbersNext
    <3> DEFINE number == newNumber(i, n)
    <3>1. number \in Numbers /\ number # None
      BY <2>2, Registering, NoneAssumption, ZenonT(30)
    <3>2. numberOf[i] = None
      BY <2>2, Registering, Zenon DEF numberOf
    <3>3. \A j \in Identities : numberOf[j] # number
      <4>1. number \notin DOMAIN numberToIdentityKey
        BY <2>2, Registering, Zenon
      <4> HIDE DEF number
      <4> QED BY ONLY <3>1, <4>1, NumberInv DEF numberOf, NumberInv
    <3>4. numberOf' = [numberOf EXCEPT ![i] = number]
      <4> HIDE DEF number
      <4>1. /\ DOMAIN identityKeyToNumber' = DOMAIN identityKeyToNumber \cup {i}
            /\ identityKeyToNumber'[i] = number
            /\ \A j \in DOMAIN identityKeyToNumber :
                 identityKeyToNumber'[j] = identityKeyToNumber[j]
        BY <2>2, Registering, Zenon DEF number
      <4>2. \A j \in Identities : numberOf'[j] = IF j = i THEN number ELSE numberOf[j]
        BY <4>1 DEF numberOf
      <4>3. /\ numberOf' = [j \in Identities |-> numberOf'[j]]
            /\ numberOf = [j \in Identities |-> numberOf[j]]
        BY DEF numberOf
      <4> QED BY <4>2, <4>3
    <3> HIDE DEF number
    <3>5. NumbersOnce!Assign(i, number)
      BY <3>2, <3>3, <3>4 DEF NumbersOnce!Assign
    <3> QED BY <3>1, <3>5 DEF NumbersOnce!NumbersNext
  <2> QED BY <2>1, <2>2, NumberMapsStep
<1> QED BY <1>1, <1>2, NumbersHold, PTL
        DEF Spec, ImplementsNumbers, NumbersOnce!NumbersSpec

\* Every step keeps the second invariant, where the first 12 digits tell
\* preferred numbers apart.
LEMMA ShortStep ==
  ASSUME ShortPartDecides, MapInv, NumberInv, ShortInv, [Next]_vars
  PROVE  ShortInv'
<1>1. CASE UNCHANGED numberVars
  BY <1>1 DEF ShortInv, numberVars
<1>2. ASSUME NEW i \in Identities, NEW n \in 0..TailLen, RegisterChatNumber(i, n)
      PROVE  ShortInv'
  <2> DEFINE Leads(j, k) == /\ identityKeyToNumber[j] = newNumber(j, k)
                            /\ numberToShortNumber[identityKeyToNumber[j]]
                                 = newShortNumber(j, k)
                            /\ newShortNumber(j, k) \in DOMAIN shortNumberToNumber
                            /\ shortNumberToNumber[newShortNumber(j, k)]
                                 = identityKeyToNumber[j]
  <2> SUFFICES ASSUME NEW j \in DOMAIN identityKeyToNumber'
               PROVE  \E k \in 0..TailLen : Leads(j, k)'
    BY DEF ShortInv
  <2>0. /\ newNumber(i, n) \notin DOMAIN numberToIdentityKey
        /\ DOMAIN identityKeyToNumber' = DOMAIN identityKeyToNumber \cup {i}
        /\ DOMAIN shortNumberToNumber' = DOMAIN shortNumberToNumber \cup {newShortNumber(i, n)}
        /\ \A s \in DOMAIN shortNumberToNumber :
             s # newShortNumber(i, n) => shortNumberToNumber'[s] = shortNumberToNumber[s]
    BY <1>2, Registering, Zenon
  <2>1. CASE j = i
    <3>1. Leads(i, n)'
      BY <1>2, Registering, Zenon
    <3> QED BY <2>1, <3>1
  <2>2. CASE j # i
    <3>1. j \in DOMAIN identityKeyToNumber /\ j \in Identities
      BY ONLY <2>0, <2>2, j \in DOMAIN identityKeyToNumber', MapInv DEF MapInv, TypeOK
    <3>2. PICK k \in 0..TailLen : Leads(j, k)
      BY <3>1 DEF ShortInv
    <3>3. /\ identityKeyToNumber[j] \in DOMAIN numberToIdentityKey
          /\ identityKeyToNumber[j] \in DOMAIN numberToShortNumber
      BY <3>1 DEF NumberInv
    <3>4. identityKeyToNumber[j] # newNumber(i, n)
      BY ONLY <2>0, <3>3, SMTT(20)
    <3>5. newShortNumber(j, k) # newShortNumber(i, n)
      BY <3>1, <3>2, <3>4, ShortDecides
    <3>6. Leads(j, k)'
      <4>1. identityKeyToNumber'[j] = identityKeyToNumber[j]
        BY <1>2, <3>1, Registering, Zenon
      <4>2. numberToShortNumber'[identityKeyToNumber[j]]
              = numberToShortNumber[identityKeyToNumber[j]]
        BY <1>2, <3>3, <3>4, Registering, Zenon
      <4>3. /\ newShortNumber(j, k) \in DOMAIN shortNumberToNumber'
            /\ shortNumberToNumber'[newShortNumber(j, k)]
                 = shortNumberToNumber[newShortNumber(j, k)]
        BY ONLY <2>0, <3>2, <3>5
      <4> QED BY <3>2, <4>1, <4>2, <4>3
    <3> QED BY <3>6
  <2> QED BY <2>1, <2>2
<1> QED BY <1>1, <1>2, NumberMapsStep

\* Whatever variants had to be tried, the short number that
\* FindChatNumberByIdentityKey returns leads to the number returned with it,
\* where the first 12 digits tell preferred numbers apart.
THEOREM ShortNumbersLeadBack ==
  ASSUME ShortPartDecides
  PROVE  Spec => []LookupsAgree
<1>1. New => ShortInv
  BY DEF New, ShortInv, NewMap
<1>2. MapInv /\ NumberInv /\ ShortInv /\ [Next]_vars => ShortInv'
  BY ShortStep
<1>3. ShortInv => LookupsAgree
  <2> SUFFICES ASSUME ShortInv, NEW i \in DOMAIN identityKeyToNumber
               PROVE  FindChatNumberByShortNumber(FindChatNumberByIdentityKey(i)[2])
                        = FindChatNumberByIdentityKey(i)[1]
    BY DEF LookupsAgree
  <2> DEFINE number == identityKeyToNumber[i]
             short == numberToShortNumber[number]
  <2>1. short \in DOMAIN shortNumberToNumber /\ shortNumberToNumber[short] = number
    BY DEF ShortInv
  <2>2. FindChatNumberByIdentityKey(i) = <<number, short>>
    BY DEF FindChatNumberByIdentityKey
  <2> HIDE DEF number, short
  <2>3. FindChatNumberByIdentityKey(i)[1] = number /\ FindChatNumberByIdentityKey(i)[2] = short
    BY <2>2
  <2> QED BY <2>1, <2>3 DEF FindChatNumberByShortNumber
<1> QED BY <1>1, <1>2, <1>3, MapsHold, NumbersHold, PTL DEF Spec

\* Whichever numbers share their first 12 digits: a short number is on file for a
\* number that an identity has, and that FindChatNumberByIdentityKey returns with
\* this very short number.
ShortNumberIsOfNumber ==
  \A h \in DOMAIN shortNumberToNumber : \E i \in DOMAIN identityKeyToNumber :
    FindChatNumberByIdentityKey(i) = <<FindChatNumberByShortNumber(h), h>>

\* In terms of the maps.
Owned(h, i) ==
  /\ identityKeyToNumber[i] = shortNumberToNumber[h]
  /\ numberToShortNumber[identityKeyToNumber[i]] = h

OwnedInv ==
  \A h \in DOMAIN shortNumberToNumber : \E i \in DOMAIN identityKeyToNumber : Owned(h, i)

\* Every step keeps this: a number is nobody's when it is assigned.
LEMMA OwnedStep ==
  ASSUME NumberInv, OwnedInv, [Next]_vars
  PROVE  OwnedInv'
<1>1. CASE UNCHANGED numberVars
  BY <1>1 DEF OwnedInv, Owned, numberVars
<1>2. ASSUME NEW j \in Identities, NEW n \in 0..TailLen, RegisterChatNumber(j, n)
      PROVE  OwnedInv'
  <2> DEFINE number == newNumber(j, n)
             short == newShortNumber(j, n)
  <2>1. /\ number \notin DOMAIN numberToIdentityKey
        /\ DOMAIN identityKeyToNumber' = DOMAIN identityKeyToNumber \cup {j}
        /\ DOMAIN shortNumberToNumber' = DOMAIN shortNumberToNumber \cup {short}
        /\ identityKeyToNumber'[j] = number /\ numberToShortNumber'[number] = short
        /\ shortNumberToNumber'[short] = number
        /\ \A i \in DOMAIN identityKeyToNumber : identityKeyToNumber'[i] = identityKeyToNumber[i]
        /\ \A m \in DOMAIN numberToShortNumber :
             m # number => numberToShortNumber'[m] = numberToShortNumber[m]
        /\ \A h \in DOMAIN shortNumberToNumber :
             h # short => shortNumberToNumber'[h] = shortNumberToNumber[h]
    BY <1>2, Registering, Zenon
  <2> HIDE DEF number, short
  <2> SUFFICES ASSUME NEW h \in DOMAIN shortNumberToNumber'
               PROVE  \E i \in DOMAIN identityKeyToNumber' : Owned(h, i)'
    BY DEF OwnedInv
  <2>2. CASE h = short
    <3>1. Owned(h, j)'
      BY <2>1, <2>2 DEF Owned
    <3> QED BY <2>1, <3>1
  <2>3. CASE h # short
    <3>1. h \in DOMAIN shortNumberToNumber
      BY <2>1, <2>3
    <3>2. PICK i \in DOMAIN identityKeyToNumber : Owned(h, i)
      BY <3>1 DEF OwnedInv
    <3>3. /\ identityKeyToNumber[i] \in DOMAIN numberToIdentityKey
          /\ identityKeyToNumber[i] \in DOMAIN numberToShortNumber
      BY <3>2 DEF NumberInv
    <3>4. identityKeyToNumber[i] # number
      BY ONLY <2>1, <3>3
    <3>5. Owned(h, i)'
      BY <2>1, <2>3, <3>1, <3>2, <3>3, <3>4 DEF Owned
    <3> QED BY <2>1, <3>5
  <2> QED BY <2>2, <2>3
<1> QED BY <1>1, <1>2, NumberMapsStep

\* Even where preferred numbers agree in their first 12 digits only, a lookup by
\* short number never returns a number that nobody has, nor one that goes by
\* another short number.
THEOREM ShortNumbersAreOfNumbers == Spec => []ShortNumberIsOfNumber
<1>1. New => OwnedInv
  BY DEF New, OwnedInv, NewMap
<1>2. NumberInv /\ OwnedInv /\ [Next]_vars => OwnedInv'
  BY OwnedStep
<1>3. OwnedInv => ShortNumberIsOfNumber
  <2> SUFFICES ASSUME OwnedInv, NEW h \in DOMAIN shortNumberToNumber
               PROVE  \E i \in DOMAIN identityKeyToNumber :
                        FindChatNumberByIdentityKey(i) = <<FindChatNumberByShortNumber(h), h>>
    BY DEF ShortNumberIsOfNumber
  <2>1. PICK i \in DOMAIN identityKeyToNumber : Owned(h, i)
    BY DEF OwnedInv
  <2>2. FindChatNumberByIdentityKey(i)
          = <<identityKeyToNumber[i], numberToShortNumber[identityKeyToNumber[i]]>>
    BY Zenon DEF FindChatNumberByIdentityKey
  <2>3. FindChatNumberByShortNumber(h) = shortNumberToNumber[h]
    BY Zenon DEF FindChatNumberByShortNumber
  <2>4. FindChatNumberByIdentityKey(i) = <<FindChatNumberByShortNumber(h), h>>
    BY <2>1, <2>2, <2>3 DEF Owned
  <2> QED BY <2>4
<1> QED BY <1>1, <1>2, <1>3, NumbersHold, PTL DEF Spec
=============================================================================
