------------------------------- MODULE MemDB -------------------------------
(***************************************************************************)
(* db/memdb: the maps of memdb.  Every operation holds the mutex from its  *)
(* beginning to its end, and so is one step.  identities is a map of maps: *)
(* an identity is in it as long as it has a device.                        *)
(***************************************************************************)
EXTENDS NumberVariants, Sequences, FiniteSets

CONSTANTS
  DeviceIds,
  SignedPreKeys,
  MaxUpload,      \* bound: one-time pre keys in one Register
  MaxKeys         \* bound: one-time pre keys ever uploaded

ASSUME MemDBConstants ==
  /\ None \notin [signed : SignedPreKeys, keys : Seq(1..MaxKeys)]
  /\ TailLen \in Nat
  /\ MaxUpload \in Nat
  /\ MaxKeys \in Nat

VARIABLES
  identities,
  identityKeyToNumber,
  numberToIdentityKey,
  numberToShortNumber,
  shortNumberToNumber,
  uploaded,       \* the one-time pre keys 1..uploaded have been uploaded
  handed          \* history: how often each was handed out

keyVars == <<identities, uploaded, handed>>
numberVars == <<identityKeyToNumber, numberToIdentityKey, numberToShortNumber,
                shortNumberToNumber>>
vars == <<keyVars, numberVars>>

Keys == 1..MaxKeys
Addresses == Identities \X DeviceIds

\* A Go map is a function on the set of its keys.
NewMap == [k \in {} |-> None]
Put(map, k, v) == [j \in DOMAIN map \cup {k} |-> IF j = k THEN v ELSE map[j]]
Delete(map, k) == [j \in DOMAIN map \ {k} |-> map[j]]

New ==
  /\ identities = NewMap
  /\ uploaded = 0
  /\ handed = [k \in Keys |-> 0]
  /\ identityKeyToNumber = NewMap
  /\ numberToIdentityKey = NewMap
  /\ numberToShortNumber = NewMap
  /\ shortNumberToNumber = NewMap

-----------------------------------------------------------------------------
Registered(i, d) == i \in DOMAIN identities /\ d \in DOMAIN identities[i]

\* A client never uploads a one-time pre key twice.
NewKeys(n) == [j \in 1..n |-> uploaded + j]

\* Mutant: the keys on file are kept whatever signed pre key they belong to.
RegistrationKeeping(existing, spk, n) ==
  [signed |-> spk,
   keys |-> IF existing # None THEN existing.keys \o NewKeys(n) ELSE NewKeys(n)]

\* With the signed pre key on file the new keys are added to those on file.
Registration(existing, spk, n) ==
  IF existing # None /\ existing.signed = spk
  THEN [existing EXCEPT !.keys = @ \o NewKeys(n)]
  ELSE [signed |-> spk, keys |-> NewKeys(n)]

Register(i, d, spk, n) ==
  /\ uploaded + n <= MaxKeys
  /\ LET identity == IF i \in DOMAIN identities THEN identities[i] ELSE NewMap
         existing == IF d \in DOMAIN identity THEN identity[d] ELSE None
     IN  identities' =
           Put(identities, i, Put(identity, d, Registration(existing, spk, n)))
  /\ uploaded' = uploaded + n
  /\ UNCHANGED <<handed, numberVars>>

\* Mutant: an identity stays in the map without devices.
UnregisterOnly(i, d) ==
  /\ identities' = IF i \notin DOMAIN identities THEN identities
                   ELSE Put(identities, i, Delete(identities[i], d))
  /\ UNCHANGED <<uploaded, handed, numberVars>>

Unregister(i, d) ==
  /\ identities' =
       IF i \notin DOMAIN identities THEN identities
       ELSE IF DOMAIN identities[i] \ {d} = {} THEN Delete(identities, i)
       ELSE Put(identities, i, Delete(identities[i], d))
  /\ UNCHANGED <<uploaded, handed, numberVars>>

Last(s) == s[Len(s)]
Front(s) == SubSeq(s, 1, Len(s) - 1)

\* Mutant: the key is read and stays where it is.
Peeked(registration) == registration

\* The registration once its last key was handed out.
Popped(registration) ==
  IF registration.keys = <<>> THEN registration
  ELSE [registration EXCEPT !.keys = Front(@)]

\* The devices that RequestPreKeys answers with, unless the identity is unknown.
Asked(i, known) == DOMAIN identities[i] \ known

\* The keys of these devices that are handed out.
Handed(i, known) ==
  {Last(identities[i][d].keys) :
     d \in {e \in Asked(i, known) : identities[i][e].keys # <<>>}}

RequestPreKeys(i, known) ==
  /\ i \in DOMAIN identities
  /\ identities' = [identities EXCEPT ![i] =
       [d \in DOMAIN @ |-> IF d \in known THEN @[d] ELSE Popped(@[d])]]
  /\ handed' = [k \in Keys |->
                  handed[k] + (IF k \in Handed(i, known) THEN 1 ELSE 0)]
  /\ UNCHANGED <<uploaded, numberVars>>

\* The number and the error.
PreKeysRemaining(i, d) ==
  IF i \notin DOMAIN identities THEN <<0, "ErrUnknownIdentity">>
  ELSE IF d \notin DOMAIN identities[i] THEN <<0, "ErrUnknownDevice">>
  ELSE <<Len(identities[i][d].keys), "nil">>

AllRegisteredDevices ==
  UNION {{<<i, d>> : d \in DOMAIN identities[i]} : i \in DOMAIN identities}

-----------------------------------------------------------------------------
\* getNumber gets to variant n when all before it are taken.
Tried(i, n) ==
  \A k \in 0..(n - 1) : newNumber(i, k) \in DOMAIN numberToIdentityKey

\* Mutant: the number is not looked up.
NotTaken(number) == TRUE

Free(number) == number \notin DOMAIN numberToIdentityKey

\* Mutant: key and value of the second map are swapped.
RegisterChatNumberSwapped(i, n) ==
  LET number == newNumber(i, n)
      short == newShortNumber(i, n)
  IN  /\ Tried(i, n)
      /\ i \notin DOMAIN identityKeyToNumber
      /\ identityKeyToNumber' = Put(identityKeyToNumber, i, number)
      /\ numberToIdentityKey' = Put(numberToIdentityKey, i, number)
      /\ numberToShortNumber' = Put(numberToShortNumber, number, short)
      /\ shortNumberToNumber' = Put(shortNumberToNumber, short, number)
      /\ UNCHANGED keyVars

\* An identity that has a number gets this one, and a number that is taken is
\* refused, which changes nothing.
RegisterChatNumber(i, n) ==
  LET number == newNumber(i, n)
      short == newShortNumber(i, n)
  IN  /\ Tried(i, n)
      /\ i \notin DOMAIN identityKeyToNumber
      /\ Free(number)
      /\ identityKeyToNumber' = Put(identityKeyToNumber, i, number)
      /\ numberToIdentityKey' = Put(numberToIdentityKey, number, i)
      /\ numberToShortNumber' = Put(numberToShortNumber, number, short)
      /\ shortNumberToNumber' = Put(shortNumberToNumber, short, number)
      /\ UNCHANGED keyVars

FindChatNumberByShortNumber(short) ==
  IF short \in DOMAIN shortNumberToNumber THEN shortNumberToNumber[short]
  ELSE "ErrUnknownShortNumber"

\* Mutant: the short number is that of the preferred number.
FindPreferredShort(i) ==
  IF i \in DOMAIN identityKeyToNumber
  THEN <<identityKeyToNumber[i], newShortNumber(i, 0)>>
  ELSE "ErrUnknownIdentity"

FindChatNumberByIdentityKey(i) ==
  IF i \in DOMAIN identityKeyToNumber
  THEN <<identityKeyToNumber[i], numberToShortNumber[identityKeyToNumber[i]]>>
  ELSE "ErrUnknownIdentity"

Next ==
  \/ \E i \in Identities, d \in DeviceIds :
       \/ \E spk \in SignedPreKeys, n \in 0..MaxUpload : Register(i, d, spk, n)
       \/ Unregister(i, d)
  \/ \E i \in Identities :
       \/ \E known \in SUBSET DeviceIds : RequestPreKeys(i, known)
       \/ \E n \in 0..TailLen : RegisterChatNumber(i, n)

Spec == New /\ [][Next]_vars

-----------------------------------------------------------------------------
(***************************************************************************)
(* Properties.                                                             *)
(***************************************************************************)

Registrations == [signed : SignedPreKeys, keys : Seq(Keys)]

\* Every variable has its type: identities maps identities to maps of devices
\* to registrations.
TypeOK ==
  /\ DOMAIN identities \subseteq Identities
  /\ \A i \in DOMAIN identities :
       /\ DOMAIN identities[i] \subseteq DeviceIds
       /\ identities[i] \in [DOMAIN identities[i] -> Registrations]
  /\ uploaded \in 0..MaxKeys
  /\ handed \in [Keys -> Nat]
  /\ DOMAIN identityKeyToNumber \subseteq Identities
  /\ DOMAIN numberToIdentityKey \subseteq Numbers

\* The operations agree on what is registered: PreKeysRemaining knows the devices
\* that AllRegisteredDevices lists, and answers ErrUnknownIdentity, as
\* RequestPreKeys does, exactly for the identities of which it lists none,
\* whatever devices were unregistered.
UnknownHasNoDevice ==
  \A i \in Identities, d \in DeviceIds :
    LET err == PreKeysRemaining(i, d)[2]
        listed == {e \in DeviceIds : <<i, e>> \in AllRegisteredDevices}
    IN  /\ err = "nil" <=> d \in listed
        /\ err = "ErrUnknownIdentity" <=> listed = {}

\* A one-time pre key is handed out at most once, and not while RequestPreKeys
\* can still find it with some device.
HandedOutOnce ==
  \A k \in Keys :
    LET keysOf(a) == identities[a[1]][a[2]].keys
        listed == {l \in Addresses \X Keys :
                     /\ Registered(l[1][1], l[1][2])
                     /\ l[2] <= Len(keysOf(l[1]))
                     /\ keysOf(l[1])[l[2]] = k}
    IN  handed[k] + Cardinality(listed) <= 1

\* The maps agree: the short number that FindChatNumberByIdentityKey returns
\* leads FindChatNumberByShortNumber back to the number returned with it.
LookupsAgree ==
  \A i \in DOMAIN identityKeyToNumber :
    LET found == FindChatNumberByIdentityKey(i)
    IN  FindChatNumberByShortNumber(found[2]) = found[1]

\* A device's entry in the two maps is its registration.
registrations == [a \in Addresses |->
  IF Registered(a[1], a[2]) THEN identities[a[1]][a[2]] ELSE None]

\* memdb keeps the promises of db.DB about keys: its steps are steps of the
\* directory.
Directory == INSTANCE KeyDirectory WITH
  Devices <- Addresses,
  dir <- registrations

ImplementsDirectory == Directory!DirSpec

numberOf == [i \in Identities |->
  IF i \in DOMAIN identityKeyToNumber THEN identityKeyToNumber[i] ELSE None]

\* memdb keeps the promise of db.DB about numbers.
NumbersOnce == INSTANCE NumberDirectory

ImplementsNumbers == NumbersOnce!NumbersSpec
=============================================================================
