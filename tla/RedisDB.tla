------------------------------ MODULE RedisDB ------------------------------
(***************************************************************************)
(* db/redisdb: registrations and pre keys in Redis.  Register and          *)
(* Unregister are atomic there (a transaction, a script).  RequestPreKeys  *)
(* reads the set of an identity's devices, and then pops a one-time pre    *)
(* key of each with one script call per device: other commands can come    *)
(* before each of these calls.                                             *)
(***************************************************************************)
EXTENDS Naturals, Sequences, FiniteSets

CONSTANTS
  Identities,
  Devices,        \* addresses
  IdentityOf,     \* the identity of each address
  SignedPreKeys,
  None,           \* nil
  Requests,       \* RequestPreKeys calls that run at the same time
  Repeats,        \* TRUE iff a device that is not registered may unregister
  MaxUpload,      \* bound: one-time pre keys in one Register
  MaxKeys         \* bound: one-time pre keys ever uploaded

Keys == 1..MaxKeys
\* What get_pre_key.lua returns.
PreKeys == [signed : SignedPreKeys \cup {None}, key : Keys \cup {None}]

\* nil is neither a key nor a record made of keys.
ASSUME NoneAssumption ==
  /\ None \notin SignedPreKeys
  /\ None \notin PreKeys
  /\ None \notin [signed : SignedPreKeys, keys : Seq(Keys)]

ASSUME KeyConstants ==
  /\ IdentityOf \in [Devices -> Identities]
  /\ Repeats \in BOOLEAN
  /\ MaxUpload \in Nat
  /\ MaxKeys \in Nat

VARIABLES
  devices,        \* identity->devices:{<identityKey>}
  signed,         \* signedPreKey of device:{<identityKey>}:<deviceId>
  otpk,           \* otpk:device:{...}: the list, its left end first
  uploaded,       \* the one-time pre keys 1..uploaded have been uploaded
  uploadedWith,   \* history: the signed pre key each came with
  handed,         \* history: how often each was popped
  pc,             \* where each request is, or how it ended
  left,           \* devices whose script call has not been executed
  result,         \* what the script returned per device
  throughout      \* history: devices asked for, registered since it began

store == <<devices, signed, otpk, uploaded, uploadedWith>>
request == <<pc, left, result, throughout>>
vars == <<store, handed, request>>

NoResult == [d \in Devices |-> None]

Init ==
  /\ devices = [i \in Identities |-> {}]
  /\ signed = [d \in Devices |-> None]
  /\ otpk = [d \in Devices |-> <<>>]
  /\ uploaded = 0
  /\ uploadedWith = [k \in Keys |-> None]
  /\ handed = [k \in Keys |-> 0]
  /\ pc = [r \in Requests |-> "idle"]
  /\ left = [r \in Requests |-> {}]
  /\ result = [r \in Requests |-> NoResult]
  /\ throughout = [r \in Requests |-> {}]

-----------------------------------------------------------------------------
\* A client never uploads a one-time pre key twice.
NewKeys(n) == [j \in 1..n |-> uploaded + j]

\* Mutant: RPUSH instead of LPUSH.
RPush(list, keys) == list \o keys

\* A list from its other end.
Reverse(list) == [j \in 1..Len(list) |-> list[Len(list) - j + 1]]

\* LPUSH adds one key after the other at the left end.
LPush(list, keys) == Reverse(keys) \o list

\* Mutant: the keys of the old signed pre key are not deleted.
RegisterKeeping(d, spk, n) ==
  /\ uploaded + n <= MaxKeys
  /\ devices' = [devices EXCEPT ![IdentityOf[d]] = @ \cup {d}]
  /\ signed' = [signed EXCEPT ![d] = spk]
  /\ otpk' = [otpk EXCEPT ![d] = LPush(@, NewKeys(n))]
  /\ uploaded' = uploaded + n
  /\ uploadedWith' = [k \in Keys |->
       IF k \in (uploaded + 1)..(uploaded + n) THEN spk ELSE uploadedWith[k]]
  /\ UNCHANGED <<handed, request>>

\* Mutant: SADD is given the identity and not the device.
RegisterIdentity(d, spk, n) ==
  /\ uploaded + n <= MaxKeys
  /\ devices' = [devices EXCEPT ![IdentityOf[d]] = @ \cup {IdentityOf[d]}]
  /\ signed' = [signed EXCEPT ![d] = spk]
  /\ UNCHANGED <<otpk, uploaded, uploadedWith, handed, request>>

\* register.lua and LPUSH, in one transaction.
Register(d, spk, n) ==
  /\ uploaded + n <= MaxKeys
  /\ devices' = [devices EXCEPT ![IdentityOf[d]] = @ \cup {d}]
  /\ signed' = [signed EXCEPT ![d] = spk]
  /\ otpk' = [otpk EXCEPT ![d] =
                LPush(IF spk # signed[d] THEN <<>> ELSE @, NewKeys(n))]
  /\ uploaded' = uploaded + n
  /\ uploadedWith' = [k \in Keys |->
       IF k \in (uploaded + 1)..(uploaded + n) THEN spk ELSE uploadedWith[k]]
  /\ UNCHANGED <<handed, request>>

\* Mutants: the device stays in the set; the set is deleted every time.
DeviceRemains(ds, d) == ds
NoDeviceRemains(ds, d) == {}

\* unregister.lua.
RemainingDevices(ds, d) == IF Cardinality(ds) = 1 THEN {} ELSE ds \ {d}

Unregister(d) ==
  /\ Repeats \/ signed[d] # None
  /\ devices' = [devices EXCEPT ![IdentityOf[d]] = RemainingDevices(@, d)]
  /\ signed' = [signed EXCEPT ![d] = None]
  /\ otpk' = [otpk EXCEPT ![d] = <<>>]
  /\ throughout' = [r \in Requests |-> throughout[r] \ {d}]
  /\ UNCHANGED <<uploaded, uploadedWith, handed, pc, left, result>>

-----------------------------------------------------------------------------
\* SMEMBERS; the request is for the devices that are not in knownDeviceIds.
\* Without any, no key is looked for and the answer is ErrUnknownIdentity.
RequestPreKeys(r, i, known) ==
  /\ pc[r] = "idle"
  /\ left' = [left EXCEPT ![r] = devices[i] \ known]
  /\ pc' = [pc EXCEPT ![r] =
              IF left'[r] = {} THEN "unknown_identity" ELSE "exec"]
  /\ throughout' = [throughout EXCEPT ![r] =
       {d \in Devices : IdentityOf[d] = i /\ signed[d] # None} \ known]
  /\ UNCHANGED <<store, handed, result>>

\* Mutant: the key is read with LINDEX and stays in the list.
getPreKeyPeeking(r, d) ==
  /\ pc[r] = "exec"
  /\ d \in left[r]
  /\ result' = [result EXCEPT ![r][d] =
       [signed |-> signed[d],
        key |-> IF otpk[d] = <<>> THEN None ELSE Head(otpk[d])]]
  /\ handed' = IF otpk[d] = <<>> THEN handed
               ELSE [handed EXCEPT ![Head(otpk[d])] = @ + 1]
  /\ left' = [left EXCEPT ![r] = @ \ {d}]
  /\ UNCHANGED <<store, pc, throughout>>

\* get_pre_key.lua, run for one device of the pipeline.
getPreKey(r, d) ==
  /\ pc[r] = "exec"
  /\ d \in left[r]
  /\ result' = [result EXCEPT ![r][d] =
       [signed |-> signed[d],
        key |-> IF otpk[d] = <<>> THEN None ELSE Head(otpk[d])]]
  /\ \/ /\ otpk[d] = <<>>
        /\ UNCHANGED <<otpk, handed>>
     \/ /\ otpk[d] # <<>>
        /\ otpk' = [otpk EXCEPT ![d] = Tail(@)]
        /\ handed' = [handed EXCEPT ![Head(otpk[d])] = @ + 1]
  /\ left' = [left EXCEPT ![r] = @ \ {d}]
  /\ UNCHANGED <<devices, signed, uploaded, uploadedWith, pc, throughout>>

\* The pipeline fails, whatever part of it was executed.
ExecError(r) ==
  /\ pc[r] = "exec"
  /\ pc' = [pc EXCEPT ![r] = "error"]
  /\ left' = [left EXCEPT ![r] = {}]
  /\ result' = [result EXCEPT ![r] = NoResult]
  /\ throughout' = [throughout EXCEPT ![r] = {}]
  /\ UNCHANGED <<store, handed>>

\* The pre keys are put together; a signed pre key that is nil is no string,
\* and the panic ends the server process (the requests may be those of
\* several servers on one Redis).
Collect(r) ==
  /\ pc[r] = "exec"
  /\ left[r] = {}
  /\ pc' = [pc EXCEPT ![r] =
       IF \E d \in Devices : result[r][d] # None /\ result[r][d].signed = None
       THEN "panic" ELSE "keys"]
  /\ UNCHANGED <<store, handed, left, result, throughout>>

\* The handler sends the answer, and the connection can ask again.
Answer(r) ==
  /\ pc[r] \in {"keys", "unknown_identity", "error"}
  /\ pc' = [pc EXCEPT ![r] = "idle"]
  /\ left' = [left EXCEPT ![r] = {}]
  /\ result' = [result EXCEPT ![r] = NoResult]
  /\ throughout' = [throughout EXCEPT ![r] = {}]
  /\ UNCHANGED <<store, handed>>

\* The number and the error of PreKeysRemaining: EXISTS and LLEN.
PreKeysRemaining(d) ==
  IF signed[d] = None THEN <<0, "ErrUnknownDevice">> ELSE <<Len(otpk[d]), "nil">>

\* KEYS of the devices.
AllRegisteredDevices == {d \in Devices : signed[d] # None}

Next ==
  \/ \E d \in Devices :
       \/ \E spk \in SignedPreKeys, n \in 0..MaxUpload : Register(d, spk, n)
       \/ Unregister(d)
  \/ \E r \in Requests :
       \/ \E i \in Identities, known \in SUBSET Devices :
            RequestPreKeys(r, i, known)
       \/ \E d \in Devices : getPreKey(r, d)
       \/ ExecError(r)
       \/ Collect(r)
       \/ Answer(r)

Spec == Init /\ [][Next]_vars

-----------------------------------------------------------------------------
(***************************************************************************)
(* Properties.                                                             *)
(***************************************************************************)

\* Every variable has its type.
TypeOK ==
  /\ devices \in [Identities -> SUBSET Devices]
  /\ signed \in [Devices -> SignedPreKeys \cup {None}]
  /\ otpk \in [Devices -> Seq(Keys)]
  /\ uploaded \in 0..MaxKeys
  /\ uploadedWith \in [Keys -> SignedPreKeys \cup {None}]
  /\ handed \in [Keys -> Nat]
  /\ pc \in [Requests -> {"idle", "exec", "keys", "unknown_identity", "error",
                          "panic"}]
  /\ left \in [Requests -> SUBSET Devices]
  /\ result \in [Requests -> [Devices -> PreKeys \cup {None}]]
  /\ throughout \in [Requests -> SUBSET Devices]

\* "identity->devices - a Set of all of an identity's registered devices": after
\* any Register and Unregister calls the sets hold the devices that
\* AllRegisteredDevices returns, and a device that is unknown to
\* PreKeysRemaining has left no one-time pre keys behind.
DeviceSetComplete ==
  /\ \A i \in Identities :
       devices[i] = {d \in AllRegisteredDevices : IdentityOf[d] = i}
  /\ \A d \in Devices :
       PreKeysRemaining(d)[2] = "ErrUnknownDevice" => otpk[d] = <<>>

\* RequestPreKeys answers "for all registered devices for the given
\* identityKey except those listed in knownDeviceIds": a device registered
\* from the beginning to the end of the request is in the answer, and the
\* identity is reported unknown only if there is no such device.
RequestComplete ==
  \A r \in Requests :
    /\ pc[r] = "keys" => \A d \in throughout[r] : result[r][d] # None
    /\ pc[r] = "unknown_identity" => throughout[r] = {}

\* A one-time pre key is handed out at most once, and not while it can still
\* be popped again, whatever requests run at the same time.
HandedOutOnce ==
  \A k \in Keys :
    LET listed == {l \in Devices \X Keys :
                     l[2] <= Len(otpk[l[1]]) /\ otpk[l[1]][l[2]] = k}
    IN  handed[k] + Cardinality(listed) <= 1

\* The two keys of a pre key belong together: the one-time pre key was
\* uploaded with the signed pre key it is sent with, although Register can
\* replace both at any moment.
KeysBelongTogether ==
  \A r \in Requests, d \in Devices :
    result[r][d] # None /\ result[r][d].key # None =>
      uploadedWith[result[r][d].key] = result[r][d].signed

\* "If an error is encountered while processing the message, the server will
\* respond with an Error": no request ends in a panic of its handler.
RequestAnswered == \A r \in Requests : pc[r] # "panic"

\* The registrations, with the one-time pre keys in the order of their upload.
registrations == [d \in Devices |->
  IF signed[d] = None THEN None
  ELSE [signed |-> signed[d], keys |-> Reverse(otpk[d])]]

\* redisdb keeps the promises of db.DB: seen through this mapping, its steps
\* are steps of the directory, with keys handed out last in first out.
Directory == INSTANCE KeyDirectory WITH dir <- registrations

ImplementsDirectory == Directory!DirSpec
=============================================================================
