--------------------------- MODULE KeyDirectory ---------------------------
(***************************************************************************)
(* What db.DB promises about the key material of devices, whatever keeps   *)
(* it: a directory of registrations, each with a signed pre key and a      *)
(* stack of one-time pre keys that are handed out one at a time.           *)
(***************************************************************************)
EXTENDS Naturals, Sequences

CONSTANTS
  Devices,        \* addresses: an identity key together with a device ID
  SignedPreKeys,
  None,
  MaxUpload,      \* bound: one-time pre keys in one Register
  MaxKeys         \* bound: one-time pre keys ever uploaded

VARIABLES
  dir,            \* per device its registration, or None
  uploaded,       \* the one-time pre keys 1..uploaded have been uploaded
  handed          \* how often each one-time pre key has been handed out

dirVars == <<dir, uploaded, handed>>

Registration == [signed : SignedPreKeys, keys : Seq(1..MaxKeys)]

DirInit ==
  /\ dir = [d \in Devices |-> None]
  /\ uploaded = 0
  /\ handed = [k \in 1..MaxKeys |-> 0]

\* A client never uploads a one-time pre key twice.
NewKeys(n) == [j \in 1..n |-> uploaded + j]

\* With the signed pre key that is on file the keys are added to those on
\* file; otherwise the registration is replaced.
DirRegister(d, spk, n) ==
  /\ uploaded + n <= MaxKeys
  /\ dir' = [dir EXCEPT ![d] =
       IF dir[d] # None /\ dir[d].signed = spk
       THEN [signed |-> spk, keys |-> dir[d].keys \o NewKeys(n)]
       ELSE [signed |-> spk, keys |-> NewKeys(n)]]
  /\ uploaded' = uploaded + n
  /\ UNCHANGED handed

DirUnregister(d) ==
  /\ dir' = [dir EXCEPT ![d] = None]
  /\ UNCHANGED <<uploaded, handed>>

\* The most recent key of every device in D that has one is handed out.
DirTake(D) ==
  LET last(d) == dir[d].keys[Len(dir[d].keys)]
      having == {d \in D : dir[d].keys # <<>>}
  IN  /\ \A d \in D : dir[d] # None
      /\ dir' = [d \in Devices |->
           IF d \notin having THEN dir[d]
           ELSE [dir[d] EXCEPT !.keys = SubSeq(@, 1, Len(@) - 1)]]
      /\ handed' = [k \in 1..MaxKeys |->
           handed[k] + (IF \E d \in having : last(d) = k THEN 1 ELSE 0)]
      /\ UNCHANGED uploaded

DirNext ==
  \/ \E d \in Devices :
       \/ \E spk \in SignedPreKeys, n \in 0..MaxUpload : DirRegister(d, spk, n)
       \/ DirUnregister(d)
  \/ \E D \in SUBSET Devices : DirTake(D)

DirSpec == DirInit /\ [][DirNext]_dirVars
=============================================================================
