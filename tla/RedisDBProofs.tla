--------------------------- MODULE RedisDBProofs ----------------------------
(***************************************************************************)
(* Theorems about RedisDB, for any devices, keys, requests and bounds.     *)
(***************************************************************************)
EXTENDS RedisDB, TLAPS, FiniteSetTheorems

\* What an action does to the variables is in these definitions.
USE DEF vars, store, request

-----------------------------------------------------------------------------
(***************************************************************************)
(* The list of a device's one-time pre keys.                               *)
(***************************************************************************)

\* Sequences with the same elements at the same places are the same.
LEMMA SameSequence ==
  ASSUME NEW S, NEW a \in Seq(S), NEW b \in Seq(S), Len(a) = Len(b),
         \A j \in 1..Len(a) : a[j] = b[j]
  PROVE  a = b
  OBVIOUS

\* A list read from its other end.
LEMMA Reversed ==
  ASSUME NEW S, NEW a \in Seq(S)
  PROVE  /\ Reverse(a) \in Seq(S)
         /\ Len(Reverse(a)) = Len(a)
         /\ \A j \in 1..Len(a) : Reverse(a)[j] = a[Len(a) - j + 1]
<1>1. Len(a) \in Nat /\ \A j \in 1..Len(a) : Len(a) - j + 1 \in 1..Len(a) /\ a[j] \in S
  OBVIOUS
<1>2. Reverse(a) = [j \in 1..Len(a) |-> a[(Len(a) - j) + 1]]
  BY DEF Reverse
<1> QED BY <1>1, <1>2

\* Two lists one behind the other.
LEMMA Joined ==
  ASSUME NEW S, NEW a \in Seq(S), NEW b \in Seq(S)
  PROVE  /\ a \o b \in Seq(S)
         /\ Len(a \o b) = Len(a) + Len(b)
         /\ \A j \in 1..Len(a) : (a \o b)[j] = a[j]
         /\ \A j \in 1..Len(b) : (a \o b)[Len(a) + j] = b[j]
  OBVIOUS

\* What LPUSH and register.lua leave in the list: the new keys, the last one
\* first, before those that were there.
LEMMA Pushed ==
  ASSUME NEW list \in Seq(Keys), NEW n \in Nat, uploaded \in Nat,
         uploaded + n <= MaxKeys
  PROVE  LET new == LPush(list, NewKeys(n))
         IN  /\ NewKeys(n) \in Seq(Keys)
             /\ new \in Seq(Keys)
             /\ Len(new) = n + Len(list)
             /\ \A j \in 1..n : new[j] = uploaded + (n - j + 1)
             /\ \A j \in 1..Len(list) : new[n + j] = list[j]
<1>1. /\ NewKeys(n) \in Seq(Keys)
      /\ Len(NewKeys(n)) = n
      /\ \A j \in 1..n : NewKeys(n)[j] = uploaded + j
  BY KeyConstants DEF NewKeys, Keys
<1>2. /\ Reverse(NewKeys(n)) \in Seq(Keys)
      /\ Len(Reverse(NewKeys(n))) = n
      /\ \A j \in 1..n : Reverse(NewKeys(n))[j] = NewKeys(n)[n - j + 1]
  <2> DEFINE keys == NewKeys(n)
  <2> HIDE DEF keys
  <2>1. keys \in Seq(Keys) /\ Len(keys) = n
    BY <1>1 DEF keys
  <2>2. /\ Reverse(keys) \in Seq(Keys)
        /\ Len(Reverse(keys)) = Len(keys)
        /\ \A j \in 1..Len(keys) : Reverse(keys)[j] = keys[Len(keys) - j + 1]
    BY ONLY <2>1, Reversed, Zenon
  <2> QED BY <2>1, <2>2 DEF keys
<1>3. \A j \in 1..n : n - j + 1 \in 1..n
  OBVIOUS
<1>4. \A j \in 1..n : Reverse(NewKeys(n))[j] = uploaded + (n - j + 1)
  BY <1>1, <1>2, <1>3
<1> DEFINE fresh == Reverse(NewKeys(n))
<1> HIDE DEF fresh
<1>5. /\ fresh \in Seq(Keys) /\ Len(fresh) = n
      /\ \A j \in 1..n : fresh[j] = uploaded + (n - j + 1)
  BY <1>2, <1>4 DEF fresh
<1>6. LET new == fresh \o list
      IN  /\ new \in Seq(Keys)
          /\ Len(new) = n + Len(list)
          /\ \A j \in 1..n : new[j] = uploaded + (n - j + 1)
          /\ \A j \in 1..Len(list) : new[n + j] = list[j]
  <2>1. fresh \in Seq(Keys)
    BY <1>5
  <2>2. /\ fresh \o list \in Seq(Keys)
        /\ Len(fresh \o list) = Len(fresh) + Len(list)
        /\ \A j \in 1..Len(fresh) : (fresh \o list)[j] = fresh[j]
        /\ \A j \in 1..Len(list) : (fresh \o list)[Len(fresh) + j] = list[j]
    BY ONLY list \in Seq(Keys), <2>1, Joined
  <2> QED BY ONLY <1>5, <2>2
<1> QED BY <1>1, <1>6 DEF fresh, LPush

-----------------------------------------------------------------------------
(***************************************************************************)
(* Type correctness.                                                       *)
(***************************************************************************)

\* The types of what is in Redis, and of the requests.
StoreOK ==
  /\ devices \in [Identities -> SUBSET Devices]
  /\ signed \in [Devices -> SignedPreKeys \cup {None}]
  /\ otpk \in [Devices -> Seq(Keys)]
  /\ uploaded \in 0..MaxKeys
  /\ uploadedWith \in [Keys -> SignedPreKeys \cup {None}]
  /\ handed \in [Keys -> Nat]

RequestsOK ==
  /\ pc \in [Requests -> {"idle", "exec", "keys", "unknown_identity", "error", "panic"}]
  /\ left \in [Requests -> SUBSET Devices]
  /\ result \in [Requests -> [Devices -> PreKeys \cup {None}]]
  /\ throughout \in [Requests -> SUBSET Devices]

\* Together they are TypeOK.
LEMMA TypeGroups == TypeOK <=> StoreOK /\ RequestsOK
  BY Zenon DEF TypeOK, StoreOK, RequestsOK

\* Single types, for steps that need no other.
LEMMA Typed ==
  ASSUME TypeOK
  PROVE  /\ signed \in [Devices -> SignedPreKeys \cup {None}]
         /\ otpk \in [Devices -> Seq(Keys)]
         /\ uploaded \in Nat
         /\ handed \in [Keys -> Nat]
<1>1. /\ signed \in [Devices -> SignedPreKeys \cup {None}]
      /\ otpk \in [Devices -> Seq(Keys)]
      /\ uploaded \in 0..MaxKeys
      /\ handed \in [Keys -> Nat]
  BY Zenon DEF TypeOK
<1>2. uploaded \in Nat
  BY ONLY <1>1, KeyConstants
<1> QED BY ONLY <1>1, <1>2

\* The type of what the requests have gathered.
LEMMA ResultTyped ==
  ASSUME TypeOK
  PROVE  result \in [Requests -> [Devices -> PreKeys \cup {None}]]
  BY Zenon DEF TypeOK

\* What Register does to everything but the lists.
LEMMA RegisterNumbers ==
  ASSUME TypeOK, NEW d \in Devices, NEW spk \in SignedPreKeys, NEW n \in 0..MaxUpload,
         Register(d, spk, n)
  PROVE  /\ uploaded \in Nat /\ n \in Nat /\ uploaded + n <= MaxKeys
         /\ uploaded' = uploaded + n
         /\ signed' = [signed EXCEPT ![d] = spk]
         /\ uploadedWith' = [k \in Keys |->
              IF k \in (uploaded + 1)..(uploaded + n) THEN spk ELSE uploadedWith[k]]
         /\ UNCHANGED <<handed, pc, left, result, throughout>>
<1>1. /\ uploaded + n <= MaxKeys /\ uploaded' = uploaded + n
      /\ signed' = [signed EXCEPT ![d] = spk]
      /\ uploadedWith' = [k \in Keys |->
           IF k \in (uploaded + 1)..(uploaded + n) THEN spk ELSE uploadedWith[k]]
      /\ UNCHANGED <<handed, request>>
  BY Zenon DEF Register
<1>2. uploaded \in Nat /\ n \in Nat
  BY KeyConstants, Typed
<1> QED BY ONLY <1>1, <1>2 DEF request

\* Every step keeps the types.
LEMMA TypeStep == TypeOK /\ [Next]_vars => TypeOK'
<1> SUFFICES ASSUME TypeOK, [Next]_vars PROVE StoreOK' /\ RequestsOK'
  <2>1. (TypeOK <=> StoreOK /\ RequestsOK)'
    BY Zenon DEF TypeOK, StoreOK, RequestsOK
  <2> QED BY <2>1
<1>0. StoreOK /\ RequestsOK
  BY TypeGroups
<1>1. ASSUME NEW d \in Devices, NEW spk \in SignedPreKeys, NEW n \in 0..MaxUpload,
             Register(d, spk, n)
      PROVE  StoreOK' /\ RequestsOK'
  <2> DEFINE base == IF spk # signed[d] THEN <<>> ELSE otpk[d]
  <2>1. base \in Seq(Keys)
    BY Typed
  <2>2. /\ uploaded \in Nat /\ n \in Nat /\ uploaded + n <= MaxKeys
        /\ uploaded' = uploaded + n
        /\ signed' = [signed EXCEPT ![d] = spk]
        /\ uploadedWith' = [k \in Keys |->
             IF k \in (uploaded + 1)..(uploaded + n) THEN spk ELSE uploadedWith[k]]
        /\ UNCHANGED <<handed, pc, left, result, throughout>>
    BY <1>1, RegisterNumbers
  <2>3. /\ devices' = [devices EXCEPT ![IdentityOf[d]] = devices[IdentityOf[d]] \cup {d}]
        /\ otpk' = [otpk EXCEPT ![d] = LPush(base, NewKeys(n))]
    BY <1>1, Zenon DEF Register
  <2> HIDE DEF base
  <2>4. LPush(base, NewKeys(n)) \in Seq(Keys)
    BY <2>1, <2>2, Pushed
  <2>5. otpk' \in [Devices -> Seq(Keys)]
    BY <2>3, <2>4, Typed
  <2>6. devices' \in [Identities -> SUBSET Devices]
    BY <1>0, <2>3, Zenon DEF StoreOK
  <2>7. uploaded' \in 0..MaxKeys
    BY <2>2, KeyConstants
  <2>8. uploadedWith' \in [Keys -> SignedPreKeys \cup {None}]
    BY <1>0, <2>2 DEF StoreOK
  <2>9. signed' \in [Devices -> SignedPreKeys \cup {None}]
    BY <2>2, Typed
  <2>10. RequestsOK' /\ handed' \in [Keys -> Nat]
    BY <1>0, <2>2 DEF RequestsOK, StoreOK
  <2> QED BY <2>5, <2>6, <2>7, <2>8, <2>9, <2>10 DEF StoreOK
<1>2. ASSUME NEW d \in Devices, Unregister(d) PROVE StoreOK' /\ RequestsOK'
  <2>1. /\ devices' = [devices EXCEPT ![IdentityOf[d]] =
                         RemainingDevices(devices[IdentityOf[d]], d)]
        /\ signed' = [signed EXCEPT ![d] = None]
        /\ otpk' = [otpk EXCEPT ![d] = <<>>]
        /\ throughout' = [r \in Requests |-> throughout[r] \ {d}]
        /\ UNCHANGED <<uploaded, uploadedWith, handed, pc, left, result>>
    BY <1>2 DEF Unregister
  <2>2. RemainingDevices(devices[IdentityOf[d]], d) \subseteq devices[IdentityOf[d]]
    BY DEF RemainingDevices
  <2>3. devices' \in [Identities -> SUBSET Devices]
    BY <1>0, <2>1, <2>2, Zenon DEF StoreOK
  <2>4. RequestsOK'
    BY <1>0, <2>1 DEF RequestsOK
  <2> QED BY <1>0, <2>1, <2>3, <2>4 DEF StoreOK
<1>3. ASSUME NEW r \in Requests, UNCHANGED <<store, handed>>, RequestsOK'
      PROVE  StoreOK' /\ RequestsOK'
  BY <1>0, <1>3 DEF StoreOK, store
<1>4. ASSUME NEW r \in Requests, NEW i \in Identities, NEW known \in SUBSET Devices,
             RequestPreKeys(r, i, known)
      PROVE  StoreOK' /\ RequestsOK'
  <2>1. /\ left' = [left EXCEPT ![r] = devices[i] \ known]
        /\ pc' = [pc EXCEPT ![r] =
                    IF left'[r] = {} THEN "unknown_identity" ELSE "exec"]
        /\ throughout' = [throughout EXCEPT ![r] =
             {d \in Devices : IdentityOf[d] = i /\ signed[d] # None} \ known]
        /\ UNCHANGED <<store, handed, result>>
    BY <1>4, Zenon DEF RequestPreKeys
  <2>2. devices[i] \ known \subseteq Devices
    BY <1>0 DEF StoreOK
  <2>3. RequestsOK'
    BY <1>0, <2>1, <2>2 DEF RequestsOK
  <2> QED BY <1>3, <2>1, <2>3
<1>5. ASSUME NEW r \in Requests, NEW d \in Devices, getPreKey(r, d)
      PROVE  StoreOK' /\ RequestsOK'
  <2> DEFINE pre == [signed |-> signed[d],
                     key |-> IF otpk[d] = <<>> THEN None ELSE Head(otpk[d])]
  <2>1. /\ result' = [result EXCEPT ![r][d] = pre]
        /\ left' = [left EXCEPT ![r] = left[r] \ {d}]
        /\ UNCHANGED <<devices, signed, uploaded, uploadedWith, pc, throughout>>
    BY <1>5, Zenon DEF getPreKey
  <2>2. otpk[d] \in Seq(Keys)
    BY Typed
  <2>3. otpk[d] # <<>> => Head(otpk[d]) \in Keys /\ Tail(otpk[d]) \in Seq(Keys)
    BY <2>2
  <2>4. otpk' \in [Devices -> Seq(Keys)] /\ handed' \in [Keys -> Nat]
    <3>1. CASE UNCHANGED <<otpk, handed>>
      BY <3>1, Typed
    <3>2. CASE /\ otpk[d] # <<>>
               /\ otpk' = [otpk EXCEPT ![d] = Tail(otpk[d])]
               /\ handed' = [handed EXCEPT ![Head(otpk[d])] = handed[Head(otpk[d])] + 1]
      BY <2>3, <3>2, Typed
    <3> QED BY <1>5, <3>1, <3>2 DEF getPreKey
  <2>5. pre \in PreKeys
    BY <2>3, Typed DEF PreKeys
  <2> HIDE DEF pre
  <2>6. result' \in [Requests -> [Devices -> PreKeys \cup {None}]]
    BY <2>1, <2>5, ResultTyped
  <2>7. RequestsOK'
    BY <1>0, <2>1, <2>6 DEF RequestsOK
  <2> QED BY <1>0, <2>1, <2>4, <2>7 DEF StoreOK
<1>6. ASSUME NEW r \in Requests, ExecError(r) \/ Answer(r) PROVE StoreOK' /\ RequestsOK'
  <2>1. NoResult \in [Devices -> PreKeys \cup {None}]
    BY DEF NoResult
  <2>2. /\ \/ pc' = [pc EXCEPT ![r] = "error"]
           \/ pc' = [pc EXCEPT ![r] = "idle"]
        /\ left' = [left EXCEPT ![r] = {}]
        /\ result' = [result EXCEPT ![r] = NoResult]
        /\ throughout' = [throughout EXCEPT ![r] = {}]
        /\ UNCHANGED <<store, handed>>
    BY <1>6, Zenon DEF ExecError, Answer
  <2>3. RequestsOK'
    BY <1>0, <2>1, <2>2, Zenon DEF RequestsOK
  <2> QED BY <1>3, <2>2, <2>3
<1>7. ASSUME NEW r \in Requests, Collect(r) PROVE StoreOK' /\ RequestsOK'
  <2>1. /\ \/ pc' = [pc EXCEPT ![r] = "panic"]
           \/ pc' = [pc EXCEPT ![r] = "keys"]
        /\ UNCHANGED <<store, handed, left, result, throughout>>
    BY <1>7, Zenon DEF Collect
  <2>2. RequestsOK'
    BY <1>0, <2>1 DEF RequestsOK
  <2> QED BY <1>3, <2>1, <2>2
<1>8. CASE UNCHANGED vars
  BY <1>0, <1>8 DEF StoreOK, RequestsOK
<1> QED BY <1>1, <1>2, <1>4, <1>5, <1>6, <1>7, <1>8 DEF Next

\* Redis holds what redisdb writes to it, and a request what the scripts
\* return.
THEOREM TypeCorrect == Spec => []TypeOK
<1>1. Init => TypeOK
  <2> SUFFICES ASSUME Init PROVE StoreOK /\ RequestsOK
    BY TypeGroups
  <2>1. <<>> \in Seq(Keys) /\ 0 \in 0..MaxKeys
    BY KeyConstants
  <2>2. StoreOK
    BY <2>1 DEF Init, StoreOK
  <2>3. RequestsOK
    BY DEF Init, RequestsOK, NoResult
  <2> QED BY <2>2, <2>3
<1>2. TypeOK /\ [Next]_vars => TypeOK'
  BY TypeStep
<1> QED BY <1>1, <1>2, PTL DEF Spec

-----------------------------------------------------------------------------
(***************************************************************************)
(* The life of a one-time pre key.  HandedOutOnce and KeysBelongTogether   *)
(* are not inductive: they rest on where keys that are not handed out yet  *)
(* are, and on what has not been uploaded yet being nowhere.               *)
(***************************************************************************)

\* A key in a list has been uploaded with the signed pre key on file, and not
\* handed out.
ListInv ==
  \A d \in Devices : \A j \in 1..Len(otpk[d]) :
    /\ otpk[d][j] <= uploaded
    /\ handed[otpk[d][j]] = 0
    /\ uploadedWith[otpk[d][j]] = signed[d]

\* It is in no other list, and not twice in its own.
OnceListed ==
  \A d, e \in Devices : \A j \in 1..Len(otpk[d]), l \in 1..Len(otpk[e]) :
    otpk[d][j] = otpk[e][l] => d = e /\ j = l

\* A key is handed out once, after it was uploaded.
HandedInv ==
  \A k \in Keys : handed[k] <= 1 /\ (uploaded < k => handed[k] = 0)

\* A request has a key that was uploaded with the signed pre key it has.
ResultInv ==
  \A r \in Requests, d \in Devices :
    result[r][d] # None /\ result[r][d].key # None =>
      /\ result[r][d].key <= uploaded
      /\ uploadedWith[result[r][d].key] = result[r][d].signed

\* Unregistering leaves no keys behind.
NoKeysLeft == \A d \in Devices : signed[d] = None => otpk[d] = <<>>

KeyInv == ListInv /\ OnceListed /\ HandedInv /\ ResultInv /\ NoKeysLeft

\* What Register does to the lists: the list of d starts with the new keys and
\* ends with those that stay, the others are as they were.
LEMMA RegisterLists ==
  ASSUME TypeOK, KeyInv, NEW d \in Devices, NEW spk \in SignedPreKeys,
         NEW n \in 0..MaxUpload, Register(d, spk, n)
  PROVE  /\ Len(otpk'[d]) \in Nat
         /\ \A j \in 1..Len(otpk'[d]) :
              \/ j <= n /\ otpk'[d][j] = uploaded + (n - j + 1)
              \/ /\ spk = signed[d]
                 /\ j - n \in 1..Len(otpk[d])
                 /\ otpk'[d][j] = otpk[d][j - n]
         /\ \A e \in Devices \ {d} : otpk'[e] = otpk[e]
<1> DEFINE base == IF spk # signed[d] THEN <<>> ELSE otpk[d]
<1>1. otpk \in [Devices -> Seq(Keys)]
  BY Typed
<1>2. uploaded \in Nat /\ n \in Nat /\ uploaded + n <= MaxKeys
  BY RegisterNumbers
<1>3. otpk' = [otpk EXCEPT ![d] = LPush(base, NewKeys(n))]
  BY Zenon DEF Register
<1>4. base \in Seq(Keys) /\ Len(base) \in Nat
  BY <1>1
<1>5. \A j \in 1..Len(base) : spk = signed[d] /\ j \in 1..Len(otpk[d]) /\ base[j] = otpk[d][j]
  BY <1>1
<1> HIDE DEF base
<1> DEFINE new == LPush(base, NewKeys(n))
<1>6. /\ Len(new) = n + Len(base)
      /\ \A j \in 1..n : new[j] = uploaded + (n - j + 1)
      /\ \A j \in 1..Len(base) : new[n + j] = base[j]
  BY <1>2, <1>4, Pushed, Zenon
<1>7. otpk'[d] = new /\ \A e \in Devices \ {d} : otpk'[e] = otpk[e]
  BY <1>1, <1>3
<1> HIDE DEF new
<1>8. ASSUME NEW j \in 1..Len(new)
      PROVE  \/ j <= n /\ new[j] = uploaded + (n - j + 1)
             \/ /\ spk = signed[d]
                /\ j - n \in 1..Len(otpk[d])
                /\ new[j] = otpk[d][j - n]
  <2>1. CASE j <= n
    BY <1>2, <1>4, <1>6, <2>1
  <2>2. CASE ~(j <= n)
    <3>1. j - n \in 1..Len(base) /\ n + (j - n) = j
      BY <1>2, <1>4, <1>6, <2>2
    <3>2. new[j] = base[j - n]
      BY <1>6, <3>1
    <3> QED BY <1>5, <3>1, <3>2
  <2> QED BY <2>1, <2>2
<1>9. Len(new) \in Nat
  BY <1>2, <1>4, <1>6
<1> QED BY <1>7, <1>8, <1>9

\* Register keeps the invariant: new keys are those that have not been
\* uploaded, and keys that were uploaded with another signed pre key go.
LEMMA RegisterKeys ==
  ASSUME TypeOK, TypeOK', KeyInv, NEW d \in Devices, NEW spk \in SignedPreKeys,
         NEW n \in 0..MaxUpload, Register(d, spk, n)
  PROVE  KeyInv'
<1>1. /\ uploaded \in Nat /\ n \in Nat /\ uploaded + n <= MaxKeys
      /\ uploaded' = uploaded + n
  BY RegisterNumbers
<1>2. /\ signed'[d] = spk
      /\ \A e \in Devices \ {d} : signed'[e] = signed[e]
      /\ UNCHANGED <<handed, result>>
  <2>1. signed' = [signed EXCEPT ![d] = spk] /\ UNCHANGED <<handed, result>>
    BY RegisterNumbers
  <2>2. signed \in [Devices -> SignedPreKeys \cup {None}]
    BY Typed
  <2> QED BY ONLY d \in Devices, <2>1, <2>2
<1>3. ASSUME NEW k \in Keys
      PROVE  /\ k <= uploaded => uploadedWith'[k] = uploadedWith[k]
             /\ uploaded < k /\ k <= uploaded + n => uploadedWith'[k] = spk
  <2>1. uploadedWith' = [x \in Keys |->
          IF x \in (uploaded + 1)..(uploaded + n) THEN spk ELSE uploadedWith[x]]
    BY RegisterNumbers
  <2>2. k \in Nat
    BY DEF Keys
  <2> QED BY ONLY k \in Keys, <1>1, <2>1, <2>2
<1>4. \A e \in Devices : \A j \in 1..Len(otpk[e]) : otpk[e][j] \in Keys /\ otpk[e][j] \in Nat
  <2>1. \A e \in Devices : otpk[e] \in Seq(Keys)
    BY Typed
  <2>2. \A k \in Keys : k \in Nat
    BY DEF Keys
  <2> QED BY <2>1, <2>2
<1>5. \A e \in Devices : \A j \in 1..Len(otpk'[e]) : otpk'[e][j] \in Keys
  <2>1. otpk' \in [Devices -> Seq(Keys)]
    BY Zenon DEF TypeOK
  <2> QED BY ONLY <2>1
<1>6. /\ Len(otpk'[d]) \in Nat
      /\ \A j \in 1..Len(otpk'[d]) :
           \/ j <= n /\ otpk'[d][j] = uploaded + (n - j + 1)
           \/ /\ spk = signed[d]
              /\ j - n \in 1..Len(otpk[d])
              /\ otpk'[d][j] = otpk[d][j - n]
      /\ \A e \in Devices \ {d} : otpk'[e] = otpk[e]
  BY RegisterLists
<1>7. ListInv'
  <2> SUFFICES ASSUME NEW e \in Devices, NEW j \in 1..Len(otpk'[e])
               PROVE  /\ otpk'[e][j] <= uploaded'
                      /\ handed'[otpk'[e][j]] = 0
                      /\ uploadedWith'[otpk'[e][j]] = signed'[e]
    BY DEF ListInv
  <2>1. ASSUME NEW f \in Devices, NEW l \in 1..Len(otpk[f]), otpk'[e][j] = otpk[f][l],
               signed'[e] = signed[f]
        PROVE  /\ otpk'[e][j] <= uploaded'
               /\ handed'[otpk'[e][j]] = 0
               /\ uploadedWith'[otpk'[e][j]] = signed'[e]
    <3>1. /\ otpk[f][l] <= uploaded /\ handed[otpk[f][l]] = 0
          /\ uploadedWith[otpk[f][l]] = signed[f]
      BY DEF KeyInv, ListInv
    <3>2. otpk[f][l] \in Keys /\ otpk[f][l] \in Nat
      BY <1>4
    <3>3. uploadedWith'[otpk[f][l]] = uploadedWith[otpk[f][l]]
      BY <1>3, <3>1, <3>2
    <3>4. otpk[f][l] <= uploaded'
      BY <1>1, <3>1, <3>2
    <3> QED BY <1>2, <2>1, <3>1, <3>3, <3>4
  <2>2. CASE e # d
    BY <1>2, <1>6, <2>1, <2>2
  <2>3. CASE e = d /\ j <= n /\ otpk'[d][j] = uploaded + (n - j + 1)
    <3>1. uploaded < otpk'[e][j] /\ otpk'[e][j] <= uploaded + n
      BY <1>1, <1>6, <2>3
    <3>2. otpk'[e][j] \in Keys
      BY <1>5
    <3>3. handed[otpk'[e][j]] = 0
      BY <3>1, <3>2 DEF KeyInv, HandedInv
    <3>4. uploadedWith'[otpk'[e][j]] = spk
      BY <1>3, <3>1, <3>2
    <3> QED BY <1>1, <1>2, <2>3, <3>1, <3>3, <3>4
  <2>4. CASE /\ e = d /\ spk = signed[d]
             /\ j - n \in 1..Len(otpk[d])
             /\ otpk'[d][j] = otpk[d][j - n]
    BY <1>2, <2>1, <2>4
  <2> QED BY <1>6, <2>2, <2>3, <2>4
<1>8. OnceListed'
  <2> SUFFICES ASSUME NEW e \in Devices, NEW f \in Devices,
                      NEW j \in 1..Len(otpk'[e]), NEW l \in 1..Len(otpk'[f]),
                      otpk'[e][j] = otpk'[f][l]
               PROVE  e = f /\ j = l
    BY DEF OnceListed
  <2>1. \A g, h \in Devices : \A a \in 1..Len(otpk[g]), b \in 1..Len(otpk[h]) :
          otpk[g][a] = otpk[h][b] => g = h /\ a = b
    BY DEF KeyInv, OnceListed
  <2>2. \A g \in Devices : \A a \in 1..Len(otpk[g]) :
          otpk[g][a] \in Nat /\ otpk[g][a] <= uploaded
    BY <1>4 DEF KeyInv, ListInv
  <2>3. CASE e # d /\ f # d
    <3>1. otpk'[e] = otpk[e] /\ otpk'[f] = otpk[f]
      BY <1>6, <2>3
    <3> QED BY <2>1, <3>1
  <2>4. ASSUME NEW g \in Devices \ {d}, NEW a \in 1..Len(otpk'[d]),
               NEW b \in 1..Len(otpk'[g]), otpk'[d][a] = otpk'[g][b]
        PROVE  FALSE
    <3>1. otpk'[g] = otpk[g]
      BY <1>6
    <3>2. otpk[g][b] \in Nat /\ otpk[g][b] <= uploaded
      BY <2>2, <3>1
    <3>3. CASE a <= n /\ otpk'[d][a] = uploaded + (n - a + 1)
      BY <1>1, <1>6, <2>4, <3>1, <3>2, <3>3
    <3>4. CASE a - n \in 1..Len(otpk[d]) /\ otpk'[d][a] = otpk[d][a - n]
      BY <2>1, <2>4, <3>1, <3>4
    <3> QED BY <1>6, <3>3, <3>4
  <2>5. CASE e = d /\ f = d
    <3>0. j \in Nat /\ l \in Nat
      BY <1>6, <2>5
    <3>1. CASE j <= n /\ otpk'[d][j] = uploaded + (n - j + 1)
      <4>1. CASE l <= n /\ otpk'[d][l] = uploaded + (n - l + 1)
        BY <1>1, <2>5, <3>0, <3>1, <4>1
      <4>2. CASE l - n \in 1..Len(otpk[d]) /\ otpk'[d][l] = otpk[d][l - n]
        <5>1. otpk[d][l - n] \in Nat /\ otpk[d][l - n] <= uploaded
          BY <2>2, <4>2
        <5>2. otpk'[d][j] = otpk'[d][l]
          BY <2>5
        <5> QED BY ONLY <1>1, <3>0, <3>1, <4>2, <5>1, <5>2
      <4> QED BY <1>6, <2>5, <4>1, <4>2
    <3>2. CASE j - n \in 1..Len(otpk[d]) /\ otpk'[d][j] = otpk[d][j - n]
      <4>1. CASE l <= n /\ otpk'[d][l] = uploaded + (n - l + 1)
        <5>1. otpk[d][j - n] \in Nat /\ otpk[d][j - n] <= uploaded
          BY <2>2, <3>2
        <5>2. otpk'[d][j] = otpk'[d][l]
          BY <2>5
        <5> QED BY ONLY <1>1, <3>0, <3>2, <4>1, <5>1, <5>2
      <4>2. CASE l - n \in 1..Len(otpk[d]) /\ otpk'[d][l] = otpk[d][l - n]
        <5>1. j - n = l - n
          BY <2>1, <2>5, <3>2, <4>2
        <5> QED BY <1>1, <2>5, <3>0, <5>1
      <4> QED BY <1>6, <2>5, <4>1, <4>2
    <3> QED BY <1>6, <2>5, <3>1, <3>2
  <2> QED BY <2>3, <2>4, <2>5
<1>9. HandedInv'
  BY <1>1, <1>2 DEF KeyInv, HandedInv, Keys
<1>10. ResultInv'
  <2> SUFFICES ASSUME NEW r \in Requests, NEW e \in Devices,
                      result[r][e] # None, result[r][e].key # None
               PROVE  /\ result[r][e].key <= uploaded'
                      /\ uploadedWith'[result[r][e].key] = result[r][e].signed
    BY <1>2 DEF ResultInv
  <2>1. result[r][e].key \in Keys /\ result[r][e].key \in Nat
    <3>1. result[r][e] \in PreKeys
      BY ResultTyped
    <3> QED BY <3>1 DEF PreKeys, Keys
  <2>2. /\ result[r][e].key <= uploaded
        /\ uploadedWith[result[r][e].key] = result[r][e].signed
    BY DEF KeyInv, ResultInv
  <2> QED BY <1>1, <1>3, <2>1, <2>2
<1>11. NoKeysLeft'
  BY <1>2, <1>6, NoneAssumption DEF KeyInv, NoKeysLeft
<1> QED BY <1>7, <1>8, <1>9, <1>10, <1>11 DEF KeyInv

\* Unregister takes the list away with the signed pre key.
LEMMA UnregisterKeys ==
  ASSUME TypeOK, KeyInv, NEW d \in Devices, Unregister(d)
  PROVE  KeyInv'
<1>1. /\ otpk'[d] = <<>> /\ signed'[d] = None
      /\ \A e \in Devices \ {d} : otpk'[e] = otpk[e] /\ signed'[e] = signed[e]
      /\ UNCHANGED <<uploaded, uploadedWith, handed, result>>
  BY Typed DEF Unregister
<1>2. \A e \in Devices : \A j \in 1..Len(otpk'[e]) : e # d
  BY <1>1
<1>3. ListInv'
  BY <1>1, <1>2 DEF KeyInv, ListInv
<1>4. OnceListed'
  BY <1>1, <1>2 DEF KeyInv, OnceListed
<1>5. HandedInv' /\ ResultInv' /\ NoKeysLeft'
  BY <1>1 DEF KeyInv, HandedInv, ResultInv, NoKeysLeft
<1> QED BY <1>3, <1>4, <1>5 DEF KeyInv

\* get_pre_key.lua moves a key from the list of d to the request.
LEMMA getPreKeyKeys ==
  ASSUME TypeOK, KeyInv, NEW r \in Requests, NEW d \in Devices, getPreKey(r, d)
  PROVE  KeyInv'
<1> DEFINE list == otpk[d]
           pre == [signed |-> signed[d], key |-> IF list = <<>> THEN None ELSE Head(list)]
<1>1. /\ result' = [result EXCEPT ![r][d] = pre]
      /\ UNCHANGED <<signed, uploaded, uploadedWith>>
  BY DEF getPreKey
<1>2. list \in Seq(Keys) /\ otpk \in [Devices -> Seq(Keys)] /\ handed \in [Keys -> Nat]
  BY Typed
<1>3. ResultInv'
  <2>1. ASSUME NEW q \in Requests, NEW e \in Devices,
               result'[q][e] # None, result'[q][e].key # None
        PROVE  /\ result'[q][e].key <= uploaded
               /\ uploadedWith[result'[q][e].key] = result'[q][e].signed
    <3>1. CASE result'[q][e] = result[q][e]
      BY <2>1, <3>1 DEF KeyInv, ResultInv
    <3>2. CASE result'[q][e] = pre /\ e = d
      <4>1. list # <<>> /\ result'[q][e].key = list[1] /\ result'[q][e].signed = signed[d]
        BY <1>2, <2>1, <3>2
      <4>2. 1 \in 1..Len(otpk[d])
        BY <1>2, <4>1
      <4>3. otpk[d][1] <= uploaded /\ uploadedWith[otpk[d][1]] = signed[d]
        BY <4>2 DEF KeyInv, ListInv
      <4> QED BY <4>1, <4>3
    <3>3. result'[q][e] = result[q][e] \/ (result'[q][e] = pre /\ e = d)
      BY <1>1, ResultTyped
    <3> QED BY <3>1, <3>2, <3>3
  <2> QED BY <1>1, <2>1 DEF ResultInv
<1>4. CASE list = <<>>
  <2>1. UNCHANGED <<otpk, handed>>
    BY <1>4 DEF getPreKey
  <2> QED BY <1>1, <1>3, <2>1
          DEF KeyInv, ListInv, OnceListed, HandedInv, NoKeysLeft
<1>5. CASE list # <<>>
  <2>1. /\ otpk' = [otpk EXCEPT ![d] = Tail(list)]
        /\ handed' = [handed EXCEPT ![list[1]] = handed[list[1]] + 1]
    BY <1>2, <1>5 DEF getPreKey
  <2>2. 1 \in 1..Len(list) /\ list[1] \in Keys
    BY <1>2, <1>5
  <2>3. handed[list[1]] = 0 /\ list[1] <= uploaded
    BY <2>2 DEF KeyInv, ListInv
  <2>4. /\ handed'[list[1]] = 1
        /\ \A k \in Keys : k # list[1] => handed'[k] = handed[k]
    BY <1>2, <2>1, <2>2, <2>3
  <2>5. /\ \A e \in Devices \ {d} : otpk'[e] = otpk[e]
        /\ Len(otpk'[d]) = Len(list) - 1 /\ Len(list) \in Nat
        /\ \A j \in 1..Len(otpk'[d]) : j + 1 \in 1..Len(list) /\ otpk'[d][j] = list[j + 1]
    BY <1>2, <1>5, <2>1
  <2>6. ASSUME NEW e \in Devices, NEW j \in 1..Len(otpk'[e])
        PROVE  \E l \in 1..Len(otpk[e]) :
                 /\ otpk'[e][j] = otpk[e][l]
                 /\ l = IF e = d THEN j + 1 ELSE j
                 /\ otpk[e][l] # list[1]
    <3>1. CASE e # d
      <4>1. j \in 1..Len(otpk[e]) /\ otpk'[e][j] = otpk[e][j]
        BY <2>5, <3>1
      <4>2. otpk[e][j] # list[1]
        BY <2>2, <3>1, <4>1 DEF KeyInv, OnceListed
      <4> QED BY <3>1, <4>1, <4>2
    <3>2. CASE e = d
      <4>1. j + 1 \in 1..Len(list) /\ otpk'[d][j] = list[j + 1] /\ j \in Nat /\ j # 0
        BY <2>5, <3>2
      <4>2. j + 1 # 1
        BY <4>1
      <4>3. list[j + 1] # list[1]
        BY <2>2, <4>1, <4>2 DEF KeyInv, OnceListed
      <4> QED BY <3>2, <4>1, <4>3
    <3> QED BY <3>1, <3>2
  <2>7. \A e \in Devices : \A j \in 1..Len(otpk[e]) : otpk[e][j] \in Keys
    BY <1>2
  <2>8. ListInv'
    <3> SUFFICES ASSUME NEW e \in Devices, NEW j \in 1..Len(otpk'[e])
                 PROVE  /\ otpk'[e][j] <= uploaded
                        /\ handed'[otpk'[e][j]] = 0
                        /\ uploadedWith[otpk'[e][j]] = signed[e]
      BY <1>1 DEF ListInv
    <3>1. PICK l \in 1..Len(otpk[e]) : otpk'[e][j] = otpk[e][l] /\ otpk[e][l] # list[1]
      BY <2>6
    <3>2. /\ otpk[e][l] <= uploaded /\ handed[otpk[e][l]] = 0
          /\ uploadedWith[otpk[e][l]] = signed[e]
      BY DEF KeyInv, ListInv
    <3> QED BY <2>4, <2>7, <3>1, <3>2
  <2>9. OnceListed'
    <3> SUFFICES ASSUME NEW e \in Devices, NEW f \in Devices,
                        NEW j \in 1..Len(otpk'[e]), NEW l \in 1..Len(otpk'[f]),
                        otpk'[e][j] = otpk'[f][l]
                 PROVE  e = f /\ j = l
      BY DEF OnceListed
    <3>1. PICK a \in 1..Len(otpk[e]) :
            otpk'[e][j] = otpk[e][a] /\ a = IF e = d THEN j + 1 ELSE j
      BY <2>6
    <3>2. PICK b \in 1..Len(otpk[f]) :
            otpk'[f][l] = otpk[f][b] /\ b = IF f = d THEN l + 1 ELSE l
      BY <2>6
    <3>3. e = f /\ a = b
      <4>1. otpk[e][a] = otpk[f][b]
        BY <3>1, <3>2, Zenon
      <4> QED BY <4>1 DEF KeyInv, OnceListed
    <3>4. e = d => j + 1 = l + 1
      BY <3>1, <3>2, <3>3
    <3>5. e # d => j = l
      BY <3>1, <3>2, <3>3
    <3>6. e = d => j \in Int /\ l \in Int
      BY <2>5, <3>3
    <3> QED BY <3>3, <3>4, <3>5, <3>6
  <2>10. HandedInv'
    <3> SUFFICES ASSUME NEW k \in Keys
                 PROVE  handed'[k] <= 1 /\ (uploaded < k => handed'[k] = 0)
      BY <1>1 DEF HandedInv
    <3>1. CASE k = list[1]
      <4>1. uploaded \in Nat /\ k \in Nat
        BY Typed DEF Keys
      <4> QED BY <2>3, <2>4, <3>1, <4>1
    <3>2. CASE k # list[1]
      BY <2>4, <3>2 DEF KeyInv, HandedInv
    <3> QED BY <3>1, <3>2
  <2>11. NoKeysLeft'
    <3>1. signed[d] # None
      BY <1>5 DEF KeyInv, NoKeysLeft
    <3> QED BY <1>1, <2>5, <3>1 DEF KeyInv, NoKeysLeft
  <2> QED BY <1>3, <2>8, <2>9, <2>10, <2>11 DEF KeyInv
<1> QED BY <1>4, <1>5

\* The other steps of a request take no key, and only forget results.
LEMMA OtherKeys ==
  ASSUME TypeOK, KeyInv, NEW r \in Requests,
         \/ \E i \in Identities, known \in SUBSET Devices : RequestPreKeys(r, i, known)
         \/ ExecError(r) \/ Collect(r) \/ Answer(r)
  PROVE  KeyInv'
<1>1. UNCHANGED <<store, handed>>
  BY DEF RequestPreKeys, ExecError, Collect, Answer
<1>2. \A q \in Requests, d \in Devices : result'[q][d] \in {result[q][d], None}
  <2>1. CASE UNCHANGED result
    BY <2>1
  <2>2. CASE result' = [result EXCEPT ![r] = NoResult]
    BY <2>2, ResultTyped DEF NoResult
  <2> QED BY <2>1, <2>2 DEF RequestPreKeys, ExecError, Collect, Answer
<1>3. ResultInv'
  <2> SUFFICES ASSUME NEW q \in Requests, NEW d \in Devices,
                      result'[q][d] # None, result'[q][d].key # None
               PROVE  /\ result'[q][d].key <= uploaded
                      /\ uploadedWith[result'[q][d].key] = result'[q][d].signed
    BY <1>1 DEF ResultInv
  <2>1. result'[q][d] = result[q][d]
    BY <1>2
  <2> QED BY <2>1 DEF KeyInv, ResultInv
<1> QED BY <1>1, <1>3 DEF KeyInv, ListInv, OnceListed, HandedInv, NoKeysLeft

\* Every step keeps the invariant.
LEMMA KeyStep ==
  ASSUME TypeOK, TypeOK', KeyInv, [Next]_vars
  PROVE  KeyInv'
<1>1. CASE UNCHANGED vars
  BY <1>1 DEF KeyInv, ListInv, OnceListed, HandedInv, ResultInv, NoKeysLeft
<1>2. CASE Next
  BY <1>2, RegisterKeys, UnregisterKeys, getPreKeyKeys, OtherKeys DEF Next
<1> QED BY <1>1, <1>2

\* The invariant in every reachable state.
LEMMA KeysHold == Spec => []KeyInv
<1>1. Init => KeyInv
  <2> SUFFICES ASSUME Init PROVE KeyInv
    OBVIOUS
  <2>1. \A d \in Devices : otpk[d] = <<>> /\ 1..Len(otpk[d]) = {}
    BY DEF Init
  <2>2. ListInv /\ OnceListed /\ NoKeysLeft
    BY <2>1 DEF ListInv, OnceListed, NoKeysLeft
  <2>3. HandedInv /\ ResultInv
    BY DEF Init, HandedInv, ResultInv, NoResult
  <2> QED BY <2>2, <2>3 DEF KeyInv
<1>2. TypeOK /\ TypeOK' /\ KeyInv /\ [Next]_vars => KeyInv'
  BY KeyStep
<1> QED BY <1>1, <1>2, TypeCorrect, PTL DEF Spec

\* A one-time pre key is handed out at most once, and not while it can be
\* popped, for any number of devices, keys and concurrent requests.
THEOREM KeysHandedOutOnce == Spec => []HandedOutOnce
<1>1. TypeOK /\ KeyInv => HandedOutOnce
  <2> SUFFICES ASSUME TypeOK, KeyInv, NEW k \in Keys,
                      NEW listed,
                      listed = {l \in Devices \X Keys :
                                  l[2] <= Len(otpk[l[1]]) /\ otpk[l[1]][l[2]] = k}
               PROVE  handed[k] + Cardinality(listed) <= 1
    BY DEF HandedOutOnce
  <2>1. \A l \in listed : /\ l = <<l[1], l[2]>>
                          /\ l[1] \in Devices /\ l[2] \in 1..Len(otpk[l[1]])
                          /\ otpk[l[1]][l[2]] = k
    <3> SUFFICES ASSUME NEW l \in listed
                 PROVE  /\ l = <<l[1], l[2]>>
                        /\ l[1] \in Devices /\ l[2] \in 1..Len(otpk[l[1]])
                        /\ otpk[l[1]][l[2]] = k
      OBVIOUS
    <3>1. /\ l = <<l[1], l[2]>> /\ l[1] \in Devices /\ l[2] \in Keys
          /\ l[2] <= Len(otpk[l[1]]) /\ otpk[l[1]][l[2]] = k
      OBVIOUS
    <3>2. Len(otpk[l[1]]) \in Nat
      BY <3>1, Typed
    <3> QED BY <3>1, <3>2 DEF Keys
  <2>2. \A l, m \in listed : l = m
    BY <2>1 DEF KeyInv, OnceListed
  <2>3. handed[k] \in {0, 1}
    BY Typed DEF KeyInv, HandedInv
  <2>4. CASE listed = {}
    <3>1. Cardinality(listed) = 0
      BY <2>4, FS_EmptySet, Zenon
    <3> QED BY <2>3, <3>1
  <2>5. CASE listed # {}
    <3>1. PICK l : l \in listed
      BY <2>5
    <3>2. listed = {l}
      BY <2>2, <3>1
    <3>3. Cardinality(listed) = 1
      BY <3>2, FS_Singleton, Zenon
    <3>4. handed[k] = 0
      BY <2>1, <3>1 DEF KeyInv, ListInv
    <3> QED BY <3>3, <3>4
  <2> QED BY <2>4, <2>5
<1> QED BY <1>1, TypeCorrect, KeysHold, PTL

\* The one-time pre key and the signed pre key of an answer were uploaded
\* together, wherever Register comes between the steps of the request.
THEOREM KeysAreOfOneRegistration == Spec => []KeysBelongTogether
<1>1. KeyInv => KeysBelongTogether
  BY DEF KeyInv, ResultInv, KeysBelongTogether
<1> QED BY <1>1, KeysHold, PTL

-----------------------------------------------------------------------------
(***************************************************************************)
(* Where the devices of an identity are, and those that a request is for.  *)
(* The sets must be finite for unregister.lua to count them.               *)
(***************************************************************************)

\* A device that was asked for and stayed registered is still to be looked up
\* or has a result.
RequestOK(r) ==
  /\ pc[r] = "exec" =>
       \A d \in throughout[r] : d \in left[r] \/ result[r][d] # None
  /\ pc[r] = "keys" => \A d \in throughout[r] : result[r][d] # None
  /\ pc[r] = "unknown_identity" => throughout[r] = {}

RequestInv == \A r \in Requests : RequestOK(r)

DeviceInv ==
  /\ \A i \in Identities :
       /\ IsFiniteSet(devices[i])
       /\ devices[i] = {d \in Devices : signed[d] # None /\ IdentityOf[d] = i}
  /\ RequestInv

\* At the beginning there is no device and no request.
LEMMA DeviceInit == Init => DeviceInv
<1> SUFFICES ASSUME Init PROVE DeviceInv
  OBVIOUS
<1>1. \A i \in Identities : IsFiniteSet(devices[i]) /\ devices[i] = {}
  BY FS_EmptySet DEF Init
<1>2. \A d \in Devices : signed[d] = None
  BY DEF Init
<1>3. RequestInv
  BY DEF Init, RequestInv, RequestOK
<1> QED BY <1>1, <1>2, <1>3 DEF DeviceInv

\* What is left of a set of devices once d has gone: unregister.lua deletes the
\* set when it has one member, which is the right one if d is a member.
LEMMA DeviceGone ==
  ASSUME NEW ds, IsFiniteSet(ds), NEW d \in ds
  PROVE  RemainingDevices(ds, d) = ds \ {d}
<1>1. CASE Cardinality(ds) = 1
  <2>1. PICK e : ds = {e}
    BY <1>1, FS_Singleton
  <2> QED BY <1>1, <2>1 DEF RemainingDevices
<1>2. CASE Cardinality(ds) # 1
  BY <1>2 DEF RemainingDevices
<1> QED BY <1>1, <1>2

\* Every step keeps DeviceInv, when only registered devices unregister.
LEMMA DeviceStep ==
  ASSUME ~Repeats, TypeOK, DeviceInv, [Next]_vars
  PROVE  DeviceInv'
<1> USE KeyConstants
<1> DEFINE Of(i) == {d \in Devices : signed[d] # None /\ IdentityOf[d] = i}
<1>t. StoreOK /\ RequestsOK
  BY TypeGroups
<1>s. /\ devices \in [Identities -> SUBSET Devices]
      /\ signed \in [Devices -> SignedPreKeys \cup {None}]
  BY <1>t, Zenon DEF StoreOK
<1>0. /\ \A i \in Identities : IsFiniteSet(devices[i]) /\ devices[i] = Of(i)
      /\ RequestInv
  BY DEF DeviceInv
<1>1. ASSUME UNCHANGED <<devices, signed>>, RequestInv' PROVE DeviceInv'
  BY <1>0, <1>1 DEF DeviceInv
<1>2. ASSUME NEW d \in Devices, NEW spk \in SignedPreKeys, NEW n \in 0..MaxUpload,
             Register(d, spk, n)
      PROVE  DeviceInv'
  <2>1. /\ devices' = [devices EXCEPT ![IdentityOf[d]] = devices[IdentityOf[d]] \cup {d}]
        /\ signed' = [signed EXCEPT ![d] = spk]
        /\ UNCHANGED request
    BY <1>2 DEF Register
  <2>2. RequestInv'
    BY <1>0, <2>1 DEF RequestInv, RequestOK
  <2>3. ASSUME NEW i \in Identities
        PROVE  IsFiniteSet(devices'[i]) /\ devices'[i] = Of(i)'
    <3>1. CASE i = IdentityOf[d]
      <4>1. devices'[i] = devices[i] \cup {d}
        BY <1>s, <2>1, <3>1
      <4>2. IsFiniteSet(devices'[i])
        <5>1. IsFiniteSet(devices[i])
          BY <1>0
        <5>2. IsFiniteSet(devices[i] \cup {d})
          BY <5>1, FS_AddElement
        <5> QED BY <4>1, <5>2
      <4>3. Of(i)' = Of(i) \cup {d}
        <5>1. spk # None
          BY NoneAssumption
        <5> QED BY <1>s, <2>1, <3>1, <5>1
      <4> QED BY <1>0, <4>1, <4>2, <4>3
    <3>2. CASE i # IdentityOf[d]
      <4>1. devices'[i] = devices[i]
        BY <1>s, <2>1, <3>2
      <4>2. Of(i)' = Of(i)
        BY <1>s, <2>1, <3>2
      <4> QED BY <1>0, <4>1, <4>2
    <3> QED BY <3>1, <3>2
  <2> QED BY <2>2, <2>3 DEF DeviceInv
<1>3. ASSUME NEW d \in Devices, Unregister(d) PROVE DeviceInv'
  <2> DEFINE ds == devices[IdentityOf[d]]
  <2>1. /\ signed[d] # None
        /\ devices' = [devices EXCEPT ![IdentityOf[d]] = RemainingDevices(ds, d)]
        /\ signed' = [signed EXCEPT ![d] = None]
        /\ throughout' = [r \in Requests |-> throughout[r] \ {d}]
        /\ UNCHANGED <<pc, left, result>>
    BY <1>3 DEF Unregister
  <2>2. RequestInv'
    BY <1>0, <2>1 DEF RequestInv, RequestOK
  <2>3. IdentityOf[d] \in Identities /\ d \in ds /\ IsFiniteSet(ds)
    BY <1>0, <2>1
  <2>4. RemainingDevices(ds, d) = ds \ {d} /\ IsFiniteSet(ds \ {d})
    BY <2>3, DeviceGone, FS_RemoveElement, Zenon
  <2>5. ASSUME NEW i \in Identities
        PROVE  IsFiniteSet(devices'[i]) /\ devices'[i] = Of(i)'
    <3>1. CASE i = IdentityOf[d]
      <4>1. devices'[i] = ds \ {d}
        BY <1>s, <2>1, <2>4, <3>1
      <4>2. Of(i)' = Of(i) \ {d}
        BY <1>s, <2>1, <3>1
      <4> QED BY <1>0, <2>4, <3>1, <4>1, <4>2
    <3>2. CASE i # IdentityOf[d]
      <4>1. devices'[i] = devices[i]
        BY <1>s, <2>1, <3>2
      <4>2. Of(i)' = Of(i)
        BY <1>s, <2>1, <3>2
      <4> QED BY <1>0, <4>1, <4>2
    <3> QED BY <3>1, <3>2
  <2> QED BY <2>2, <2>5 DEF DeviceInv
<1>4. ASSUME NEW r \in Requests, NEW i \in Identities, NEW known \in SUBSET Devices,
             RequestPreKeys(r, i, known)
      PROVE  DeviceInv'
  <2>1. /\ left' = [left EXCEPT ![r] = devices[i] \ known]
        /\ pc' = [pc EXCEPT ![r] =
                    IF left'[r] = {} THEN "unknown_identity" ELSE "exec"]
        /\ throughout' = [throughout EXCEPT ![r] = Of(i) \ known]
        /\ UNCHANGED <<devices, signed, result>>
    BY <1>4, Zenon DEF RequestPreKeys
  <2>2. left'[r] = devices[i] \ known /\ throughout'[r] = Of(i) \ known
    BY <1>t, <2>1 DEF RequestsOK
  <2>3. throughout'[r] = left'[r]
    BY <1>0, <2>2
  <2>4. pc'[r] = IF left'[r] = {} THEN "unknown_identity" ELSE "exec"
    BY <1>t, <2>1 DEF RequestsOK
  <2>5. \A q \in Requests : q # r =>
          pc'[q] = pc[q] /\ left'[q] = left[q] /\ throughout'[q] = throughout[q]
    BY <1>t, <2>1 DEF RequestsOK
  <2>6. RequestInv'
    <3> SUFFICES ASSUME NEW q \in Requests PROVE RequestOK(q)'
      BY DEF RequestInv
    <3>1. CASE q = r
      BY <2>3, <2>4, <3>1 DEF RequestOK
    <3>2. CASE q # r
      BY <1>0, <2>1, <2>5, <3>2 DEF RequestOK, RequestInv
    <3> QED BY <3>1, <3>2
  <2> QED BY <1>1, <2>1, <2>6
<1>5. ASSUME NEW r \in Requests, NEW d \in Devices, getPreKey(r, d) PROVE DeviceInv'
  <2> DEFINE pre == [signed |-> signed[d],
                     key |-> IF otpk[d] = <<>> THEN None ELSE Head(otpk[d])]
  <2>1. /\ result' = [result EXCEPT ![r][d] = pre]
        /\ left' = [left EXCEPT ![r] = left[r] \ {d}]
        /\ UNCHANGED <<devices, signed, pc, throughout>>
    BY <1>5 DEF getPreKey
  <2>2. pre # None
    <3>1. otpk[d] # <<>> => Head(otpk[d]) \in Keys
      BY Typed
    <3>2. pre \in PreKeys
      BY <3>1, Typed DEF PreKeys
    <3> QED BY <3>2, NoneAssumption
  <2> HIDE DEF pre
  <2>3. /\ \A q \in Requests, e \in Devices :
             result'[q][e] = result[q][e] \/ result'[q][e] # None
        /\ result'[r][d] # None
        /\ \A q \in Requests : left[q] \ {d} \subseteq left'[q]
        /\ \A q \in Requests : q # r => left'[q] = left[q]
    BY <1>t, <2>1, <2>2 DEF RequestsOK
  <2>4. RequestInv'
    <3> SUFFICES ASSUME NEW q \in Requests PROVE RequestOK(q)'
      BY DEF RequestInv
    <3>1. throughout[q] \subseteq Devices /\ RequestOK(q)
      BY <1>t, <1>0 DEF RequestsOK, RequestInv
    <3> QED BY <2>1, <2>3, <3>1 DEF RequestOK
  <2> QED BY <1>1, <2>1, <2>4
<1>6. ASSUME NEW r \in Requests, ExecError(r) \/ Collect(r) \/ Answer(r)
      PROVE  DeviceInv'
  <2>1. UNCHANGED <<devices, signed>>
    BY <1>6 DEF ExecError, Collect, Answer
  <2>2. /\ \A q \in Requests \ {r} : pc'[q] = pc[q] /\ left'[q] = left[q]
                /\ result'[q] = result[q] /\ throughout'[q] = throughout[q]
    BY <1>t, <1>6 DEF RequestsOK, ExecError, Collect, Answer
  <2>3. RequestOK(r)'
    <3>1. CASE Collect(r)
      <4>1. /\ pc[r] = "exec" /\ left[r] = {} /\ pc'[r] \in {"panic", "keys"}
            /\ UNCHANGED <<left, result, throughout>>
        BY <1>t, <3>1 DEF Collect, RequestsOK
      <4> QED BY <1>0, <4>1 DEF RequestInv, RequestOK
    <3>2. CASE ExecError(r)
      <4>1. pc'[r] = "error"
        BY <1>t, <3>2 DEF ExecError, RequestsOK
      <4> QED BY <4>1 DEF RequestOK
    <3>3. CASE Answer(r)
      <4>1. pc'[r] = "idle"
        BY <1>t, <3>3 DEF Answer, RequestsOK
      <4> QED BY <4>1 DEF RequestOK
    <3> QED BY <1>6, <3>1, <3>2, <3>3
  <2>4. RequestInv'
    BY <1>0, <2>2, <2>3 DEF RequestInv, RequestOK
  <2> QED BY <1>1, <2>1, <2>4
<1>7. CASE UNCHANGED vars
  <2>1. RequestInv'
    BY <1>0, <1>7 DEF RequestInv, RequestOK
  <2> QED BY <1>1, <1>7, <2>1
<1> QED BY <1>2, <1>3, <1>4, <1>5, <1>6, <1>7 DEF Next

\* When only registered devices unregister, the set of an identity's devices
\* is complete, and neither the set nor the list of a device outlives it.
THEOREM DeviceSetsComplete ==
  ASSUME ~Repeats
  PROVE  Spec => []DeviceSetComplete
<1>1. Init => DeviceInv
  BY DeviceInit
<1>2. TypeOK /\ DeviceInv /\ [Next]_vars => DeviceInv'
  BY DeviceStep
<1>3. DeviceInv /\ KeyInv => DeviceSetComplete
  BY DEF DeviceInv, KeyInv, NoKeysLeft, DeviceSetComplete, AllRegisteredDevices,
         PreKeysRemaining
<1> QED BY <1>1, <1>2, <1>3, TypeCorrect, KeysHold, PTL DEF Spec

\* When only registered devices unregister, the answer to a request has every
\* device that was asked for and registered from its beginning to its end.
THEOREM RequestsComplete ==
  ASSUME ~Repeats
  PROVE  Spec => []RequestComplete
<1>1. Init => DeviceInv
  BY DeviceInit
<1>2. TypeOK /\ DeviceInv /\ [Next]_vars => DeviceInv'
  BY DeviceStep
<1>3. DeviceInv => RequestComplete
  BY DEF DeviceInv, RequestInv, RequestOK, RequestComplete
<1> QED BY <1>1, <1>2, <1>3, TypeCorrect, PTL DEF Spec

-----------------------------------------------------------------------------
(***************************************************************************)
(* What holds of the devices even when devices that are not registered are *)
(* unregistered.                                                           *)
(***************************************************************************)

\* The set of an identity has no device that is not registered, or that is
\* another identity's.
ListedAreRegistered ==
  \A i \in Identities : devices[i] \subseteq {d \in AllRegisteredDevices : IdentityOf[d] = i}

\* The devices whose keys RequestPreKeys will ask for are registered when it
\* has read the set.
AskedAreRegistered ==
  [][\A r \in Requests : pc[r] = "idle" /\ pc'[r] # "idle" =>
       left'[r] \subseteq throughout'[r]]_vars

\* When get_pre_key.lua finds no signed pre key, on which Collect panics, the
\* device was unregistered since.
MissingWasUnregistered ==
  \A r \in Requests, d \in Devices :
    result[r][d] # None /\ result[r][d].signed = None => d \notin throughout[r]

\* A device that has been registered throughout has a signed pre key, and had one
\* when it was asked for.
AskedOK(r) ==
  /\ pc[r] = "idle" => result[r] = NoResult
  /\ \A d \in throughout[r] :
       /\ signed[d] # None
       /\ result[r][d] # None => result[r][d].signed # None

AskedInv == /\ ListedAreRegistered
            /\ \A r \in Requests : AskedOK(r)

\* Every step keeps AskedInv.
LEMMA AskedStep ==
  ASSUME TypeOK, AskedInv, [Next]_vars
  PROVE  AskedInv'
<1> USE KeyConstants
<1>t. /\ devices \in [Identities -> SUBSET Devices]
      /\ signed \in [Devices -> SignedPreKeys \cup {None}]
      /\ pc \in [Requests -> {"idle", "exec", "keys", "unknown_identity", "error", "panic"}]
      /\ throughout \in [Requests -> SUBSET Devices]
      /\ result \in [Requests -> [Devices -> PreKeys \cup {None}]]
  BY Zenon DEF TypeOK
<1>0. /\ \A i \in Identities : \A d \in devices[i] :
           d \in Devices /\ signed[d] # None /\ IdentityOf[d] = i
      /\ \A r \in Requests : AskedOK(r)
  BY DEF AskedInv, ListedAreRegistered, AllRegisteredDevices
<1>1. ASSUME \A i \in Identities : \A d \in devices'[i] :
               d \in Devices /\ signed'[d] # None /\ IdentityOf[d] = i,
             \A r \in Requests : AskedOK(r)'
      PROVE  AskedInv'
  BY <1>1 DEF AskedInv, ListedAreRegistered, AllRegisteredDevices
<1>2. ASSUME NEW d \in Devices, NEW spk \in SignedPreKeys, NEW n \in 0..MaxUpload,
             Register(d, spk, n)
      PROVE  AskedInv'
  <2>1. /\ devices' = [devices EXCEPT ![IdentityOf[d]] = devices[IdentityOf[d]] \cup {d}]
        /\ signed' = [signed EXCEPT ![d] = spk]
        /\ UNCHANGED <<pc, result, throughout>>
    BY <1>2 DEF Register, request
  <2>2. spk # None
    BY NoneAssumption
  <2>3. \A e \in Devices : signed[e] # None \/ e = d => signed'[e] # None
    BY <1>t, <2>1, <2>2
  <2>4. ASSUME NEW i \in Identities, NEW e \in devices'[i]
        PROVE  e \in devices[i] \/ (e = d /\ i = IdentityOf[d])
    <3>1. CASE i = IdentityOf[d]
      <4>1. devices'[i] = devices[i] \cup {d}
        BY <1>t, <2>1, <3>1
      <4> QED BY <2>4, <3>1, <4>1
    <3>2. CASE i # IdentityOf[d]
      <4>1. devices'[i] = devices[i]
        BY <1>t, <2>1, <3>2
      <4> QED BY <2>4, <4>1
    <3> QED BY <3>1, <3>2
  <2>5. \A r \in Requests : AskedOK(r)'
    BY <1>t, <1>0, <2>1, <2>3, SMTT(20) DEF AskedOK
  <2> QED BY <1>0, <1>1, <2>3, <2>4, <2>5
<1>3. ASSUME NEW d \in Devices, Unregister(d) PROVE AskedInv'
  <2>1. /\ devices' = [devices EXCEPT ![IdentityOf[d]] =
                         RemainingDevices(devices[IdentityOf[d]], d)]
        /\ signed' = [signed EXCEPT ![d] = None]
        /\ throughout' = [r \in Requests |-> throughout[r] \ {d}]
        /\ UNCHANGED <<pc, result>>
    BY <1>3 DEF Unregister
  <2>2. RemainingDevices(devices[IdentityOf[d]], d) \subseteq devices[IdentityOf[d]] \ {d}
    BY DEF RemainingDevices
  <2>3. \A e \in Devices : e # d => signed'[e] = signed[e]
    BY <1>t, <2>1
  <2>4. ASSUME NEW i \in Identities, NEW e \in devices'[i] PROVE e \in devices[i] /\ e # d
    <3>1. CASE i = IdentityOf[d]
      BY <1>t, <2>1, <2>2, <2>4, <3>1
    <3>2. CASE i # IdentityOf[d]
      <4>1. devices'[i] = devices[i]
        BY <1>t, <2>1, <3>2
      <4> QED BY <1>0, <2>4, <3>2, <4>1
    <3> QED BY <3>1, <3>2
  <2>5. \A r \in Requests : AskedOK(r)'
    BY <1>t, <1>0, <2>1, <2>3 DEF AskedOK
  <2> QED BY <1>0, <1>1, <2>3, <2>4, <2>5
<1>4. ASSUME UNCHANGED <<devices, signed>>, \A r \in Requests : AskedOK(r)' PROVE AskedInv'
  BY <1>0, <1>1, <1>4
<1>5. ASSUME NEW r \in Requests, NEW i \in Identities, NEW known \in SUBSET Devices,
             RequestPreKeys(r, i, known)
      PROVE  AskedInv'
  <2>1. /\ pc[r] = "idle" /\ UNCHANGED <<devices, signed, result>>
        /\ throughout' = [throughout EXCEPT ![r] =
             {d \in Devices : IdentityOf[d] = i /\ signed[d] # None} \ known]
    BY <1>5, Zenon DEF RequestPreKeys, store
  <2>2. PICK v \in {"unknown_identity", "exec"} : pc' = [pc EXCEPT ![r] = v]
    BY <1>5, Zenon DEF RequestPreKeys
  <2>3. result[r] = NoResult
    BY <1>0, <2>1 DEF AskedOK
  <2>4. \A d \in throughout'[r] : d \in Devices /\ signed[d] # None /\ result[r][d] = None
    BY <1>t, <2>1, <2>3 DEF NoResult
  <2>5. AskedOK(r)'
    BY <1>t, <2>1, <2>2, <2>4 DEF AskedOK
  <2>6. \A q \in Requests : q # r => pc'[q] = pc[q] /\ throughout'[q] = throughout[q]
    BY <1>t, <2>1, <2>2
  <2>7. \A q \in Requests : q # r => AskedOK(q)'
    BY <1>0, <2>1, <2>6 DEF AskedOK
  <2> QED BY <1>4, <2>1, <2>5, <2>7
<1>6. ASSUME NEW r \in Requests, NEW d \in Devices, getPreKey(r, d) PROVE AskedInv'
  <2> DEFINE pre == [signed |-> signed[d],
                     key |-> IF otpk[d] = <<>> THEN None ELSE Head(otpk[d])]
  <2>1. /\ pc[r] = "exec"
        /\ result' = [result EXCEPT ![r][d] = pre]
        /\ UNCHANGED <<devices, signed, pc, throughout>>
    BY <1>6 DEF getPreKey
  <2>2. pre.signed = signed[d]
    OBVIOUS
  <2> HIDE DEF pre
  <2>3. /\ result'[r][d] = pre
        /\ \A e \in Devices : e # d => result'[r][e] = result[r][e]
        /\ \A q \in Requests : q # r => result'[q] = result[q]
    BY <1>t, <2>1
  <2>4. AskedOK(r)'
    BY <1>t, <1>0, <2>1, <2>2, <2>3 DEF AskedOK
  <2>5. \A q \in Requests : q # r => AskedOK(q)'
    BY <1>0, <2>1, <2>3 DEF AskedOK
  <2> QED BY <1>4, <2>1, <2>4, <2>5
<1>7. ASSUME NEW r \in Requests, ExecError(r) \/ Answer(r) PROVE AskedInv'
  <2>1. /\ UNCHANGED <<devices, signed>>
        /\ result' = [result EXCEPT ![r] = NoResult]
        /\ throughout' = [throughout EXCEPT ![r] = {}]
    BY <1>7, Zenon DEF ExecError, Answer, store
  <2>2. PICK v \in {"error", "idle"} : pc' = [pc EXCEPT ![r] = v]
    BY <1>7, Zenon DEF ExecError, Answer
  <2>3. AskedOK(r)'
    BY <1>t, <2>1, <2>2 DEF AskedOK
  <2>4. \A q \in Requests : q # r =>
          pc'[q] = pc[q] /\ throughout'[q] = throughout[q] /\ result'[q] = result[q]
    BY <1>t, <2>1, <2>2
  <2>5. \A q \in Requests : q # r => AskedOK(q)'
    BY <1>0, <2>1, <2>4 DEF AskedOK
  <2> QED BY <1>4, <2>1, <2>3, <2>5
<1>8. ASSUME NEW r \in Requests, Collect(r) PROVE AskedInv'
  <2>1. UNCHANGED <<devices, signed, result, throughout>>
    BY <1>8, Zenon DEF Collect, store
  <2>2. PICK v \in {"panic", "keys"} : pc' = [pc EXCEPT ![r] = v]
    BY <1>8, Zenon DEF Collect
  <2>3. \A q \in Requests : pc'[q] = "idle" => pc[q] = "idle"
    BY <1>t, <2>2
  <2>4. \A q \in Requests : AskedOK(q)'
    BY <1>0, <2>1, <2>3 DEF AskedOK
  <2> QED BY <1>4, <2>1, <2>4
<1>9. CASE UNCHANGED vars
  <2>1. \A q \in Requests : AskedOK(q)'
    BY <1>0, <1>9 DEF AskedOK, vars, request, store
  <2> QED BY <1>4, <1>9, <2>1 DEF vars, store
<1> QED BY <1>2, <1>3, <1>5, <1>6, <1>7, <1>8, <1>9 DEF Next

\* AskedInv holds whatever is unregistered, and how often.
LEMMA AskedHolds == Spec => []AskedInv
<1>1. Init => AskedInv
  BY DEF Init, AskedInv, ListedAreRegistered, AskedOK, NoResult
<1>2. TypeOK /\ AskedInv /\ [Next]_vars => AskedInv'
  BY AskedStep
<1> QED BY <1>1, <1>2, TypeCorrect, PTL DEF Spec

\* Also when devices are unregistered that are not registered, which may leave
\* registered devices out of a set: the set of an identity has no others.
THEOREM ListedDevicesAreRegistered == Spec => []ListedAreRegistered
<1>1. AskedInv => ListedAreRegistered
  BY DEF AskedInv
<1> QED BY <1>1, AskedHolds, PTL

\* RequestPreKeys panics on a missing signed pre key only in a race: it asks for
\* registered devices, and the one whose key is missing was unregistered between
\* SMEMBERS and get_pre_key.lua.
THEOREM PanicsAreRaces == Spec => AskedAreRegistered /\ []MissingWasUnregistered
<1>1. TypeOK /\ AskedInv /\ [Next]_vars =>
        [\A r \in Requests : pc[r] = "idle" /\ pc'[r] # "idle" =>
           left'[r] \subseteq throughout'[r]]_vars
  <2> SUFFICES ASSUME TypeOK, AskedInv, [Next]_vars, NEW r \in Requests,
                      pc[r] = "idle", pc'[r] # "idle"
               PROVE  left'[r] \subseteq throughout'[r]
    OBVIOUS
  <2>1. PICK i \in Identities, known \in SUBSET Devices : RequestPreKeys(r, i, known)
    <3>1. \A d \in Devices :
            (\E spk \in SignedPreKeys, n \in 0..MaxUpload : Register(d, spk, n)) \/ Unregister(d)
              => pc' = pc
      BY Zenon DEF Register, Unregister, request
    <3>2. ASSUME NEW q \in Requests,
                 \/ \E i \in Identities, known \in SUBSET Devices : RequestPreKeys(q, i, known)
                 \/ \E d \in Devices : getPreKey(q, d)
                 \/ ExecError(q) \/ Collect(q) \/ Answer(q)
          PROVE  q = r /\ \E i \in Identities, known \in SUBSET Devices :
                            RequestPreKeys(q, i, known)
      <4>1. \E v : pc' = [pc EXCEPT ![q] = v] \/ pc' = pc
        BY <3>2, Zenon DEF RequestPreKeys, getPreKey, ExecError, Collect, Answer
      <4>2. pc \in [Requests -> {"idle", "exec", "keys", "unknown_identity", "error", "panic"}]
        BY Zenon DEF TypeOK
      <4>3. q = r
        BY <4>1, <4>2
      <4> QED BY <3>2, <4>3 DEF getPreKey, ExecError, Collect, Answer
    <3>3. ~UNCHANGED vars
      BY DEF vars, request
    <3> QED BY <3>1, <3>2, <3>3, Zenon DEF Next
  <2>2. /\ left' = [left EXCEPT ![r] = devices[i] \ known]
        /\ throughout' = [throughout EXCEPT ![r] =
             {d \in Devices : IdentityOf[d] = i /\ signed[d] # None} \ known]
    BY <2>1, Zenon DEF RequestPreKeys
  <2>3. left \in [Requests -> SUBSET Devices] /\ throughout \in [Requests -> SUBSET Devices]
    BY Zenon DEF TypeOK
  <2>4. devices[i] \subseteq {d \in Devices : IdentityOf[d] = i /\ signed[d] # None}
    BY DEF AskedInv, ListedAreRegistered, AllRegisteredDevices
  <2> QED BY <2>2, <2>3, <2>4
<1>2. AskedInv => MissingWasUnregistered
  BY DEF AskedInv, AskedOK, MissingWasUnregistered
<1> QED BY <1>1, <1>2, AskedHolds, TypeCorrect, PTL DEF Spec, AskedAreRegistered

-----------------------------------------------------------------------------
(***************************************************************************)
(* Refinement of KeyDirectory.                                             *)
(***************************************************************************)

\* Seen from its other end, LPUSH adds the keys behind those in the list.
LEMMA PushReversed ==
  ASSUME NEW S, NEW list \in Seq(S), NEW keys \in Seq(S)
  PROVE  Reverse(LPush(list, keys)) = Reverse(list) \o keys
<1> DEFINE m == Len(keys)
           k == Len(list)
           a == Reverse(keys)
           b == Reverse(list)
           pushed == a \o list
           left_ == Reverse(pushed)
           right_ == b \o keys
<1>1. /\ a \in Seq(S) /\ Len(a) = m /\ \A j \in 1..m : a[j] = keys[m - j + 1]
      /\ b \in Seq(S) /\ Len(b) = k /\ \A j \in 1..k : b[j] = list[k - j + 1]
      /\ m \in Nat /\ k \in Nat
  BY Reversed
<1> HIDE DEF a, b
<1>2. /\ pushed \in Seq(S) /\ Len(pushed) = m + k
      /\ \A j \in 1..m : pushed[j] = a[j]
      /\ \A j \in 1..k : pushed[m + j] = list[j]
  <2>1. a \in Seq(S) /\ list \in Seq(S)
    BY <1>1
  <2>2. /\ pushed \in Seq(S) /\ Len(pushed) = Len(a) + Len(list)
        /\ \A j \in 1..Len(a) : pushed[j] = a[j]
        /\ \A j \in 1..Len(list) : pushed[Len(a) + j] = list[j]
    BY ONLY <2>1, Joined
  <2> QED BY <1>1, <2>2
<1> HIDE DEF pushed
<1>3. /\ right_ \in Seq(S) /\ Len(right_) = m + k
      /\ \A j \in 1..k : right_[j] = b[j]
      /\ \A j \in 1..m : right_[k + j] = keys[j]
  <2>1. b \in Seq(S) /\ keys \in Seq(S)
    BY <1>1
  <2>2. /\ right_ \in Seq(S) /\ Len(right_) = Len(b) + Len(keys)
        /\ \A j \in 1..Len(b) : right_[j] = b[j]
        /\ \A j \in 1..Len(keys) : right_[Len(b) + j] = keys[j]
    BY ONLY <2>1, Joined
  <2> QED BY <1>1, <2>2
<1>4. /\ left_ \in Seq(S) /\ Len(left_) = m + k
      /\ \A j \in 1..(m + k) : left_[j] = pushed[m + k - j + 1]
  <2>1. /\ left_ \in Seq(S) /\ Len(left_) = Len(pushed)
        /\ \A j \in 1..Len(pushed) : left_[j] = pushed[Len(pushed) - j + 1]
    BY ONLY <1>2, Reversed, Zenon
  <2> QED BY <1>2, <2>1
<1> HIDE DEF left_, right_
<1>5. ASSUME NEW j \in 1..(m + k) PROVE left_[j] = right_[j]
  <2>1. CASE j <= k
    <3>1. k - j + 1 \in 1..k /\ m + k - j + 1 = m + (k - j + 1) /\ j \in 1..k
      BY <1>1, <2>1
    <3>2. left_[j] = list[k - j + 1]
      BY <1>2, <1>4, <3>1, Zenon
    <3> QED BY <1>1, <1>3, <3>1, <3>2
  <2>2. CASE ~(j <= k)
    <3>1. /\ j - k \in 1..m /\ k + (j - k) = j
          /\ m + k - j + 1 \in 1..m /\ m - (m + k - j + 1) + 1 = j - k
      BY <1>1, <2>2
    <3>2. left_[j] = pushed[m + k - j + 1] /\ pushed[m + k - j + 1] = a[m + k - j + 1]
      BY <1>2, <1>4, <3>1
    <3>3. a[m + k - j + 1] = keys[j - k]
      BY <1>1, <3>1, Zenon
    <3> QED BY <1>3, <3>1, <3>2, <3>3
  <2> QED BY <2>1, <2>2
<1>6. left_ = right_
  BY <1>3, <1>4, <1>5, SameSequence
<1> QED BY <1>6 DEF left_, right_, pushed, a, b, LPush

\* LPOP takes the last key that was uploaded.
LEMMA PopReversed ==
  ASSUME NEW S, NEW list \in Seq(S), list # <<>>
  PROVE  LET all == Reverse(list)
         IN  /\ all # <<>>
             /\ all[Len(all)] = Head(list)
             /\ Reverse(Tail(list)) = SubSeq(all, 1, Len(all) - 1)
<1> DEFINE all == Reverse(list)
           k == Len(list)
           tail == Tail(list)
           left_ == Reverse(tail)
           right_ == SubSeq(all, 1, k - 1)
<1>1. /\ all \in Seq(S) /\ Len(all) = k /\ \A j \in 1..k : all[j] = list[k - j + 1]
      /\ k \in Nat /\ k # 0
  BY Reversed
<1> HIDE DEF all
<1>2. /\ tail \in Seq(S) /\ Len(tail) = k - 1
      /\ \A j \in 1..(k - 1) : tail[j] = list[j + 1]
  BY <1>1
<1> HIDE DEF tail
<1>3. /\ left_ \in Seq(S) /\ Len(left_) = k - 1
      /\ \A j \in 1..(k - 1) : left_[j] = tail[(k - 1) - j + 1]
  <2>1. /\ left_ \in Seq(S) /\ Len(left_) = Len(tail)
        /\ \A j \in 1..Len(tail) : left_[j] = tail[Len(tail) - j + 1]
    BY ONLY <1>2, Reversed
  <2> QED BY <1>2, <2>1
<1>4. /\ right_ \in Seq(S) /\ Len(right_) = k - 1
      /\ \A j \in 1..(k - 1) : right_[j] = all[j]
  BY <1>1
<1> HIDE DEF left_, right_
<1>5. ASSUME NEW j \in 1..(k - 1) PROVE left_[j] = right_[j]
  <2>1. /\ (k - 1) - j + 1 \in 1..(k - 1) /\ ((k - 1) - j + 1) + 1 = k - j + 1
        /\ j \in 1..k
    BY <1>1
  <2> QED BY <1>1, <1>2, <1>3, <1>4, <2>1
<1>6. left_ = right_
  BY <1>3, <1>4, <1>5, SameSequence, Zenon
<1>7. all[k] = Head(list) /\ all # <<>>
  <2>1. k \in 1..k /\ k - k + 1 = 1
    BY <1>1
  <2>2. all[k] = list[1]
    BY <1>1, <2>1
  <2> QED BY <1>1, <2>2
<1> QED BY <1>1, <1>6, <1>7 DEF all, tail, left_, right_

\* A registration as the directory has it.
LEMMA RegistrationTyped ==
  ASSUME TypeOK, NEW d \in Devices, signed[d] # None
  PROVE  /\ registrations[d] = [signed |-> signed[d], keys |-> Reverse(otpk[d])]
         /\ registrations[d] # None
         /\ otpk[d] \in Seq(Keys)
         /\ Reverse(otpk[d]) \in Seq(Keys)
<1>1. registrations[d] = [signed |-> signed[d], keys |-> Reverse(otpk[d])]
  BY DEF registrations
<1>2. otpk[d] \in Seq(Keys) /\ signed[d] \in SignedPreKeys
  BY Typed
<1>3. Reverse(otpk[d]) \in Seq(Keys)
  BY <1>2, Reversed
<1>4. registrations[d] \in [signed : SignedPreKeys, keys : Seq(Keys)]
  BY <1>1, <1>2, <1>3
<1> QED BY <1>1, <1>2, <1>3, <1>4, NoneAssumption

\* The transaction of Register is a Register of the directory.
LEMMA RegisterRefines ==
  ASSUME TypeOK, NEW d \in Devices, NEW spk \in SignedPreKeys,
         NEW n \in 0..MaxUpload, Register(d, spk, n)
  PROVE  Directory!DirRegister(d, spk, n)
<1> DEFINE base == IF spk # signed[d] THEN <<>> ELSE otpk[d]
           new == NewKeys(n)
           reg == IF registrations[d] # None /\ registrations[d].signed = spk
                  THEN [signed |-> spk, keys |-> registrations[d].keys \o new]
                  ELSE [signed |-> spk, keys |-> new]
<1>1. /\ uploaded \in Nat /\ n \in Nat /\ uploaded + n <= MaxKeys
      /\ uploaded' = uploaded + n /\ UNCHANGED handed
  BY RegisterNumbers
<1>2. base \in Seq(Keys)
  BY Typed
<1>3. new \in Seq(Keys)
  BY <1>1, <1>2, Pushed, Zenon
<1>4. /\ signed' = [signed EXCEPT ![d] = spk]
      /\ otpk' = [otpk EXCEPT ![d] = LPush(base, new)]
  BY DEF Register
<1>5. spk # None
  BY NoneAssumption, SMTT(20)
<1> HIDE DEF new
<1>6. reg = [signed |-> spk, keys |-> Reverse(base) \o new]
  <2>1. CASE spk = signed[d]
    <3>1. /\ registrations[d] = [signed |-> signed[d], keys |-> Reverse(otpk[d])]
          /\ registrations[d] # None
      BY <1>5, <2>1, RegistrationTyped
    <3> QED BY <2>1, <3>1
  <2>2. CASE spk # signed[d]
    <3>1. ~(registrations[d] # None /\ registrations[d].signed = spk)
      BY <2>2 DEF registrations
    <3>2. Reverse(<<>>) = <<>>
      <4>1. <<>> \in Seq(Keys) /\ Len(<<>>) = 0
        OBVIOUS
      <4>2. Reverse(<<>>) \in Seq(Keys) /\ Len(Reverse(<<>>)) = 0
        BY <4>1, Reversed, Zenon
      <4> QED BY <4>2
    <3>3. <<>> \o new = new
      BY <1>3
    <3> QED BY <2>2, <3>1, <3>2, <3>3, Zenon
  <2> QED BY <2>1, <2>2
<1>7. registrations'[d] = reg
  <2> HIDE DEF reg, base
  <2>1. signed'[d] = spk /\ otpk'[d] = LPush(base, new)
    BY <1>4, Typed
  <2>2. registrations'[d] = [signed |-> spk, keys |-> Reverse(LPush(base, new))]
    BY <1>5, <2>1 DEF registrations
  <2> QED BY <1>2, <1>3, <1>6, <2>2, PushReversed, Zenon
<1>8. \A e \in Devices : e # d => registrations'[e] = registrations[e]
  BY <1>4, Typed DEF registrations
<1>9. registrations' = [registrations EXCEPT ![d] = reg]
  <2> HIDE DEF reg
  <2>1. /\ registrations = [e \in Devices |-> registrations[e]]
        /\ registrations' = [e \in Devices |-> registrations'[e]]
    BY DEF registrations
  <2> QED BY <1>7, <1>8, <2>1
<1>10. Directory!NewKeys(n) = new
  BY DEF Directory!NewKeys, new, NewKeys
<1> QED BY <1>1, <1>9, <1>10 DEF Directory!DirRegister

\* unregister.lua is an Unregister of the directory.
LEMMA UnregisterRefines ==
  ASSUME TypeOK, NEW d \in Devices, Unregister(d)
  PROVE  Directory!DirUnregister(d)
<1>1. /\ signed' = [signed EXCEPT ![d] = None] /\ otpk' = [otpk EXCEPT ![d] = <<>>]
      /\ UNCHANGED <<uploaded, handed>>
  BY DEF Unregister
<1>2. /\ registrations'[d] = None
      /\ \A e \in Devices : e # d => registrations'[e] = registrations[e]
  BY <1>1, Typed DEF registrations
<1>3. /\ registrations = [e \in Devices |-> registrations[e]]
      /\ registrations' = [e \in Devices |-> registrations'[e]]
  BY DEF registrations
<1> QED BY <1>1, <1>2, <1>3 DEF Directory!DirUnregister

\* get_pre_key.lua is a Take from one device, or changes nothing there.
LEMMA getPreKeyRefines ==
  ASSUME TypeOK, KeyInv, NEW r \in Requests, NEW d \in Devices, getPreKey(r, d)
  PROVE  Directory!DirTake({d}) \/ UNCHANGED <<registrations, uploaded, handed>>
<1> DEFINE list == otpk[d]
<1>1. UNCHANGED <<signed, uploaded>>
  BY DEF getPreKey
<1>2. CASE list = <<>>
  BY <1>1, <1>2 DEF getPreKey, registrations
<1>3. CASE list # <<>>
  <2>1. /\ otpk' = [otpk EXCEPT ![d] = Tail(list)]
        /\ handed' = [handed EXCEPT ![Head(list)] = handed[Head(list)] + 1]
    BY <1>3 DEF getPreKey
  <2>2. signed[d] # None
    BY <1>3 DEF KeyInv, NoKeysLeft
  <2> DEFINE all == Reverse(list)
             reg == [signed |-> signed[d], keys |-> all]
             rest == [signed |-> signed[d], keys |-> SubSeq(all, 1, Len(all) - 1)]
  <2>3. /\ registrations[d] = reg /\ registrations[d] # None
        /\ list \in Seq(Keys)
    BY <2>2, RegistrationTyped
  <2>4. /\ all # <<>> /\ all[Len(all)] = Head(list)
        /\ Reverse(Tail(list)) = SubSeq(all, 1, Len(all) - 1)
    BY <1>3, <2>3, PopReversed
  <2>5. registrations'[d] = rest
    <3>1. signed'[d] = signed[d] /\ otpk'[d] = Tail(list)
      BY <1>1, <2>1, Typed
    <3> QED BY <2>2, <2>4, <3>1 DEF registrations
  <2> HIDE DEF all
  <2>6. [registrations[d] EXCEPT !.keys = SubSeq(@, 1, Len(@) - 1)] = rest
    <3>1. registrations[d].keys = all
      BY <2>3
    <3>2. [reg EXCEPT !.keys = SubSeq(all, 1, Len(all) - 1)] = rest
      BY ONLY TRUE
    <3> QED BY <2>3, <3>1, <3>2
  <2>7. \A e \in Devices : e # d => registrations'[e] = registrations[e]
    BY <1>1, <2>1, Typed DEF registrations
  <2>8. registrations' = [e \in Devices |-> registrations'[e]]
    BY DEF registrations
  <2>9. {e \in {d} : registrations[e].keys # <<>>} = {d}
    BY <2>3, <2>4
  <2> DEFINE take(e) == [registrations[e] EXCEPT !.keys = SubSeq(@, 1, Len(@) - 1)]
             last(e) == registrations[e].keys[Len(registrations[e].keys)]
  <2>10. registrations' = [e \in Devices |->
           IF e \notin {d} THEN registrations[e] ELSE take(e)]
    <3>1. registrations'[d] = take(d)
      BY <2>5, <2>6
    <3> HIDE DEF take, rest
    <3> QED BY <2>7, <2>8, <3>1
  <2>11. last(d) = Head(list)
    BY <2>3, <2>4
  <2>12. handed' = [k \in 1..MaxKeys |->
           handed[k] + (IF \E e \in {d} : last(e) = k THEN 1 ELSE 0)]
    <3> HIDE DEF last
    <3>1. handed \in [Keys -> Nat] /\ Head(list) \in Keys
      BY <1>3, <2>3, Typed
    <3>2. \A k \in Keys : handed[k] + 0 = handed[k]
      BY <3>1
    <3> QED BY <2>1, <2>11, <3>1, <3>2, Zenon DEF Keys
  <2> QED BY <1>1, <2>3, <2>9, <2>10, <2>12 DEF Directory!DirTake
<1> QED BY <1>2, <1>3

\* Whatever requests run at the same time, redisdb keeps what db.DB promises
\* about keys: keys on file are added to or replaced as a whole, and handed
\* out one by one, the last one first.
THEOREM DirectoryImplemented == Spec => ImplementsDirectory
<1>1. Init => Directory!DirInit
  BY Zenon DEF Init, Directory!DirInit, registrations, Keys
<1>2. TypeOK /\ KeyInv /\ [Next]_vars =>
        [Directory!DirNext]_(<<registrations, uploaded, handed>>)
  <2> SUFFICES ASSUME TypeOK, KeyInv, [Next]_vars
               PROVE  Directory!DirNext \/ UNCHANGED <<registrations, uploaded, handed>>
    OBVIOUS
  <2>1. CASE UNCHANGED <<signed, otpk, uploaded, handed>>
    BY <2>1 DEF registrations
  <2>2. ASSUME NEW d \in Devices, NEW spk \in SignedPreKeys, NEW n \in 0..MaxUpload,
               Register(d, spk, n)
        PROVE  Directory!DirNext
    BY <2>2, RegisterRefines DEF Directory!DirNext
  <2>3. ASSUME NEW d \in Devices, Unregister(d) PROVE Directory!DirNext
    BY <2>3, UnregisterRefines DEF Directory!DirNext
  <2>4. ASSUME NEW r \in Requests, NEW d \in Devices, getPreKey(r, d)
        PROVE  Directory!DirNext \/ UNCHANGED <<registrations, uploaded, handed>>
    <3>1. {d} \in SUBSET Devices
      OBVIOUS
    <3> QED BY <2>4, <3>1, getPreKeyRefines, Zenon DEF Directory!DirNext
  <2> QED
    BY <2>1, <2>2, <2>3, <2>4, Zenon
       DEF Next, RequestPreKeys, ExecError, Collect, Answer
<1> QED
  BY <1>1, <1>2, TypeCorrect, KeysHold, PTL
     DEF Spec, ImplementsDirectory, Directory!DirSpec, Directory!dirVars
=============================================================================
