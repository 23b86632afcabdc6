------------------------- MODULE ChatNumbersProofs -------------------------
(***************************************************************************)
(* Proofs about ChatNumbers, for any connections, identities, numbers,     *)
(* rates and times.                                                        *)
(***************************************************************************)
EXTENDS ChatNumbers, FiniteSetTheorems, TLAPS

USE DEF vars, maps, limiter, conn

\* The candidates of an identity are numbers and short numbers.
LEMMA Candidates ==
  ASSUME NEW i \in Identities, NEW n \in 0..TailLen
  PROVE  newNumber(i, n) \in Numbers /\ newShortNumber(i, n) \in ShortNumbers
  BY DEF Numbers, ShortNumbers

\* A sleep ends at a time.
LEMMA LaterTime ==
  ASSUME NEW t \in Nat, NEW d \in Int, d < 0
  PROVE  t - d \in Nat
  OBVIOUS

\* TypeOK holds to begin with.
LEMMA TypeInit == Init => TypeOK
  BY NumberConstants DEF Init, TypeOK

\* AssignNumber keeps the types of the four hashes.
LEMMA AssignType ==
  ASSUME TypeOK, NEW i \in Identities, NEW n \in 0..TailLen, AssignNumber(i, n)
  PROVE  /\ numberOf' \in [Identities -> Numbers \cup {None}]
         /\ identityOf' \in [Numbers -> Identities \cup {None}]
         /\ shortOf' \in [Numbers -> ShortNumbers \cup {None}]
         /\ numberOfShort' \in [ShortNumbers -> Numbers \cup {None}]
         /\ numberOf'[i] = newNumber(i, n)
  BY Candidates DEF AssignNumber, TypeOK

\* Every step keeps the types.
LEMMA TypeStep ==
  ASSUME TypeOK, [Next]_vars
  PROVE  TypeOK'
<1> USE NumberConstants
<1>1. ASSUME NEW c \in Conns, RegisterChatNumber(c) PROVE TypeOK'
  BY <1>1 DEF RegisterChatNumber, TypeOK
<1>2. ASSUME NEW c \in Conns, EarlyReturn(c) PROVE TypeOK'
  <2>1. CASE Known(c) /\ Return(c, numberOf[IdentityOf[c]])
    BY <1>2, <2>1 DEF EarlyReturn, Return, Returned, Known, TypeOK
  <2>2. CASE ~Known(c) /\ Taken(c) /\ NumberTaken(c)
    BY <1>2, <2>2 DEF EarlyReturn, NumberTaken, Returned, lastChance, TypeOK
  <2> QED BY <1>2, <2>1, <2>2 DEF EarlyReturn
<1>3. ASSUME NEW c \in Conns, AssignNumber(IdentityOf[c], iter[c]),
             Return(c, numberOf'[IdentityOf[c]]), UNCHANGED clock,
             lastTime' \in Nat \cup {None}, tokens' \in Int,
             first' \in Nat \cup {None}, attempts' \in Nat
      PROVE  TypeOK'
  <2>1. IdentityOf[c] \in Identities /\ iter[c] \in 0..TailLen
    BY DEF TypeOK
  <2>2. numberOf'[IdentityOf[c]] \in Numbers
    BY <1>3, <2>1, AssignType, Candidates
  <2>3. /\ pc' \in [Conns -> {"start", "limited", "sleep", "done", "failed"}]
        /\ told' \in [Conns -> Numbers \cup {None}]
        /\ sent' \in [Conns -> Nat]
        /\ wake' \in [Conns -> Nat]
        /\ iter' = iter
    BY <1>3, <2>2 DEF Return, Returned, TypeOK
  <2> QED BY <1>3, <2>1, <2>3, AssignType DEF TypeOK
<1>4. ASSUME NEW c \in Conns, RateLimited(c) PROVE TypeOK'
  <2>1. CASE EarlyReturn(c)
    BY <1>2, <2>1
  <2>2. CASE ~EarlyReturn(c)
    <3>1. /\ attempts' = attempts + 1
          /\ lastTime' = sent[c]
          /\ tokens' = availableTokens(sent[c])
          /\ first' = IF first = None THEN sent[c] ELSE first
          /\ UNCHANGED clock
      BY <1>4, <2>2 DEF RateLimited
    <3>2. sent[c] \in Nat
      BY DEF TypeOK
    <3>3. tokens' \in Int /\ first' \in Nat \cup {None} /\ attempts' \in Nat
      BY <3>1, <3>2 DEF TypeOK, availableTokens
    <3>4. CASE /\ lastTime # None /\ tokens' < 0
               /\ \/ /\ pc' = [pc EXCEPT ![c] = "sleep"]
                     /\ wake' = [wake EXCEPT ![c] = clock - tokens']
                     /\ UNCHANGED sent
                  \/ /\ pc' = [pc EXCEPT ![c] = "failed"]
                     /\ Returned(c)
               /\ UNCHANGED <<maps, iter, told>>
      <4>3. clock \in Nat /\ tokens' \in Int /\ tokens' < 0
        BY <3>3, <3>4 DEF TypeOK
      <4>1. clock - tokens' \in Nat
        BY <4>3, LaterTime, Zenon
      <4>2. /\ pc' \in [Conns -> {"start", "limited", "sleep", "done", "failed"}]
            /\ wake' \in [Conns -> Nat]
            /\ sent' \in [Conns -> Nat]
        BY <3>4, <4>1 DEF TypeOK, Returned
      <4> QED BY <3>1, <3>2, <3>3, <3>4, <4>2 DEF TypeOK
    <3>5. CASE /\ AssignNumber(IdentityOf[c], iter[c])
               /\ Return(c, numberOf'[IdentityOf[c]])
      BY <1>3, <3>1, <3>2, <3>3, <3>5
    <3> QED BY <1>4, <2>2, <3>4, <3>5 DEF RateLimited
  <2> QED BY <2>1, <2>2
<1>5. ASSUME NEW c \in Conns, Unlimited(c) PROVE TypeOK'
  <2>1. CASE EarlyReturn(c)
    BY <1>2, <2>1
  <2>2. CASE ~EarlyReturn(c)
    <3>1. UNCHANGED limiter /\ limiter = <<lastTime, tokens, first, attempts>>
      BY <1>5, <2>2 DEF Unlimited
    <3> QED BY <1>3, <1>5, <2>2, <3>1 DEF Unlimited, TypeOK
  <2> QED BY <2>1, <2>2
<1>6. ASSUME NEW c \in Conns, CallError(c) PROVE TypeOK'
  BY <1>6 DEF CallError, Returned, TypeOK
<1>7. ASSUME NEW c \in Conns, Reconnect(c) PROVE TypeOK'
  BY <1>7 DEF Reconnect, TypeOK
<1>8. CASE Tick
  BY <1>8 DEF Tick, TypeOK
<1>9. CASE UNCHANGED vars
  BY <1>9 DEF TypeOK
<1> QED BY <1>1, <1>4, <1>5, <1>6, <1>7, <1>8, <1>9 DEF Next

\* Every variable keeps its type.
THEOREM TypeCorrect == Spec => []TypeOK
<1>1. TypeOK /\ [Next]_vars => TypeOK'
  BY TypeStep
<1> QED BY <1>1, TypeInit, PTL DEF Spec
-----------------------------------------------------------------------------
(***************************************************************************)
(* Uniqueness.                                                             *)
(***************************************************************************)

\* The hashes are only written for an identity that has no number, and only
\* with a number no identity has.
LEMMA MapsStep ==
  ASSUME [Next]_vars
  PROVE  \/ UNCHANGED maps
         \/ \E c \in Conns : /\ ~Known(c)
                             /\ ~Taken(c)
                             /\ AssignNumber(IdentityOf[c], iter[c])
  BY DEF Next, RegisterChatNumber, RateLimited, EarlyReturn, Unlimited,
         CallError, Reconnect, Tick

\* Assigning a free number to an identity without one keeps numbers unique.
LEMMA UniqueStep ==
  ASSUME TypeOK, UniqueNumbers, [Next]_vars
  PROVE  UniqueNumbers'
<1> USE NumberConstants, NoneAssumption
<1>1. CASE UNCHANGED maps
  BY <1>1 DEF UniqueNumbers
<1>2. ASSUME NEW c \in Conns, ~Known(c), ~Taken(c),
             AssignNumber(IdentityOf[c], iter[c])
      PROVE  UniqueNumbers'
  <2> DEFINE j == IdentityOf[c]
             number == newNumber(j, iter[c])
  <2>1. j \in Identities /\ number \in Numbers
    BY Candidates DEF TypeOK
  <2>2. /\ numberOf[j] = None
        /\ identityOf[number] = None
        /\ numberOf' = [numberOf EXCEPT ![j] = number]
        /\ identityOf' = [identityOf EXCEPT ![number] = j]
    BY <1>2 DEF Known, Taken, AssignNumber
  <2> HIDE DEF j, number
  <2> QED BY <2>1, <2>2 DEF UniqueNumbers, TypeOK
<1> QED BY <1>1, <1>2, MapsStep

\* For any connections authenticating at the same time, with calls that fail
\* or whose answers are lost: an identity has at most one number, and a
\* number at most one identity, and the two hashes agree.
THEOREM UniqueNumbersHold == Spec => []UniqueNumbers
<1>1. Init => UniqueNumbers
  BY NoneAssumption DEF Init, UniqueNumbers
<1>2. TypeOK /\ UniqueNumbers /\ [Next]_vars => UniqueNumbers'
  BY UniqueStep
<1> QED BY <1>1, <1>2, TypeCorrect, PTL DEF Spec

\* Whatever connections, variants and rates there are, redisdb assigns a number
\* to an identity without one, the number being nobody's, and changes nothing
\* else: it implements the directory of numbers.
THEOREM NumbersImplemented == Spec => ImplementsNumbers
<1>1. Init => Directory!NumbersInit
  BY DEF Init, Directory!NumbersInit
<1>2. TypeOK /\ UniqueNumbers /\ [Next]_vars => [Directory!NumbersNext]_numberOf
  <2> SUFFICES ASSUME TypeOK, UniqueNumbers, [Next]_vars
               PROVE  [Directory!NumbersNext]_numberOf
    OBVIOUS
  <2>1. CASE UNCHANGED maps
    BY <2>1
  <2>2. ASSUME NEW c \in Conns, ~Known(c), ~Taken(c),
               AssignNumber(IdentityOf[c], iter[c])
        PROVE  Directory!NumbersNext
    <3> DEFINE i == IdentityOf[c]
               m == newNumber(i, iter[c])
    <3>1. i \in Identities /\ iter[c] \in 0..TailLen
      BY NumberConstants DEF TypeOK
    <3>2. m \in Numbers
      BY <3>1, Candidates
    <3>3. numberOf[i] = None /\ identityOf[m] = None
      BY <2>2 DEF Known, Taken
    <3>4. numberOf' = [numberOf EXCEPT ![i] = m]
      BY <2>2 DEF AssignNumber
    <3> HIDE DEF i, m
    <3>5. \A j \in Identities : numberOf[j] # m
      BY <3>2, <3>3, NoneAssumption DEF UniqueNumbers
    <3> QED BY <3>1, <3>2, <3>3, <3>4, <3>5, Zenon DEF Directory!NumbersNext, Directory!Assign
  <2> QED BY <2>1, <2>2, MapsStep
<1> QED
  BY <1>1, <1>2, TypeCorrect, UniqueNumbersHold, PTL
     DEF Spec, ImplementsNumbers, Directory!NumbersSpec

\* An identity's number is a variant of its preferred one, its short number is
\* that of the same variant and leads back to it.
Leads(i, n) ==
  /\ numberOf[i] = newNumber(i, n)
  /\ shortOf[newNumber(i, n)] = newShortNumber(i, n)
  /\ numberOfShort[newShortNumber(i, n)] = newNumber(i, n)

ShortInv == \A i \in Assigned : \E n \in 0..TailLen : Leads(i, n)

\* Numbers with the same short number are the same.
LEMMA ShortDecides ==
  ASSUME ShortPartDecides, NEW i \in Identities, NEW j \in Identities,
         NEW n \in 0..TailLen, NEW k \in 0..TailLen,
         newShortNumber(i, n) = newShortNumber(j, k)
  PROVE  newNumber(i, n) = newNumber(j, k)
<1>1. CASE lastChance(n) /\ lastChance(k)
  BY <1>1 DEF newShortNumber
<1>2. CASE ~lastChance(n) /\ ~lastChance(k)
  <2>1. <<n, ShortPart[i]>> = <<k, ShortPart[j]>>
    BY <1>2 DEF newShortNumber
  <2>2. n = k /\ ShortPart[i] = ShortPart[j]
    BY <2>1
  <2>3. TailPart[i] = TailPart[j]
    BY <2>2 DEF ShortPartDecides
  <2> QED BY <2>2, <2>3 DEF newNumber
<1>3. CASE lastChance(n) /\ ~lastChance(k)
  <2>1. <<IF lastChance(n) THEN 0 ELSE n, ShortPart[i], TailPart[i]>>
          = <<k, ShortPart[j]>>
    BY <1>3 DEF newShortNumber, newNumber
  <2> QED BY <2>1
<1>4. CASE ~lastChance(n) /\ lastChance(k)
  <2>1. <<n, ShortPart[i]>>
          = <<IF lastChance(k) THEN 0 ELSE k, ShortPart[j], TailPart[j]>>
    BY <1>4 DEF newShortNumber, newNumber
  <2> QED BY <2>1
<1> QED BY <1>1, <1>2, <1>3, <1>4

\* Every step keeps this, where the first 12 digits tell preferred numbers apart:
\* a number that is assigned later has another short number.
LEMMA ShortStep ==
  ASSUME ShortPartDecides, TypeOK, UniqueNumbers, ShortInv, [Next]_vars
  PROVE  ShortInv'
<1> USE NumberConstants, NoneAssumption
<1>1. CASE UNCHANGED maps
  BY <1>1 DEF ShortInv, Leads, Assigned, maps
<1>2. ASSUME NEW c \in Conns, ~Known(c), ~Taken(c),
             AssignNumber(IdentityOf[c], iter[c])
      PROVE  ShortInv'
  <2>0. PICK n \in 0..TailLen : n = iter[c]
    BY DEF TypeOK
  <2> DEFINE i == IdentityOf[c]
             number == newNumber(i, n)
             short == newShortNumber(i, n)
  <2>1. i \in Identities /\ number \in Numbers /\ short \in ShortNumbers
    BY Candidates DEF TypeOK
  <2>2. /\ numberOf[i] = None /\ identityOf[number] = None
        /\ numberOf' = [numberOf EXCEPT ![i] = number]
        /\ shortOf' = [shortOf EXCEPT ![number] = short]
        /\ numberOfShort' = [numberOfShort EXCEPT ![short] = number]
    BY <1>2, <2>0 DEF Known, Taken, AssignNumber
  <2> HIDE DEF i
  <2>3. Leads(i, n)'
    <3> HIDE DEF number, short
    <3>1. numberOf'[i] = number
      BY <2>1, <2>2 DEF TypeOK
    <3>2. shortOf'[number] = short
      BY <2>1, <2>2 DEF TypeOK
    <3>3. numberOfShort'[short] = number
      BY <2>1, <2>2 DEF TypeOK
    <3> QED BY <3>1, <3>2, <3>3 DEF Leads, number, short
  <2>4. ASSUME NEW j \in Assigned', j # i
        PROVE  \E k \in 0..TailLen : Leads(j, k)'
    <3>1. j \in Identities /\ numberOf'[j] = numberOf[j] /\ j \in Assigned
      <4> HIDE DEF number, short
      <4> QED BY <2>1, <2>2, <2>4 DEF TypeOK, Assigned
    <3>2. PICK k \in 0..TailLen : Leads(j, k)
      BY <3>1 DEF ShortInv
    <3>3. newNumber(j, k) \in Numbers /\ newShortNumber(j, k) \in ShortNumbers
      BY <3>1, Candidates
    <3>4. newNumber(j, k) # number
      <4>1. identityOf[newNumber(j, k)] = j
        BY <3>1, <3>2, <3>3 DEF UniqueNumbers, Leads
      <4>2. j # None
        BY <3>1
      <4> HIDE DEF number
      <4> QED BY <2>2, <4>1, <4>2
    <3>5. newShortNumber(j, k) # short
      BY <2>1, <3>1, <3>4, ShortDecides
    <3> HIDE DEF number, short
    <3>6. /\ shortOf'[newNumber(j, k)] = shortOf[newNumber(j, k)]
          /\ numberOfShort'[newShortNumber(j, k)] = numberOfShort[newShortNumber(j, k)]
      BY <2>2, <3>3, <3>4, <3>5 DEF TypeOK
    <3>7. Leads(j, k)'
      BY <3>1, <3>2, <3>6 DEF Leads
    <3> QED BY <3>7
  <2> QED BY ONLY <2>1, <2>3, <2>4 DEF ShortInv
<1> QED BY <1>1, <1>2, MapsStep

\* Whoever registered at the same time and whatever variants had to be tried: a
\* short number leads to the number that FindChatNumberByIdentityKey returned it
\* with, where the first 12 digits tell preferred numbers apart.
THEOREM ShortNumbersLeadBack ==
  ASSUME ShortPartDecides
  PROVE  Spec => []ShortNumberFindsNumber
<1>1. Init => ShortInv
  BY Zenon DEF Init, ShortInv, Assigned
<1>2. TypeOK /\ UniqueNumbers /\ ShortInv /\ [Next]_vars => ShortInv'
  BY ShortStep
<1>3. ShortInv => ShortNumberFindsNumber
  <2> SUFFICES ASSUME ShortInv, NEW i \in Assigned
               PROVE  FindChatNumberByShortNumber(FindChatNumberByIdentityKey(i)[2])
                        = FindChatNumberByIdentityKey(i)[1]
    BY DEF ShortNumberFindsNumber
  <2>1. numberOfShort[shortOf[numberOf[i]]] = numberOf[i]
    BY DEF ShortInv, Leads
  <2>2. /\ FindChatNumberByIdentityKey(i)[1] = numberOf[i]
        /\ FindChatNumberByIdentityKey(i)[2] = shortOf[numberOf[i]]
    BY DEF FindChatNumberByIdentityKey
  <2> QED BY <2>1, <2>2 DEF FindChatNumberByShortNumber
<1> QED BY <1>1, <1>2, <1>3, TypeCorrect, UniqueNumbersHold, PTL DEF Spec

\* Whichever numbers share their first 12 digits: what
\* FindChatNumberByShortNumber returns is the number of an identity, and
\* FindChatNumberByIdentityKey returns it with this very short number.
ShortNumberIsOfNumber ==
  \A h \in ShortNumbers :
    LET found == FindChatNumberByShortNumber(h)
    IN  found # None => \E i \in Assigned : FindChatNumberByIdentityKey(i) = <<found, h>>

\* Every step keeps this: a number is nobody's when it is assigned, so no earlier
\* entry leads to it.
LEMMA ShortOwnedStep ==
  ASSUME TypeOK, UniqueNumbers, ShortNumberIsOfNumber, [Next]_vars
  PROVE  ShortNumberIsOfNumber'
<1> USE NumberConstants, NoneAssumption
<1>1. CASE UNCHANGED maps
  BY <1>1, Zenon
     DEF ShortNumberIsOfNumber, FindChatNumberByShortNumber, FindChatNumberByIdentityKey,
         Assigned, maps
<1>2. ASSUME NEW c \in Conns, ~Known(c), ~Taken(c),
             AssignNumber(IdentityOf[c], iter[c]),
             NEW h \in ShortNumbers, numberOfShort'[h] # None
      PROVE  \E i \in Assigned' : numberOf'[i] = numberOfShort'[h]
                                  /\ shortOf'[numberOf'[i]] = h
  <2> DEFINE j == IdentityOf[c]
             number == newNumber(j, iter[c])
             short == newShortNumber(j, iter[c])
  <2>1. j \in Identities /\ number \in Numbers /\ short \in ShortNumbers
    BY Candidates DEF TypeOK
  <2>2. /\ numberOf[j] = None /\ identityOf[number] = None
        /\ numberOf' = [numberOf EXCEPT ![j] = number]
        /\ shortOf' = [shortOf EXCEPT ![number] = short]
        /\ numberOfShort' = [numberOfShort EXCEPT ![short] = number]
    BY <1>2 DEF Known, Taken, AssignNumber
  <2> HIDE DEF j, number, short
  <2>3. /\ numberOf \in [Identities -> Numbers \cup {None}]
        /\ shortOf \in [Numbers -> ShortNumbers \cup {None}]
        /\ numberOfShort \in [ShortNumbers -> Numbers \cup {None}]
    BY Zenon DEF TypeOK
  <2>4. CASE h = short
    <3>1. numberOf'[j] = number /\ shortOf'[number] = h /\ numberOfShort'[h] = number
      BY <2>1, <2>2, <2>3, <2>4
    <3>2. j \in Assigned'
      BY <2>1, <3>1 DEF Assigned
    <3> QED BY <3>1, <3>2
  <2>5. CASE h # short
    <3>1. numberOfShort'[h] = numberOfShort[h]
      BY <2>2, <2>3, <2>5
    <3>2. PICK i \in Assigned : <<numberOf[i], shortOf[numberOf[i]]>> = <<numberOfShort[h], h>>
      BY <1>2, <3>1
         DEF ShortNumberIsOfNumber, FindChatNumberByShortNumber, FindChatNumberByIdentityKey
    <3>3. numberOf[i] = numberOfShort[h] /\ shortOf[numberOf[i]] = h
      BY <3>2
    <3>4. i \in Identities /\ numberOf[i] \in Numbers
      BY <2>3, <3>2 DEF Assigned
    <3>5. identityOf[numberOf[i]] = i
      BY <3>4 DEF UniqueNumbers
    <3>6. numberOf[i] # number /\ i # j
      BY <2>1, <2>2, <3>4, <3>5
    <3>7. numberOf'[i] = numberOf[i] /\ shortOf'[numberOf[i]] = shortOf[numberOf[i]]
      BY <2>2, <2>3, <3>4, <3>6
    <3>8. i \in Assigned'
      BY <3>4, <3>7 DEF Assigned
    <3> QED BY <3>1, <3>3, <3>7, <3>8
  <2> QED BY <2>4, <2>5
<1>3. ASSUME NEW c \in Conns, ~Known(c), ~Taken(c), AssignNumber(IdentityOf[c], iter[c])
      PROVE  ShortNumberIsOfNumber'
  <2> SUFFICES ASSUME NEW h \in ShortNumbers, numberOfShort'[h] # None
               PROVE  \E i \in Assigned' :
                        <<numberOf'[i], shortOf'[numberOf'[i]]>> = <<numberOfShort'[h], h>>
    BY Zenon
       DEF ShortNumberIsOfNumber, FindChatNumberByShortNumber, FindChatNumberByIdentityKey
  <2> QED BY <1>2, <1>3
<1> QED BY <1>1, <1>3, MapsStep

\* Even where preferred numbers agree in their first 12 digits only, a lookup by
\* short number never returns a number that nobody has, nor one that goes by
\* another short number.
THEOREM ShortNumbersAreOfNumbers == Spec => []ShortNumberIsOfNumber
<1>1. Init => ShortNumberIsOfNumber
  BY Zenon DEF Init, ShortNumberIsOfNumber, FindChatNumberByShortNumber
<1>2. TypeOK /\ UniqueNumbers /\ ShortNumberIsOfNumber /\ [Next]_vars
        => ShortNumberIsOfNumber'
  BY ShortOwnedStep
<1> QED BY <1>1, <1>2, TypeCorrect, UniqueNumbersHold, PTL DEF Spec

\* What a connection was told is its identity's number.
ToldItsNumber ==
  \A c \in Conns : told[c] # None => numberOf[IdentityOf[c]] = told[c]

\* An assigned number is never replaced.
LEMMA NumberKept ==
  ASSUME TypeOK, [Next]_vars, NEW i \in Identities, numberOf[i] # None
  PROVE  numberOf'[i] = numberOf[i]
<1>1. CASE UNCHANGED maps
  BY <1>1
<1>2. ASSUME NEW c \in Conns, ~Known(c), AssignNumber(IdentityOf[c], iter[c])
      PROVE  numberOf'[i] = numberOf[i]
  BY <1>2 DEF Known, AssignNumber, TypeOK
<1> QED BY <1>1, <1>2, MapsStep

\* getNumber returns the number its identity has by then.
LEMMA ToldStep ==
  ASSUME TypeOK, ToldItsNumber, [Next]_vars
  PROVE  ToldItsNumber'
<1> USE NumberConstants, NoneAssumption
<1> SUFFICES ASSUME NEW c \in Conns, told'[c] # None
             PROVE  numberOf'[IdentityOf[c]] = told'[c]
  BY DEF ToldItsNumber
<1>1. CASE told'[c] = told[c]
  <2>1. numberOf[IdentityOf[c]] = told[c] /\ IdentityOf[c] \in Identities
    BY <1>1 DEF ToldItsNumber
  <2> QED BY <1>1, <2>1, NumberKept
<1>2. ASSUME NEW e \in Conns, EarlyReturn(e) PROVE numberOf'[IdentityOf[c]] = told'[c]
  <2>1. told'[c] = told[c] \/ told'[c] = numberOf[IdentityOf[c]]
    BY <1>2 DEF EarlyReturn, Return, NumberTaken, TypeOK
  <2>2. UNCHANGED numberOf
    BY <1>2 DEF EarlyReturn
  <2> QED BY <1>1, <2>1, <2>2
<1>3. ASSUME NEW e \in Conns, Return(e, numberOf'[IdentityOf[e]])
      PROVE  numberOf'[IdentityOf[c]] = told'[c]
  <2>1. told'[c] = told[c] \/ told'[c] = numberOf'[IdentityOf[c]]
    BY <1>3, SMTT(20) DEF Return, TypeOK
  <2> QED BY <1>1, <2>1
<1>4. ASSUME NEW e \in Conns, RateLimited(e) PROVE numberOf'[IdentityOf[c]] = told'[c]
  BY <1>1, <1>2, <1>3, <1>4 DEF RateLimited
<1>5. ASSUME NEW e \in Conns, Unlimited(e) PROVE numberOf'[IdentityOf[c]] = told'[c]
  BY <1>2, <1>3, <1>5 DEF Unlimited
<1>6. ASSUME NEW e \in Conns, Reconnect(e) PROVE numberOf'[IdentityOf[c]] = told'[c]
  <2>1. told'[c] = told[c] \/ told'[c] = None
    BY <1>6 DEF Reconnect, TypeOK
  <2> QED BY <1>1, <2>1
<1>7. ASSUME UNCHANGED told PROVE numberOf'[IdentityOf[c]] = told'[c]
  BY <1>1, <1>7
<1> QED BY <1>4, <1>5, <1>6, <1>7 DEF Next, RegisterChatNumber, CallError, Tick

\* For every interleaving of the connections of an identity, whichever
\* variants they ask for: the number it was told stays its number.
THEOREM NumberIsConstant == Spec => NumberConstant
<1>1. Init => ToldItsNumber
  BY SMTT(20) DEF Init, ToldItsNumber
<1>2. TypeOK /\ ToldItsNumber /\ [Next]_vars => ToldItsNumber'
  BY ToldStep
<1>3. TypeOK /\ ToldItsNumber /\ [Next]_vars =>
        [\A c \in Conns : told[c] # None =>
           numberOf'[IdentityOf[c]] = told[c]]_vars
  <2> SUFFICES ASSUME TypeOK, ToldItsNumber, [Next]_vars, NEW c \in Conns,
                      told[c] # None
               PROVE  numberOf'[IdentityOf[c]] = told[c]
    OBVIOUS
  <2>1. numberOf[IdentityOf[c]] = told[c] /\ IdentityOf[c] \in Identities
    BY NumberConstants DEF ToldItsNumber
  <2> QED BY <2>1, NumberKept
<1> QED BY <1>1, <1>2, <1>3, TypeCorrect, PTL DEF Spec, NumberConstant
-----------------------------------------------------------------------------
(***************************************************************************)
(* The rate limit.                                                         *)
(***************************************************************************)

\* Multiplying with Required keeps the order.
LEMMA Times ==
  ASSUME NEW x \in Int, NEW y \in Int, x <= y
  PROVE  x * Required <= y * Required
  BY NumberConstants

\* Multiplying with Required is distributive over a step of one.
LEMMA TimesSucc ==
  ASSUME NEW x \in Int
  PROVE  /\ x * Required \in Int
         /\ (x - 1) * Required \in Int
         /\ (x - 1) * Required + Required = x * Required
         /\ (0 - 1) * Required <= 0
         /\ 0 * Required = 0
  BY NumberConstants

\* The sets that are counted are finite.
LEMMA Counts ==
  /\ IsFiniteSet(Assigned) /\ Registrations \in Nat
  /\ IsFiniteSet(Sleeping) /\ Cardinality(Sleeping) \in Nat
  /\ \A t \in Nat : /\ IsFiniteSet(Due(t))
                    /\ Cardinality(Due(t)) \in Nat
                    /\ Cardinality(Due(t)) <= Cardinality(Sleeping)
<1>1. Assigned \subseteq Identities
  BY DEF Assigned
<1>2. Sleeping \subseteq Conns /\ \A t \in Nat : Due(t) \subseteq Sleeping
  BY DEF Sleeping, Due
<1>3. IsFiniteSet(Assigned) /\ IsFiniteSet(Sleeping)
  BY <1>1, <1>2, FS_Subset, NumberConstants
<1>4. \A t \in Nat : IsFiniteSet(Due(t))
                     /\ Cardinality(Due(t)) <= Cardinality(Sleeping)
  BY <1>2, <1>3, FS_Subset
<1> QED BY <1>3, <1>4, FS_CardinalityType DEF Registrations

\* An attempt that goes through keeps the account of the tokens.
LEMMA TokensStep ==
  ASSUME TypeOK, TokensAddUp, NEW c \in Conns,
         attempts' = attempts + 1,
         lastTime' = sent[c],
         tokens' = availableTokens(sent[c]),
         first' = IF first = None THEN sent[c] ELSE first
  PROVE  /\ first' \in Nat /\ first' <= clock
         /\ attempts > 0 => first' = first
         /\ tokens' = sent[c] - first' - attempts * Required
<1>1. sent[c] \in Nat /\ sent[c] <= clock /\ clock \in Nat /\ attempts \in Nat
  BY DEF TypeOK, TokensAddUp
<1>2. CASE attempts = 0
  <2>1. lastTime = None /\ first = None /\ tokens = 0
    BY <1>2 DEF TokensAddUp
  <2>2. tokens' = 0 /\ first' = sent[c]
    BY <2>1 DEF availableTokens
  <2> QED BY <1>1, <1>2, <2>2, TimesSucc
<1>3. CASE attempts > 0
  <2>1. /\ lastTime \in Nat /\ first \in Nat /\ first <= clock
        /\ tokens = lastTime - first - (attempts - 1) * Required
    BY <1>3 DEF TokensAddUp
  <2>2. first' = first /\ tokens' = tokens + (sent[c] - lastTime - Required)
    BY <2>1, NoneAssumption DEF availableTokens
  <2>3. /\ attempts * Required \in Int /\ (attempts - 1) * Required \in Int
        /\ (attempts - 1) * Required + Required = attempts * Required
    BY <1>1, TimesSucc
  <2>4. tokens' = sent[c] - first - attempts * Required
    BY <1>1, <2>1, <2>2, <2>3, NumberConstants
  <2> QED BY <2>1, <2>2, <2>4
<1> QED BY <1>1, <1>2, <1>3

\* When fewer sleep and no number is assigned, the limit is kept.
LEMMA LedgerFewer ==
  ASSUME TypeOK, TypeOK', TokensAddUp, Ledger(Nat),
         UNCHANGED limiter, clock' >= clock,
         \A c \in Conns : sent'[c] <= clock',
         Assigned' = Assigned, Sleeping' \subseteq Sleeping,
         \A c \in Sleeping' : wake'[c] = wake[c]
  PROVE  TokensAddUp' /\ Ledger(Nat)'
<1>1. Registrations' = Registrations
  BY DEF Registrations
<1>2. Cardinality(Sleeping') <= Cardinality(Sleeping) /\ Cardinality(Sleeping') \in Nat
  BY Counts, FS_Subset, FS_CardinalityType, SMTT(20)
<1>3. TokensAddUp'
  <2>1. Registrations' + Cardinality(Sleeping') <= attempts'
    BY <1>1, <1>2, Counts DEF TokensAddUp, TypeOK
  <2> QED BY <2>1 DEF TokensAddUp, TypeOK
<1>4. ASSUME NEW t \in Nat, attempts > 0, t >= clock'
      PROVE  (Registrations' + Cardinality(Due(t)') - 1) * Required <= t - first
  <2>1. Due(t)' \subseteq Due(t)
    BY DEF Due, Sleeping
  <2>2. Cardinality(Due(t)') <= Cardinality(Due(t)) /\ Cardinality(Due(t)') \in Nat
    BY <2>1, Counts, FS_Subset, FS_CardinalityType, Zenon
  <2>3. (Registrations + Cardinality(Due(t)) - 1) * Required <= t - first
    BY <1>4 DEF Ledger, TypeOK
  <2> DEFINE x == Registrations + Cardinality(Due(t)') - 1
             y == Registrations + Cardinality(Due(t)) - 1
  <2>4. x \in Int /\ y \in Int /\ x <= y
    BY <2>2, Counts
  <2>5. t - first \in Int
    BY <1>4 DEF TokensAddUp
  <2> HIDE DEF x, y
  <2>6. x * Required <= y * Required /\ x * Required \in Int /\ y * Required \in Int
    BY <2>4, Times, TimesSucc
  <2>7. y * Required <= t - first
    BY <2>3 DEF y
  <2>8. x * Required <= t - first
    BY <2>5, <2>6, <2>7
  <2> QED BY <1>1, <2>8 DEF x
<1> QED BY <1>3, <1>4 DEF Ledger
\* A sleeper that is due and gets a number was on the ledger already.
LEMMA LedgerMoved ==
  ASSUME TypeOK, TypeOK', TokensAddUp, Ledger(Nat),
         UNCHANGED limiter, clock' = clock,
         \A c \in Conns : sent'[c] <= clock',
         NEW i \in Identities, i \notin Assigned, Assigned' = Assigned \cup {i},
         NEW e \in Sleeping, wake[e] <= clock, Sleeping' = Sleeping \ {e},
         \A c \in Sleeping' : wake'[c] = wake[c]
  PROVE  TokensAddUp' /\ Ledger(Nat)'
<1>1. Registrations' = Registrations + 1
  BY Counts, FS_AddElement, Zenon DEF Registrations
<1>2. Cardinality(Sleeping') = Cardinality(Sleeping) - 1
  BY Counts, FS_RemoveElement, Zenon
<1>3. TokensAddUp'
  <2>1. Registrations' + Cardinality(Sleeping') <= attempts'
    BY <1>1, <1>2, Counts DEF TokensAddUp, TypeOK
  <2> QED BY <2>1 DEF TokensAddUp, TypeOK
<1>4. ASSUME NEW t \in Nat, attempts > 0, t >= clock
      PROVE  (Registrations' + Cardinality(Due(t)') - 1) * Required <= t - first
  <2>1. Due(t)' = Due(t) \ {e} /\ e \in Due(t)
    <3>1. wake[e] \in Nat /\ clock \in Nat
      BY DEF TypeOK, Sleeping
    <3>2. wake[e] <= t
      BY <1>4, <3>1
    <3> QED BY <3>2 DEF Due, Sleeping
  <2>2. Cardinality(Due(t)') = Cardinality(Due(t)) - 1
    BY <2>1, Counts, FS_RemoveElement, ZenonT(30)
  <2>3. (Registrations + Cardinality(Due(t)) - 1) * Required <= t - first
    BY <1>4 DEF Ledger, TypeOK
  <2>4. Registrations' + Cardinality(Due(t)') - 1 = Registrations + Cardinality(Due(t)) - 1
    BY <1>1, <2>2, Counts
  <2> QED BY <2>3, <2>4
<1> QED BY <1>3, <1>4 DEF Ledger

\* An attempt that goes through: its identity gets a number when there are
\* enough tokens, or else its connection sleeps for as long as they lack, or
\* fails.
LEMMA LedgerPassed ==
  ASSUME TypeOK, TypeOK', TokensAddUp, Ledger(Nat), NEW c \in Conns,
         c \notin Sleeping,
         attempts' = attempts + 1,
         lastTime' = sent[c],
         tokens' = availableTokens(sent[c]),
         first' = IF first = None THEN sent[c] ELSE first,
         clock' = clock,
         \A e \in Conns : sent'[e] <= clock',
         \A e \in Sleeping : wake'[e] = wake[e],
         \/ /\ Sleeping' = Sleeping \cup {c}
            /\ Assigned' = Assigned
            /\ wake'[c] = clock - tokens'
         \/ /\ Sleeping' = Sleeping
            /\ \E i \in Identities \ Assigned : Assigned' = Assigned \cup {i}
            /\ ~(lastTime # None /\ tokens' < 0)
         \/ /\ Sleeping' = Sleeping
            /\ Assigned' = Assigned
  PROVE  TokensAddUp' /\ Ledger(Nat)'
<1>1. /\ first' \in Nat /\ first' <= clock
      /\ attempts > 0 => first' = first
      /\ tokens' = sent[c] - first' - attempts * Required
  BY TokensStep
<1>2. /\ clock \in Nat /\ attempts \in Nat /\ sent[c] \in Nat /\ tokens' \in Int
      /\ sent[c] <= clock /\ attempts * Required \in Int
  BY TimesSucc DEF TypeOK, TokensAddUp
<1>3. /\ Registrations' \in Nat /\ Cardinality(Sleeping') \in Nat
      /\ Registrations' + Cardinality(Sleeping') <=
           Registrations + Cardinality(Sleeping) + 1
  <2>1. CASE Sleeping' = Sleeping \cup {c} /\ Assigned' = Assigned
    <3>1. Registrations' = Registrations
      BY <2>1 DEF Registrations
    <3>2. Cardinality(Sleeping') = Cardinality(Sleeping) + 1
      BY <2>1, Counts, FS_AddElement, Zenon
    <3> QED BY <3>1, <3>2, Counts
  <2>2. CASE Sleeping' = Sleeping /\ Assigned' = Assigned
    BY <2>2, Counts DEF Registrations
  <2>3. CASE /\ Sleeping' = Sleeping
             /\ \E i \in Identities \ Assigned : Assigned' = Assigned \cup {i}
    <3>1. PICK i \in Identities \ Assigned : Assigned' = Assigned \cup {i}
      BY <2>3
    <3>2. Registrations' = Registrations + 1
      BY <3>1, Counts, FS_AddElement, Zenon DEF Registrations
    <3> QED BY <2>3, <3>2, Counts
  <2> QED BY <2>1, <2>2, <2>3
<1>4. Registrations' + Cardinality(Sleeping') <= attempts'
  BY <1>2, <1>3, Counts DEF TokensAddUp
<1>5. TokensAddUp'
  <2>1. tokens' = lastTime' - first' - (attempts' - 1) * Required
    BY <1>1, <1>2
  <2> QED BY <1>1, <1>2, <1>4, <2>1 DEF TokensAddUp
<1>6. \A t \in Nat : /\ IsFiniteSet(Due(t)') /\ Cardinality(Due(t)') \in Nat
                     /\ Cardinality(Due(t)') <= Cardinality(Sleeping')
  <2>1. IsFiniteSet(Sleeping')
    BY Counts, FS_AddElement
  <2>2. \A t \in Nat : Due(t)' \subseteq Sleeping'
    BY DEF Due, Sleeping
  <2> QED BY <2>1, <2>2, FS_Subset, FS_CardinalityType
<1>7. ASSUME NEW t \in Nat, attempts * Required <= t - first'
      PROVE  (Registrations' + Cardinality(Due(t)') - 1) * Required <= t - first'
  <2> DEFINE x == Registrations' + Cardinality(Due(t)') - 1
  <2>1. x \in Int /\ x <= attempts
    <3>1. /\ Registrations' \in Nat /\ Cardinality(Sleeping') \in Nat
          /\ Registrations' + Cardinality(Sleeping') <= attempts + 1
          /\ attempts \in Nat
      BY <1>2, <1>3, <1>4
    <3>2. /\ Cardinality(Due(t)') \in Nat
          /\ Cardinality(Due(t)') <= Cardinality(Sleeping')
      BY <1>6
    <3> QED BY ONLY <3>1, <3>2
  <2> HIDE DEF x
  <2>2. x * Required <= attempts * Required /\ x * Required \in Int
    <3>1. x \in Int /\ attempts \in Int /\ x <= attempts
      BY <1>2, <2>1
    <3>2. x * Required <= attempts * Required
      BY ONLY <3>1, Times
    <3>3. x * Required \in Int
      BY ONLY <3>1, TimesSucc
    <3> QED BY <3>2, <3>3
  <2>3. x * Required <= t - first'
    BY <1>1, <1>2, <1>7, <2>2
  <2> QED BY <2>3 DEF x
<1>8. ASSUME NEW t \in Nat, t >= clock, Registrations' = Registrations,
             Due(t)' = Due(t)
      PROVE  (Registrations' + Cardinality(Due(t)') - 1) * Required <= t - first'
  <2>1. CASE attempts > 0
    BY <1>1, <1>8, <2>1 DEF Ledger
  <2>2. CASE attempts = 0
    <3>1. attempts * Required <= t - first'
      BY <1>1, <1>2, <1>8, <2>2, TimesSucc
    <3> QED BY <1>7, <3>1
  <2> QED BY <1>2, <2>1, <2>2
<1>9. ASSUME NEW t \in Nat, t >= clock
      PROVE  (Registrations' + Cardinality(Due(t)') - 1) * Required <= t - first'
  <2>1. CASE /\ Sleeping' = Sleeping \cup {c}
             /\ Assigned' = Assigned
             /\ wake'[c] = clock - tokens'
    <3>1. CASE t >= wake'[c]
      <4>1. attempts * Required <= t - first'
        BY <1>1, <1>2, <2>1, <3>1
      <4> QED BY <1>7, <4>1
    <3>2. CASE ~(t >= wake'[c])
      <4>1. wake'[c] \in Int
        BY <1>2, <2>1
      <4>2. Due(t)' = Due(t)
        <5>1. ~(wake'[c] <= t)
          BY <3>2, <4>1
        <5>2. \A e \in Conns : e \in Sleeping' <=> (e \in Sleeping \/ e = c)
          BY <2>1
        <5> QED BY <5>1, <5>2 DEF Due, Sleeping
      <4> QED BY <1>8, <1>9, <2>1, <4>2 DEF Registrations
    <3> QED BY <3>1, <3>2
  <2>2. CASE /\ Sleeping' = Sleeping
             /\ ~(lastTime # None /\ tokens' < 0)
             /\ \E i \in Identities \ Assigned : Assigned' = Assigned \cup {i}
    <3>1. tokens' >= 0
      <4>1. CASE lastTime = None
        <5>1. attempts = 0
          BY <1>2, <4>1, NoneAssumption DEF TokensAddUp
        <5>2. tokens = 0
          BY <5>1 DEF TokensAddUp
        <5> QED BY <4>1, <5>2 DEF availableTokens
      <4>2. CASE lastTime # None
        BY <1>2, <2>2, <4>2
      <4> QED BY <4>1, <4>2
    <3>2. attempts * Required <= t - first'
      BY <1>1, <1>2, <1>9, <3>1
    <3> QED BY <1>7, <3>2
  <2>3. CASE Sleeping' = Sleeping /\ Assigned' = Assigned
    <3>1. Due(t)' = Due(t)
      <4>1. \A e \in Conns : e \in Sleeping' <=> e \in Sleeping
        BY <2>3
      <4> QED BY <4>1 DEF Due, Sleeping
    <3> QED BY <1>8, <1>9, <2>3, <3>1 DEF Registrations
  <2> QED BY <2>1, <2>2, <2>3
<1> QED BY <1>5, <1>9 DEF Ledger
\* Assigning a number adds one identity.
LEMMA AssignedOne ==
  ASSUME TypeOK, NEW c \in Conns, ~Known(c), AssignNumber(IdentityOf[c], iter[c])
  PROVE  \E i \in Identities \ Assigned : Assigned' = Assigned \cup {i}
<1> DEFINE i == IdentityOf[c]
<1>1. i \in Identities /\ iter[c] \in 0..TailLen /\ numberOf[i] = None
  BY NumberConstants DEF TypeOK, Known
<1>2. newNumber(i, iter[c]) # None
  BY <1>1, Candidates, NoneAssumption, SMTT(20)
<1>3. numberOf' = [numberOf EXCEPT ![i] = newNumber(i, iter[c])]
  BY DEF AssignNumber
<1> HIDE DEF i
<1>4. Assigned' = Assigned \cup {i} /\ i \notin Assigned
  BY <1>1, <1>2, <1>3 DEF Assigned, TypeOK
<1> QED BY <1>1, <1>4

\* Every step keeps the account and the ledger.
LEMMA LimiterStep ==
  ASSUME TypeOK, TokensAddUp, Ledger(Nat), [Next]_vars
  PROVE  TokensAddUp' /\ Ledger(Nat)'
<1> USE NumberConstants
<1>1. TypeOK'
  BY TypeStep
<1>2. clock \in Nat /\ \A c \in Conns : sent[c] \in Nat /\ sent[c] <= clock
  BY DEF TypeOK, TokensAddUp
<1>3. ASSUME NEW c \in Conns, RegisterChatNumber(c)
      PROVE  TokensAddUp' /\ Ledger(Nat)'
  <2>1. /\ UNCHANGED limiter /\ clock' = clock /\ wake' = wake
        /\ Assigned' = Assigned
    BY <1>3 DEF RegisterChatNumber, Assigned
  <2>2. Sleeping' \subseteq Sleeping
    BY <1>3 DEF RegisterChatNumber, Sleeping, TypeOK
  <2>3. \A e \in Conns : sent'[e] <= clock'
    BY <1>2, <1>3 DEF RegisterChatNumber, TypeOK
  <2>4. clock' >= clock
    BY <1>2, <2>1
  <2> QED BY <1>1, <2>1, <2>2, <2>3, <2>4, LedgerFewer
<1>4. ASSUME NEW c \in Conns, UNCHANGED <<numberOf, limiter, clock>>,
             \/ /\ Returned(c)
                /\ \E l \in {"start", "done", "failed"} : pc' = [pc EXCEPT ![c] = l]
             \/ UNCHANGED <<sent, wake>> /\ Sleeping' \subseteq Sleeping
      PROVE  TokensAddUp' /\ Ledger(Nat)'
  <2>1. Assigned' = Assigned /\ clock' = clock /\ clock' >= clock
    BY <1>2, <1>4, SMTT(20) DEF Assigned
  <2>2. Sleeping' \subseteq Sleeping /\ \A e \in Sleeping' : wake'[e] = wake[e]
    BY <1>4 DEF Returned, Sleeping, TypeOK
  <2>3. \A e \in Conns : sent'[e] <= clock'
    BY <1>2, <1>4 DEF Returned, TypeOK
  <2> QED BY <1>1, <1>4, <2>1, <2>2, <2>3, LedgerFewer, SMTT(20)
<1>5. ASSUME NEW c \in Conns, EarlyReturn(c)
      PROVE  TokensAddUp' /\ Ledger(Nat)'
  <2>1. /\ UNCHANGED <<numberOf, limiter, clock>>
        /\ Returned(c)
        /\ \E l \in {"start", "done", "failed"} : pc' = [pc EXCEPT ![c] = l]
    BY <1>5 DEF EarlyReturn, Return, NumberTaken
  <2> QED BY <1>4, <2>1, Zenon
<1>6. ASSUME NEW c \in Conns, RateLimited(c)
      PROVE  TokensAddUp' /\ Ledger(Nat)'
  <2>1. CASE EarlyReturn(c)
    BY <1>5, <2>1
  <2>2. CASE ~EarlyReturn(c)
    <3>1. /\ pc[c] = "limited" /\ ~Known(c)
          /\ attempts' = attempts + 1
          /\ lastTime' = sent[c]
          /\ tokens' = availableTokens(sent[c])
          /\ first' = IF first = None THEN sent[c] ELSE first
          /\ clock' = clock
      BY <1>6, <2>2, Zenon DEF RateLimited
    <3>2. c \notin Sleeping
      BY <3>1 DEF Sleeping
    <3>3. CASE /\ pc' = [pc EXCEPT ![c] = "sleep"]
               /\ wake' = [wake EXCEPT ![c] = clock - tokens']
               /\ UNCHANGED <<sent, numberOf>>
      <4>1. Sleeping' = Sleeping \cup {c} /\ Assigned' = Assigned
        BY <3>3 DEF Sleeping, Assigned, TypeOK
      <4>2. wake'[c] = clock - tokens' /\ \A e \in Sleeping : wake'[e] = wake[e]
        BY <3>2, <3>3 DEF TypeOK, Sleeping
      <4>3. \A e \in Conns : sent'[e] <= clock'
        BY <1>2, <3>1, <3>3
      <4> QED BY <1>1, <3>1, <3>2, <4>1, <4>2, <4>3, LedgerPassed, Zenon
    <3>4. ASSUME Returned(c),
                 \E l \in {"done", "failed"} : pc' = [pc EXCEPT ![c] = l]
          PROVE  /\ Sleeping' = Sleeping
                 /\ \A e \in Sleeping : wake'[e] = wake[e]
                 /\ \A e \in Conns : sent'[e] <= clock'
      <4>1. Sleeping' = Sleeping
        BY <3>1, <3>4 DEF Sleeping, TypeOK
      <4>2. \A e \in Sleeping : wake'[e] = wake[e]
        BY <3>2, <3>4 DEF Returned, TypeOK, Sleeping
      <4>3. \A e \in Conns : sent'[e] <= clock'
        BY <1>2, <3>1, <3>4 DEF Returned, TypeOK
      <4> QED BY <4>1, <4>2, <4>3
    <3>5. CASE /\ Returned(c) /\ UNCHANGED numberOf
               /\ pc' = [pc EXCEPT ![c] = "failed"]
      <4>1. Assigned' = Assigned
        BY <3>5 DEF Assigned
      <4> QED BY <1>1, <3>1, <3>2, <3>4, <3>5, <4>1, LedgerPassed, Zenon
    <3>6. CASE /\ ~(lastTime # None /\ tokens' < 0)
               /\ AssignNumber(IdentityOf[c], iter[c])
               /\ Return(c, numberOf'[IdentityOf[c]])
      <4>1. \E i \in Identities \ Assigned : Assigned' = Assigned \cup {i}
        BY <3>1, <3>6, AssignedOne, ZenonT(30)
      <4>2. /\ Returned(c)
            /\ \E l \in {"done", "failed"} : pc' = [pc EXCEPT ![c] = l]
        BY <3>6, SMTT(20) DEF Return
      <4> QED BY <1>1, <3>1, <3>2, <3>4, <3>6, <4>1, <4>2, LedgerPassed, Zenon
    <3> QED BY <1>6, <2>2, <3>3, <3>5, <3>6, Zenon DEF RateLimited
  <2> QED BY <2>1, <2>2
<1>7. ASSUME NEW c \in Conns, Unlimited(c)
      PROVE  TokensAddUp' /\ Ledger(Nat)'
  <2>1. CASE EarlyReturn(c)
    BY <1>5, <2>1
  <2>2. CASE ~EarlyReturn(c)
    <3>1. /\ pc[c] = "sleep" /\ clock >= wake[c]
          /\ ~Known(c)
          /\ AssignNumber(IdentityOf[c], iter[c])
          /\ Return(c, numberOf'[IdentityOf[c]])
          /\ UNCHANGED limiter /\ clock' = clock
      BY <1>7, <2>2, Zenon DEF Unlimited
    <3>2. PICK i \in Identities \ Assigned : Assigned' = Assigned \cup {i}
      BY <3>1, AssignedOne, Zenon
    <3>3. /\ Returned(c)
          /\ \E l \in {"done", "failed"} : pc' = [pc EXCEPT ![c] = l]
      BY <3>1, Zenon DEF Return
    <3>4. c \in Sleeping /\ Sleeping' = Sleeping \ {c}
      BY <3>1, <3>3 DEF Sleeping, TypeOK
    <3>5. /\ \A e \in Sleeping' : wake'[e] = wake[e]
          /\ wake[c] <= clock
      BY <1>2, <3>1, <3>3, <3>4 DEF Returned, TypeOK, Sleeping
    <3>6. \A e \in Conns : sent'[e] <= clock'
      BY <1>2, <3>1, <3>3 DEF Returned, TypeOK
    <3> QED BY <1>1, <3>1, <3>2, <3>4, <3>5, <3>6, LedgerMoved
  <2> QED BY <2>1, <2>2
<1>8. ASSUME NEW c \in Conns, CallError(c)
      PROVE  TokensAddUp' /\ Ledger(Nat)'
  BY <1>4, <1>8, Zenon DEF CallError
<1>9. ASSUME NEW c \in Conns, Reconnect(c)
      PROVE  TokensAddUp' /\ Ledger(Nat)'
  <2>1. Sleeping' \subseteq Sleeping
    BY <1>9 DEF Reconnect, Sleeping, TypeOK
  <2> QED BY <1>4, <1>9, <2>1, Zenon DEF Reconnect
<1>10. ASSUME UNCHANGED <<maps, limiter, conn>>, clock' \in Nat, clock' >= clock
       PROVE  TokensAddUp' /\ Ledger(Nat)'
  <2>1. /\ Assigned' = Assigned /\ Sleeping' = Sleeping
        /\ UNCHANGED <<limiter, wake, sent>>
    BY <1>10, Zenon DEF Assigned, Sleeping
  <2>2. \A e \in Conns : sent'[e] <= clock'
    BY <1>2, <1>10, <2>1
  <2> QED BY <1>1, <1>10, <2>1, <2>2, LedgerFewer
<1>11. CASE Tick
  <2>1. clock' \in Nat /\ clock' >= clock
    BY <1>2, <1>11 DEF Tick
  <2> QED BY <1>10, <1>11, <2>1 DEF Tick
<1>12. CASE UNCHANGED vars
  <2>1. clock' \in Nat /\ clock' >= clock
    BY <1>2, <1>12
  <2> QED BY <1>10, <1>12, <2>1
<1> QED BY <1>3, <1>6, <1>7, <1>8, <1>9, <1>11, <1>12 DEF Next

\* The account and the ledger hold to begin with.
LEMMA LimiterInit == Init => TokensAddUp /\ Ledger(Nat)
<1> SUFFICES ASSUME Init PROVE TokensAddUp /\ Ledger(Nat)
  OBVIOUS
<1>1. Assigned = {} /\ Sleeping = {}
  BY DEF Init, Assigned, Sleeping
<1>2. Registrations = 0 /\ Cardinality(Sleeping) = 0
  BY <1>1, FS_EmptySet DEF Registrations
<1> QED BY <1>2 DEF Init, TokensAddUp, Ledger

\* The account and the ledger hold in every state.
LEMMA LimiterHolds == Spec => [](TokensAddUp /\ Ledger(Nat))
<1>1. TypeOK /\ TokensAddUp /\ Ledger(Nat) /\ [Next]_vars
        => TokensAddUp' /\ Ledger(Nat)'
  BY LimiterStep
<1> QED BY <1>1, LimiterInit, TypeCorrect, PTL DEF Spec

\* At every time the tokens are what the attempts so far left of those the time
\* brought, and the connections that sleep were told to sleep long enough for
\* the limit to hold when they wake up.
THEOREM LimiterAddsUp == Spec => []LimiterInv
<1>1. 0..(2 * MaxTime + MaxAttempts * Required) \subseteq Nat
  OBVIOUS
<1>2. TokensAddUp /\ Ledger(Nat) => LimiterInv
  BY <1>1 DEF Ledger, LimiterInv
<1> QED BY <1>2, LimiterHolds, PTL

\* For any number of connections and identities, any rate, any delays between
\* the steps, and calls that fail or time out at any point: no more numbers
\* are assigned than the rate limit allows.
THEOREM RateLimitHolds == Spec => []RateLimit
<1>1. TypeOK /\ TokensAddUp /\ Ledger(Nat) => RateLimit
  <2> SUFFICES ASSUME TypeOK, TokensAddUp, Ledger(Nat), Registrations > 0
               PROVE  (Registrations - 1) * Required <= clock - first
    BY DEF RateLimit
  <2>1. clock \in Nat /\ attempts \in Nat
    BY DEF TypeOK
  <2>2. attempts > 0
    BY <2>1, Counts DEF TokensAddUp
  <2> DEFINE x == Registrations - 1
             y == Registrations + Cardinality(Due(clock)) - 1
  <2>3. x \in Int /\ y \in Int /\ x <= y
    BY <2>1, Counts
  <2>4. y * Required <= clock - first /\ clock - first \in Int
    BY <2>1, <2>2 DEF Ledger, TokensAddUp
  <2> HIDE DEF x, y
  <2>5. x * Required <= y * Required /\ x * Required \in Int /\ y * Required \in Int
    BY <2>3, Times, TimesSucc
  <2>6. x * Required <= clock - first
    BY <2>4, <2>5
  <2> QED BY <2>6 DEF x
<1> QED BY <1>1, LimiterHolds, TypeCorrect, PTL
=============================================================================
