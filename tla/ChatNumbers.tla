---------------------------- MODULE ChatNumbers ----------------------------
(***************************************************************************)
(* Chat numbers: getNumber of serviceimpl, which tries one variant of an   *)
(* identity's number after the other, RegisterChatNumber of redisdb, which *)
(* sleeps when it is told to, and register_chat_number.lua, which assigns  *)
(* numbers and limits their rate.                                          *)
(***************************************************************************)
EXTENDS NumberVariants, Integers, FiniteSets

CONSTANTS
  Conns,          \* connections that authenticate
  IdentityOf,     \* the identity each connection authenticates
  Required,       \* minMillisPerChatNumberRegistration
  Timeout,        \* registrationTimeout
  MaxAttempts,    \* bound: rate limited script calls that go through
  MaxTime         \* bound: milliseconds that pass

ASSUME NumberConstants ==
  /\ IsFiniteSet(Conns)
  /\ IsFiniteSet(Identities)
  /\ IdentityOf \in [Conns -> Identities]
  /\ TailLen \in Nat \ {0}
  /\ Required \in Nat \ {0}
  /\ Timeout \in Nat
  /\ MaxAttempts \in Nat
  /\ MaxTime \in Nat

VARIABLES
  numberOf,       \* identity->number
  identityOf,     \* number->identity
  shortOf,        \* number->shortnumber
  numberOfShort,  \* shortnumber->number
  lastTime,       \* last-registration-time
  tokens,         \* registration-tokens
  first,          \* history: the time of the first registration
  attempts,       \* history: rate limited script calls that went through
  clock,          \* the time, in milliseconds
  pc,             \* where getNumber is
  iter,           \* its iter
  sent,           \* the time RegisterChatNumber read, and started at
  wake,           \* when its sleep is over
  told            \* the number getNumber returned

maps == <<numberOf, identityOf, shortOf, numberOfShort>>
limiter == <<lastTime, tokens, first, attempts>>
conn == <<pc, iter, sent, wake, told>>
vars == <<maps, limiter, clock, conn>>

Init ==
  /\ numberOf = [i \in Identities |-> None]
  /\ identityOf = [m \in Numbers |-> None]
  /\ shortOf = [m \in Numbers |-> None]
  /\ numberOfShort = [h \in ShortNumbers |-> None]
  /\ lastTime = None
  /\ tokens = 0
  /\ first = None
  /\ attempts = 0
  /\ clock = 0
  /\ pc = [c \in Conns |-> "start"]
  /\ iter = [c \in Conns |-> 0]
  /\ sent = [c \in Conns |-> 0]
  /\ wake = [c \in Conns |-> 0]
  /\ told = [c \in Conns |-> None]

-----------------------------------------------------------------------------
(***************************************************************************)
(* getNumber and RegisterChatNumber.                                       *)
(***************************************************************************)

\* The arguments of the script are put together, the time among them.
RegisterChatNumber(c) ==
  /\ pc[c] = "start"
  /\ pc' = [pc EXCEPT ![c] = "limited"]
  /\ sent' = [sent EXCEPT ![c] = clock]
  /\ UNCHANGED <<maps, limiter, clock, iter, wake, told>>

\* What follows from an answer: the number it gives, the next variant after
\* ErrNumberTaken, or the end after the last variant.  When the answer is
\* lost, what the script did stays done and the error ends getNumber.
Returned(c) ==
  /\ sent' = [sent EXCEPT ![c] = 0]
  /\ wake' = [wake EXCEPT ![c] = 0]

Return(c, number) ==
  /\ \/ /\ pc' = [pc EXCEPT ![c] = "done"]
        /\ told' = [told EXCEPT ![c] = number]
     \/ /\ pc' = [pc EXCEPT ![c] = "failed"]
        /\ UNCHANGED told
  /\ Returned(c)
  /\ UNCHANGED iter

NumberTaken(c) ==
  /\ IF lastChance(iter[c])
     THEN /\ pc' = [pc EXCEPT ![c] = "failed"]
          /\ UNCHANGED iter
     ELSE /\ pc' = [pc EXCEPT ![c] = "start"]
          /\ iter' = [iter EXCEPT ![c] = @ + 1]
  /\ Returned(c)
  /\ UNCHANGED told

\* Mutant: the number is stored where its short number belongs.
AssignNumberTwice(i, n) ==
  LET number == newNumber(i, n)
      short == newShortNumber(i, n)
  IN  /\ numberOf' = [numberOf EXCEPT ![i] = number]
      /\ identityOf' = [identityOf EXCEPT ![number] = i]
      /\ shortOf' = [shortOf EXCEPT ![number] = number]
      /\ numberOfShort' = [numberOfShort EXCEPT ![short] = number]

\* Mutant: the short number is without the fives of the number.
AssignNumberShort(i, n) ==
  LET number == newNumber(i, n)
      short == newShortNumber(i, 0)
  IN  /\ numberOf' = [numberOf EXCEPT ![i] = number]
      /\ identityOf' = [identityOf EXCEPT ![number] = i]
      /\ shortOf' = [shortOf EXCEPT ![number] = short]
      /\ numberOfShort' = [numberOfShort EXCEPT ![short] = number]

\* The end of the script: the four hashes are written.
AssignNumber(i, n) ==
  LET number == newNumber(i, n)
      short == newShortNumber(i, n)
  IN  /\ numberOf' = [numberOf EXCEPT ![i] = number]
      /\ identityOf' = [identityOf EXCEPT ![number] = i]
      /\ shortOf' = [shortOf EXCEPT ![number] = short]
      /\ numberOfShort' = [numberOfShort EXCEPT ![short] = number]

\* Mutant: the lookup that the early return depends on is left out.
NotLookedUp(c) == FALSE

\* The script's early returns: already registered, or the number is taken.
Known(c) == numberOf[IdentityOf[c]] # None
Taken(c) == identityOf[newNumber(IdentityOf[c], iter[c])] # None

EarlyReturn(c) ==
  /\ \/ Known(c) /\ Return(c, numberOf[IdentityOf[c]])
     \/ ~Known(c) /\ Taken(c) /\ NumberTaken(c)
  /\ UNCHANGED <<maps, limiter, clock>>

\* Mutants: no tokens are taken; the tokens left from before are lost.
tokensNotTaken(now) ==
  IF lastTime = None THEN tokens ELSE tokens + (now - lastTime)
tokensNotKept(now) ==
  IF lastTime = None THEN tokens ELSE now - lastTime - Required

\* The tokens there are once this registration has taken its own: those of
\* the time since the last one are added, and Required are taken.
availableTokens(now) ==
  IF lastTime = None THEN tokens ELSE tokens + (now - lastTime - Required)

\* The script with rate limiting.
RateLimited(c) ==
  /\ pc[c] = "limited"
  /\ \/ EarlyReturn(c)
     \/ /\ ~Known(c)
        /\ ~Taken(c)
        /\ attempts < MaxAttempts
        /\ attempts' = attempts + 1
        /\ lastTime' = sent[c]
        /\ tokens' = availableTokens(sent[c])
        /\ first' = IF first = None THEN sent[c] ELSE first
        /\ \/ /\ lastTime # None /\ tokens' < 0
              /\ \/ /\ pc' = [pc EXCEPT ![c] = "sleep"]
                    /\ wake' = [wake EXCEPT ![c] = clock - tokens']
                    /\ UNCHANGED sent
                 \/ /\ pc' = [pc EXCEPT ![c] = "failed"]
                    /\ Returned(c)
              /\ UNCHANGED <<maps, iter, told>>
           \/ /\ ~(lastTime # None /\ tokens' < 0)
              /\ AssignNumber(IdentityOf[c], iter[c])
              /\ Return(c, numberOf'[IdentityOf[c]])
        /\ UNCHANGED clock

\* The script without rate limiting, after the sleep and within the time
\* limit that RegisterChatNumber set itself when it began.
Unlimited(c) ==
  /\ pc[c] = "sleep"
  /\ clock >= wake[c]
  /\ clock < sent[c] + Timeout
  /\ \/ EarlyReturn(c)
     \/ /\ ~Known(c)
        /\ ~Taken(c)
        /\ AssignNumber(IdentityOf[c], iter[c])
        /\ Return(c, numberOf'[IdentityOf[c]])
        /\ UNCHANGED <<limiter, clock>>

\* A call fails before it reaches Redis, the time limit being over or not; any
\* error other than ErrNumberTaken ends getNumber.
CallError(c) ==
  /\ \/ pc[c] = "limited"
     \/ pc[c] = "sleep" /\ clock >= wake[c]
  /\ pc' = [pc EXCEPT ![c] = "failed"]
  /\ Returned(c)
  /\ UNCHANGED <<maps, limiter, clock, iter, told>>

\* The client connects and authenticates again.
Reconnect(c) ==
  /\ pc[c] \in {"done", "failed"}
  /\ pc' = [pc EXCEPT ![c] = "start"]
  /\ iter' = [iter EXCEPT ![c] = 0]
  /\ told' = [told EXCEPT ![c] = None]
  /\ UNCHANGED <<maps, limiter, clock, sent, wake>>

Tick ==
  /\ clock < MaxTime
  /\ clock' = clock + 1
  /\ UNCHANGED <<maps, limiter, conn>>

\* The lookups, which other clients make; without a number they are an error.
FindChatNumberByShortNumber(short) == numberOfShort[short]
FindChatNumberByIdentityKey(i) == <<numberOf[i], shortOf[numberOf[i]]>>

Next ==
  \/ \E c \in Conns : \/ RegisterChatNumber(c)
                      \/ RateLimited(c)
                      \/ Unlimited(c)
                      \/ CallError(c)
                      \/ Reconnect(c)
  \/ Tick

Spec == Init /\ [][Next]_vars

-----------------------------------------------------------------------------
(***************************************************************************)
(* Properties.                                                             *)
(***************************************************************************)

Assigned == {i \in Identities : numberOf[i] # None}

\* Every variable has its type.
TypeOK ==
  /\ numberOf \in [Identities -> Numbers \cup {None}]
  /\ identityOf \in [Numbers -> Identities \cup {None}]
  /\ shortOf \in [Numbers -> ShortNumbers \cup {None}]
  /\ numberOfShort \in [ShortNumbers -> Numbers \cup {None}]
  /\ lastTime \in Nat \cup {None}
  /\ tokens \in Int
  /\ first \in Nat \cup {None}
  /\ attempts \in Nat
  /\ clock \in Nat
  /\ pc \in [Conns -> {"start", "limited", "sleep", "done", "failed"}]
  /\ iter \in [Conns -> 0..TailLen]
  /\ sent \in [Conns -> Nat]
  /\ wake \in [Conns -> Nat]
  /\ told \in [Conns -> Numbers \cup {None}]

\* "Tassis assigns every IdentityKey a unique ChatNumber": two identities do
\* not have the same number, and the hash that finds the identity of a number
\* agrees with the one that finds the number of an identity.
UniqueNumbers ==
  \A i \in Identities, m \in Numbers :
    numberOf[i] = m <=> identityOf[m] = i

\* "This number is constant over time": an identity keeps the number it was
\* told, although its connections may ask for different variants at once.
NumberConstant ==
  [][\A c \in Conns : told[c] # None =>
       numberOf'[IdentityOf[c]] = told[c]]_vars

\* "The short ChatNumber is a prefix of the full ChatNumber which can be used
\* to look up the full ChatNumber": the short number that
\* FindChatNumberByIdentityKey returns leads FindChatNumberByShortNumber back
\* to the number returned with it.  This needs that preferred numbers with the
\* same first 12 digits are the same.
ShortNumberFindsNumber ==
  \A i \in Assigned :
    LET found == FindChatNumberByIdentityKey(i)
    IN  FindChatNumberByShortNumber(found[2]) = found[1]

\* redisdb keeps the promise of db.DB about numbers: seen without connections
\* and rate limiting, its steps are steps of the directory of numbers.
Directory == INSTANCE NumberDirectory

ImplementsNumbers == Directory!NumbersSpec

Registrations == Cardinality(Assigned)

\* "The below limits chat number registrations to an average of 2 per
\* second": at any time, no more numbers have been assigned since the first
\* one than one per Required milliseconds, whoever slept, failed or came back.
RateLimit ==
  Registrations > 0 => (Registrations - 1) * Required <= clock - first

(***************************************************************************)
(* What RateLimit rests on.  The tokens add up to the time since the first *)
(* attempt less what the later attempts took, so that the n-th attempt     *)
(* after the first is not through before n * Required milliseconds; and    *)
(* the limit holds at every later time too, if all who sleep wake up and   *)
(* register.                                                               *)
(***************************************************************************)
Due(t) == {c \in Conns : pc[c] = "sleep" /\ wake[c] <= t}
Sleeping == {c \in Conns : pc[c] = "sleep"}

Ledger(T) ==
  \A t \in T :
    attempts > 0 /\ t >= clock =>
      (Registrations + Cardinality(Due(t)) - 1) * Required <= t - first

TokensAddUp ==
  /\ attempts = 0 => lastTime = None /\ first = None /\ tokens = 0
  /\ attempts > 0 =>
       /\ lastTime \in Nat
       /\ first \in Nat
       /\ first <= clock
       /\ tokens = lastTime - first - (attempts - 1) * Required
  /\ \A c \in Conns : sent[c] <= clock
  /\ Registrations + Cardinality(Sleeping) <= attempts

\* The ledger as TLC can check it: the limit is kept up to the time the last
\* sleeper of a run can wake up at.
LimiterInv == TokensAddUp /\ Ledger(0..(2 * MaxTime + MaxAttempts * Required))
=============================================================================
