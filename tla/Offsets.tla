------------------------------ MODULE Offsets ------------------------------
(***************************************************************************)
(* The message IDs of a Redis stream and the comparisons redisbroker makes *)
(* on them.  An ID "<ms>-<seq>" is the pair <<ms, seq>>: the millisecond   *)
(* Redis appended the entry in and a counter within that millisecond.      *)
(* Millisecond timestamps all have the same number of digits, so comparing *)
(* them as strings (Go's < and Lua's >) is comparing them as numbers; the  *)
(* sequence numbers do not have the same number of digits.                 *)
(***************************************************************************)
EXTENDS Naturals, Sequences

Id == Nat \X Nat

\* The offset "0" a subscriber starts at when its stream has no recorded
\* offset.  Redis reads it as 0-0.  Stream IDs have ms > 0, so the early
\* return of offsetLessThan on a one-part offset answers what comparing
\* with 0-0 answers.
minOffset == <<0, 0>>

\* The order in which a stream keeps its entries: what XREAD and XTRIM use.
IdLess(a, b) == \/ a[1] < b[1]
                \/ a[1] = b[1] /\ a[2] < b[2]

IdLeq(a, b) == a = b \/ IdLess(a, b)

\* offsetLessThan of redisbroker.go.  When a's millisecond is not the lower
\* one the code compares the sequence numbers, whether or not the
\* milliseconds are equal.
offsetLessThan(a, b) == a[1] < b[1] \/ a[2] < b[2]

\* The decimal digits of n, most significant first: Tens[n] are those of n > 0.
Tens[n \in Nat] == IF n = 0 THEN <<>> ELSE Append(Tens[n \div 10], n % 10)

Digits(n) == IF n < 10 THEN <<n>> ELSE Tens[n]

\* Lua's s > t on strings: t is a proper prefix of s, or at the first place
\* where they differ s has the higher character.
StringGreater(s, t) ==
  \E i \in 1..Len(s) :
    /\ \A j \in 1..(i - 1) : j <= Len(t) /\ s[j] = t[j]
    /\ i > Len(t) \/ s[i] > t[i]

\* The condition of ack.lua under which the new offset replaces the old one.
ackGreater(new, old) ==
  \/ new[1] > old[1]
  \/ new[1] = old[1] /\ StringGreater(Digits(new[2]), Digits(old[2]))

\* Mutant: the bound of the trimming is one too high.
idPlusTwo(id) == <<id[1], id[2] + 2>>

\* idPlusOne of trimmer.go: the ID XTRIM MINID is given so that the entry
\* with this very ID is trimmed too.
idPlusOne(id) == <<id[1], id[2] + 1>>
=============================================================================
