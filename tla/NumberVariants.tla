-------------------------- MODULE NumberVariants --------------------------
(***************************************************************************)
(* The variants of an identity's number that getNumber of serviceimpl      *)
(* tries, one after the other.  A preferred number is a short part and a   *)
(* tail, neither with a 5 in it.  With n fives added before each the       *)
(* number is <<n, short, tail>> and the short number <<n, short>>, which   *)
(* are equal only if all parts are.                                        *)
(***************************************************************************)
EXTENDS Naturals

CONSTANTS
  Identities,
  ShortPart,      \* the first 12 digits of each identity's preferred number
  TailPart,       \* and its other digits
  TailLen,        \* how many these are
  None

\* As many fives as make the short number as long as the preferred number.
lastChance(n) == n >= TailLen

newNumber(i, n) ==
  <<IF lastChance(n) THEN 0 ELSE n, ShortPart[i], TailPart[i]>>

newShortNumber(i, n) ==
  IF lastChance(n) THEN newNumber(i, n) ELSE <<n, ShortPart[i]>>

Numbers == {newNumber(i, n) : i \in Identities, n \in 0..TailLen}
ShortNumbers == {newShortNumber(i, n) : i \in Identities, n \in 0..TailLen}

\* What a lookup by short number depends on: no two preferred numbers agree in
\* their first 12 digits only.
ShortPartDecides ==
  \A i, j \in Identities : ShortPart[i] = ShortPart[j] => TailPart[i] = TailPart[j]

ASSUME NoneAssumption ==
  /\ None \notin Identities
  /\ None \notin Numbers
  /\ None \notin ShortNumbers
  /\ None \notin Nat
=============================================================================
