-------------------------- MODULE NumberDirectory --------------------------
(***************************************************************************)
(* What db.DB promises about chat numbers, whatever keeps them: each is    *)
(* assigned to one identity, once and for all.                             *)
(***************************************************************************)
CONSTANTS
  Identities,
  Numbers,
  None

VARIABLE numberOf

NumbersInit == numberOf = [i \in Identities |-> None]

Assign(i, m) ==
  /\ numberOf[i] = None
  /\ \A j \in Identities : numberOf[j] # m
  /\ numberOf' = [numberOf EXCEPT ![i] = m]

NumbersNext == \E i \in Identities, m \in Numbers : Assign(i, m)

NumbersSpec == NumbersInit /\ [][NumbersNext]_numberOf
=============================================================================
