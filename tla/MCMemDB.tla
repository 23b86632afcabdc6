------------------------------ MODULE MCMemDB ------------------------------
EXTENDS MemDB, TLC

\* All identities prefer the same number.
SameShort == [i \in Identities |-> "2920"]
SameTail == [i \in Identities |-> "1"]

\* Identities, device IDs and signed pre keys are interchangeable.
Symmetry == Permutations(Identities) \cup Permutations(DeviceIds)
              \cup Permutations(SignedPreKeys)
=============================================================================
