----------------------------- MODULE MCRedisDB -----------------------------
EXTENDS RedisDB, TLC

CONSTANTS i1, d1, d2, r1, r2

\* Both devices are of the one identity.
AllOfOne == [d \in Devices |-> i1]

\* Devices, requests and signed pre keys are interchangeable.
Symmetry == Permutations(Devices) \cup Permutations(Requests)
              \cup Permutations(SignedPreKeys)
=============================================================================
