---------------------------- MODULE MCForwarding ----------------------------
EXTENDS Forwarding, TLC

\* Hosts and messages are interchangeable.
Symmetry == Permutations(Hosts) \cup Permutations(Messages)
=============================================================================
