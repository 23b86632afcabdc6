--------------------------- MODULE MCRedisBroker ---------------------------
EXTENDS RedisBrokerInv, TLC

CONSTANTS s1, s2, a, b

\* One stream; both subscriptions are for it.
OneStream == {a}
AllOnA == [s \in Subs |-> a]

\* Two streams with a subscription each.
TwoStreams == {a, b}
OneEach == (s1 :> a) @@ (s2 :> b)

\* A new stream.
New == <<0, 0>>
Empty == {}

\* A stream capped to its tenth message of millisecond 1, none acked.
Tenth == <<1, 9>>
OnlyTenth == {Tenth}

\* The subscriptions are interchangeable when all are for the same stream.
Symmetry == Permutations(Subs)
=============================================================================
