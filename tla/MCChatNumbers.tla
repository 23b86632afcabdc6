--------------------------- MODULE MCChatNumbers ---------------------------
EXTENDS ChatNumbers, TLC

CONSTANTS i1, i2, i3, c1, c2, c3

\* Two connections of the first identity, one of each of the others.
TwoOfOne == (c1 :> i1) @@ (c2 :> i1) @@ (c3 :> i2)
OneEach == (c1 :> i1) @@ (c2 :> i2) @@ (c3 :> i3)

\* All identities have the same short part; the first two the same number.
SameShort == [i \in Identities |-> "2920"]
SameNumber == [i \in Identities |-> "1"]
TailsDiffer == (i1 :> "1") @@ (i2 :> "2") @@ (i3 :> "3")
=============================================================================
