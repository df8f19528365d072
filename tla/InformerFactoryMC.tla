-------------------------- MODULE InformerFactoryMC --------------------------
(***************************************************************************)
(* Instances of InformerFactory: two threads that use one factory, with    *)
(* writers beside them or with channels that are closed under them, and    *)
(* two factories with a filter each.                                       *)
(***************************************************************************)
EXTENDS InformerFactory, TLC

CONSTANTS c1, c2, x, y, a, b, s1, s2

OneOfEach == (c1 :> "typed") @@ (c2 :> "wrapped")

OneTyped == c1 :> "typed"

OneFilter == <<x>>

TwoFilters == <<x, y>>

OfTheFirst == [th \in Threads |-> x]

OfTheirOwn == (a :> x) @@ (b :> y)

\* Threads that use one factory are alike, and so are channels.
UserSymmetry == Permutations(Threads) \cup Permutations(Channels)
=============================================================================
