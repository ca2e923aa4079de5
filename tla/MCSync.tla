-------------------------------- MODULE MCSync --------------------------------
(* ChannelSync on small instances: the numbers "a1" and "A1" are the same room *)
(* for a provider, "b1" is another.                                            *)
EXTENDS ChannelSync, TLC

MCNorm == ("a1" :> "a1") @@ ("A1" :> "a1") @@ ("b1" :> "b1")
Room1(e, n) == [ext |-> e, name |-> n]

\* Rooms appear, are renamed, swap their numbers, or have the same number.
MCFetch == {<<Room1("e1", "a1")>>, <<Room1("e1", "b1")>>,
            <<Room1("e1", "a1"), Room1("e2", "b1")>>,
            <<Room1("e1", "b1"), Room1("e2", "A1")>>,
            <<Room1("e1", "a1"), Room1("e2", "A1")>>}

Symmetry == Permutations(Integration) \cup Permutations(RoomId)
=============================================================================
