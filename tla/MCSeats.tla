------------------------------ MODULE MCSeats ------------------------------
(* Small instances of SeatRegistry for TLC. *)
EXTENDS SeatRegistry, TLC, FiniteSets

CONSTANTS p1, p2, p3, k1, k2, h1, h2

\* Two sessions, the first of which is restarted: p1, then p2.
RestartKeys == (p1 :> k1) @@ (p2 :> k1) @@ (p3 :> k2)
\* Two sessions of one process each.
PairKeys == (p1 :> k1) @@ (p2 :> k2)

\* What claims carry.  The custom names follow the ordinals.
Chosen   == MaxOrdinal + 1
Plain    == {<<NoSeat, FALSE>>}
AnyClaim == {<<NoSeat, FALSE>>, <<Chosen, FALSE>>, <<Chosen, TRUE>>}
Moving   == {<<Chosen, FALSE>>, <<Chosen, TRUE>>, <<1, TRUE>>}

\* A chosen name that is a lane.
ReservedName == {Chosen}

NoRelease      == {}
Fenced         == {<<TRUE, "performed">>}
FencedInferred == {<<TRUE, "performed">>, <<FALSE, "inferred">>}

HandlerSymmetry == Permutations(Handlers)

\* The two sessions of PairKeys are interchangeable, each with its key.
Swapped == (p1 :> p2) @@ (p2 :> p1) @@ (k1 :> k2) @@ (k2 :> k1)
PairSymmetry ==
    HandlerSymmetry \cup {f @@ Swapped : f \in HandlerSymmetry}
=============================================================================
