----------------------------- MODULE MCConsensus -----------------------------
(***************************************************************************)
(* The two consensus libraries, side by side: a behaviour is one of Solid  *)
(* or one of Doomslug, as its first state says.                            *)
(***************************************************************************)
EXTENDS Solid, Doomslug

CONSTANTS v1, v2, v3, v4, a1, a2

MCOrders == [h \in 0 .. MaxHeight, k \in 0 .. MaxSkips |->
    [i \in 1 .. 4 |-> <<v1, v2, v3, v4>>[((i + h + k) % 4) + 1]]]
MCOrderedValidators(h, k) == MCOrders[h, k]

MCStake == (a1 :> [this |-> 1, next |-> 0]) @@ (a2 :> [this |-> 2, next |-> 0])

VARIABLE part

MCInit == part \in {"solid", "doomslug"} /\ SolidInit /\ DoomslugInit

MCNext ==
    \/ part = "solid" /\ SolidNext /\ UNCHANGED <<doomslugVars, part>>
    \/ part = "doomslug" /\ DoomslugNext /\ UNCHANGED <<solidVars, part>>

MCSpec == MCInit /\ [][MCNext]_<<solidVars, doomslugVars, part>>
==============================================================================
