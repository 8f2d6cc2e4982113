----------------------------- MODULE MCFastSync -----------------------------
(* Three notes are minted and one is burned, one more is minted, then a    *)
(* transaction with two inputs and two outputs spends the other two.  Only *)
(* the last has no zero commitment.  A block of height 2 does not belong   *)
(* to the chain.                                                           *)
EXTENDS FastSync, TLC

CONSTANTS stray, n1, n2, n3, n4, n5, n6

MCStray == {stray}
MCBlock == 0 .. ChainHeight \cup MCStray
MCHeightOf == [h \in 0 .. ChainHeight |-> h] @@ stray :> 2
MCCreates ==
  [h \in 0 .. ChainHeight |->
     CASE h = 1 -> {n1, n2, n3} [] h = 3 -> {n4} [] h = 4 -> {n5, n6} [] OTHER -> {}]
MCConsumes ==
  [h \in 0 .. ChainHeight |->
     CASE h = 2 -> {n3} [] h = 4 -> {n1, n2} [] OTHER -> {}]
=============================================================================
