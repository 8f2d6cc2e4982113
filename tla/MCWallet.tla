------------------------------ MODULE MCWallet ------------------------------
(* The wallet and, in behaviours of their own, the arithmetic of signed    *)
(* elements, the sponges that hash its notes, and the tree that holds      *)
(* them.  The wallet has two notes of one token, a note of the other token *)
(* to receive and an address to pay to.  A u64 holds 0 to 7, so that a     *)
(* third note may overflow the balance.                                    *)
EXTENDS Wallet, SignedElement, Sponge, Smirk

CONSTANTS wcbtc, usdc
VARIABLE part

MCTicker == {wcbtc, usdc}
MCHeld == {[key |-> 101, ticker |-> wcbtc, value |-> 4],
           [key |-> 102, ticker |-> wcbtc, value |-> 3]}
MCGift == {[key |-> 103, ticker |-> usdc, value |-> 1]}
MCPayee == {[key |-> 104, ticker |-> wcbtc, value |-> 5]}

(* The chain identifiers are told apart by equality only.                  *)
MCSymmetry == Permutations(ChainId)

(* A sponge over the integers modulo 7, of width 3: two full rounds before *)
(* and after two partial ones.                                             *)
MCMds == <<<<2, 1, 1>>, <<1, 2, 1>>, <<1, 1, 4>>>>
MCRounds == <<<<1, 2, 3>>, <<4, 5, 6>>, <<0, 1, 5>>, <<3, 3, 1>>, <<6, 2, 4>>, <<5, 0, 2>>>>

(* The parts that do not run are in one initial state.                     *)
MCInit ==
  /\ part \in {"wallet", "signed", "sponge", "tree"}
  /\ Init /\ SignedInit /\ SpongeInit /\ SmirkInit
  /\ part = "wallet" \/ file = NoWallet
  /\ part = "sponge" \/ (scheme = "poseidon" /\ msg = <<0>>)
  /\ part = "tree" \/ tree # Down

MCNext ==
  \/ part = "wallet" /\ Next /\ UNCHANGED <<signedVars, spongeVars, smirkVars, part>>
  \/ part = "signed" /\ SignedNext /\ UNCHANGED <<vars, spongeVars, smirkVars, part>>
  \/ part = "sponge" /\ SpongeNext /\ UNCHANGED <<vars, signedVars, smirkVars, part>>
  \/ part = "tree" /\ SmirkNext /\ UNCHANGED <<vars, signedVars, spongeVars, part>>

MCSpec == MCInit /\ [][MCNext]_<<vars, signedVars, spongeVars, smirkVars, part>>

(* The wallet's balance is the value of its notes, and what it sends       *)
(* balances in one token.                                                  *)
WalletBalances == BalanceIsSum /\ TxnsBalance

(* No note that a command made for the wallet, nor a payment to the last   *)
(* address it gave out, is lost to it (OwnedNotesKept, LastAddressKept).   *)
NotesKept == OwnedNotesKept /\ LastAddressKept

(* The root hash, the predicted root hashes and the paths of the tree are  *)
(* those of its set of elements, however it came to it (RootHashCanonical, *)
(* RootHashWithPredicts, PathsProve).                                      *)
TreeExact == part = "tree" => RootHashCanonical /\ RootHashWithPredicts /\ PathsProve

(* SignedIsInteger, where signed elements are what is computed: the sign   *)
(* and magnitude arithmetic of signed_element.rs is that of the integers.  *)
SignedExact == part = "signed" => SignedIsInteger
=============================================================================
