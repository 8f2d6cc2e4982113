------------------------------- MODULE Sponge -------------------------------
(* The two sponges that turn a permutation into a hash of a message:        *)
(* minimal-poseidon (Poseidon, width 3, rate 2, the permutation included)   *)
(* and hash/src/poseidon.rs (Poseidon2, width 4, rate 3, the permutation    *)
(* external).  A message is absorbed one element after the other.           *)
(*                                                                          *)
(* Poseidon computes in the field of P elements, with round constants and   *)
(* a matrix of that size.  The permutation of Poseidon2 is free: a word of  *)
(* its state is what was added since the last permutation, and the whole    *)
(* state before that.                                                       *)
EXTENDS Integers, SequencesExt

CONSTANTS P,          \* the field of Poseidon
          Mds,        \* its matrix
          Rounds,     \* its round constants
          PartRounds, \* how many rounds are partial
          Input,      \* elements of messages
          MaxLen      \* bound: length of a message

VARIABLES scheme,     \* the sponge at work
          msg,        \* the message
          absorbed,   \* how much of it, and of its padding, was absorbed
          cache,      \* elements that are not in the state yet
          state,      \* the words of the permutation
          digest      \* what was squeezed

spongeVars == <<scheme, msg, absorbed, cache, state, digest>>

NoDigest == <<>>

Messages == UNION {[1 .. n -> Input] : n \in 1 .. MaxLen}

-----------------------------------------------------------------------------
(* Poseidon.                                                                *)

sbox(v) == v ^ 5 % P

apply_mds(s) ==
  [i \in 1 .. 3 |-> (Mds[i][1] * s[1] + Mds[i][2] * s[2] + Mds[i][3] * s[3]) % P]

full_round(s, rc) == apply_mds([i \in 1 .. 3 |-> sbox(s[i] + rc[i])])

part_round(s, rc) ==
  apply_mds([i \in 1 .. 3 |-> IF i = 1 THEN sbox(s[1] + rc[1]) ELSE s[i] + rc[i]])

(* Half of the full rounds, the partial rounds, the other half.             *)
permute(s) ==
  LET half == (Len(Rounds) - PartRounds) \div 2
      round(t, i) ==
        IF i \in half + 1 .. half + PartRounds
          THEN part_round(t, Rounds[i])
          ELSE full_round(t, Rounds[i])
  IN  FoldLeft(round, s, [i \in 1 .. Len(Rounds) |-> i])

States == [1 .. 3 -> 0 .. P - 1]

Permuted == [s \in States |-> permute(s)]

(* ConstantLength: the length is the first capacity element, and zeros fill *)
(* the last block.                                                          *)
Padding(len) == [i \in 1 .. (-len) % 2 |-> 0]

(* poseidon_sponge_internal                                                 *)
SpongeInternal(s, input) ==
  Permuted[[i \in 1 .. 3 |-> IF i <= 2 THEN (s[i] + input[i]) % P ELSE s[i]]]

(* Mutant: the element that found the block full starts no new one.         *)
AbsorbDropped(value) ==
  IF Len(cache) < 2
    THEN cache' = Append(cache, value) /\ UNCHANGED state
    ELSE /\ state' = SpongeInternal(state, cache)
         /\ cache' = <<>>

Absorb(value) ==
  IF Len(cache) < 2
    THEN cache' = Append(cache, value) /\ UNCHANGED state
    ELSE /\ state' = SpongeInternal(state, cache)
         /\ cache' = <<value>>

(* finish_absorbing, which takes a full block, and squeeze.                 *)
FinishAbsorbing ==
  /\ Len(cache) = 2
  /\ state' = SpongeInternal(state, cache)
  /\ digest' = <<state'[1]>>

-----------------------------------------------------------------------------
(* Poseidon2.                                                               *)

(* A word: what was added to the i-th word of a permuted state.             *)
OutWord(before, i, n) == [before |-> before, word |-> i, added |-> n]

poseidon2_permutation(s) == [i \in 1 .. 4 |-> OutWord(s, i, 0)]

perform_duplex(s, c) ==
  LET padded == c \o [i \in 1 .. 3 - Len(c) |-> 0]
  IN  poseidon2_permutation(
        [i \in 1 .. 4 |-> IF i <= 3 THEN [s[i] EXCEPT !.added = @ + padded[i]] ELSE s[i]])

Absorb2(value) ==
  IF Len(cache) = 3
    THEN /\ state' = perform_duplex(state, cache)
         /\ cache' = <<value>>
    ELSE cache' = Append(cache, value) /\ UNCHANGED state

Squeeze2 ==
  /\ state' = perform_duplex(state, cache)
  /\ digest' = <<state'[1]>>

-----------------------------------------------------------------------------
(* Sponge::new and Poseidon2Sponge::new: the length is the capacity.        *)
InitialState(s, len) ==
  IF s = "poseidon"
    THEN <<0, 0, len % P>>
    ELSE [i \in 1 .. 4 |-> OutWord(<<>>, i, IF i = 4 THEN len ELSE 0)]

SpongeInit ==
  /\ scheme \in {"poseidon", "poseidon2"}
  /\ msg \in Messages
  /\ absorbed = 0
  /\ cache = <<>>
  /\ state = InitialState(scheme, Len(msg))
  /\ digest = NoDigest

(* Hash::hash: the message and its padding, then the digest.                *)
HashPoseidon ==
  /\ scheme = "poseidon"
  /\ digest = NoDigest
  /\ LET input == msg \o Padding(Len(msg))
     IN  IF absorbed < Len(input)
           THEN /\ Absorb(input[absorbed + 1])
                /\ absorbed' = absorbed + 1
                /\ UNCHANGED digest
           ELSE FinishAbsorbing /\ UNCHANGED <<absorbed, cache>>
  /\ UNCHANGED <<scheme, msg>>

(* poseidon_hash                                                            *)
HashPoseidon2 ==
  /\ scheme = "poseidon2"
  /\ digest = NoDigest
  /\ IF absorbed < Len(msg)
       THEN /\ Absorb2(msg[absorbed + 1])
            /\ absorbed' = absorbed + 1
            /\ UNCHANGED digest
       ELSE Squeeze2 /\ UNCHANGED <<absorbed, cache>>
  /\ UNCHANGED <<scheme, msg>>

SpongeNext == HashPoseidon \/ HashPoseidon2

SpongeSpec == SpongeInit /\ [][SpongeNext]_spongeVars

-----------------------------------------------------------------------------
(* The reference: blocks of the message, each added to the state before a   *)
(* permutation.                                                             *)
Digest(s, m) ==
  LET rate == IF s = "poseidon" THEN 2 ELSE 3
      blocks == (Len(m) + rate - 1) \div rate
      block(b) == [i \in 1 .. rate |->
                     LET k == (b - 1) * rate + i IN IF k <= Len(m) THEN m[k] ELSE 0]
      step(t, b) == IF s = "poseidon" THEN SpongeInternal(t, block(b))
                                      ELSE perform_duplex(t, block(b))
  IN  FoldLeft(step, InitialState(s, Len(m)), [b \in 1 .. blocks |-> b])[1]

Digests == [s \in {"poseidon", "poseidon2"} |-> [m \in Messages |-> Digest(s, m)]]

PermutesStates == {Permuted[s] : s \in States} = States

(* A digest is that of the blocks of the whole message, whatever its length *)
(* leaves in the last block (absorb and finish_absorbing, perform_duplex);  *)
(* a Poseidon2 digest is that of no other message, of any length (the       *)
(* length in the capacity tells a message from the one padded with zeros);  *)
(* and the permutation of Poseidon maps no two states to the same one, in a *)
(* field where the fifth power and the matrix have inverses (permute).      *)
DigestOfMessage ==
  digest # NoDigest =>
    /\ digest[1] = Digests[scheme][msg]
    /\ scheme = "poseidon" => PermutesStates
    /\ scheme = "poseidon2" =>
         \A m \in Messages : Digests[scheme][m] = digest[1] => m = msg
=============================================================================
