----------------------------- MODULE RollupAuth -----------------------------
(***************************************************************************)
(* Who may advance the rollup contract                                     *)
(* (citrea/contracts/rollup/RollupV1.sol).                                 *)
(*                                                                         *)
(* A rollup is accepted from a registered prover with the signatures of a  *)
(* quorum of the validators in force at its height, or, once no rollup was *)
(* accepted for openProvingDelay, from anyone and without signatures.  The *)
(* zero knowledge proof is checked in both cases; what it establishes is   *)
(* part of RollupV1.                                                       *)
(*                                                                         *)
(* The owner (a timelock after initializeV2) may make its calls at any     *)
(* time.  One clock stands for block.timestamp and block.number.           *)
(***************************************************************************)
EXTENDS Integers, Sequences, FiniteSets, Functions

CONSTANTS
  Account,          \* accounts that may call verifyRollup
  InitialProver,
  Address,          \* addresses of validators, ordered as numbers
  InitialValidators,
  ValidatorChoice,  \* the sets of validators the owner may install
  MinDelay,         \* 7 days
  MaxFutureBlocks,  \* MAX_FUTURE_BLOCKS
  Epoch,            \* the time of deployment
  MaxDelay,         \* bound: the longest delay the owner sets
  MaxOwnerCalls,    \* bound: calls of the owner
  MaxHeight,        \* bound: heights of rollups
  MaxClock          \* bound: time

ASSUME RollupAuthAssumption ==
  /\ InitialProver \in Account
  /\ Address \subseteq Nat \ {0}
  /\ IsFiniteSet(Address)
  /\ InitialValidators \subseteq Address
  /\ ValidatorChoice \subseteq SUBSET Address
  /\ MinDelay \in Nat \ {0}
  /\ Epoch \in Nat
  /\ Epoch >= MinDelay
  /\ {MaxFutureBlocks, MaxDelay, MaxOwnerCalls, MaxHeight, MaxClock} \subseteq Nat

VARIABLES
  version,            \* 1 after initialize, 2 after initializeV2
  provers,            \* accounts with provers[a] == 1
  validatorSets,      \* sequence of [validFrom, members]
  validatorSetIndex,  \* index into validatorSets, from 1
  blockHeight,        \* height of the last accepted rollup
  lastVerifiedAt,     \* when it was accepted; 0 before the first one
  openProvingDelay,   \* 0 until it is configured
  clock,              \* the current block
  ownerCalls,         \* calls of the owner so far
  signers             \* who signed the last rollup; {} if nobody had to

authVars == <<version, provers, validatorSets, validatorSetIndex, blockHeight,
              lastVerifiedAt, openProvingDelay, clock, ownerCalls, signers>>

-----------------------------------------------------------------------------

(* initialize.                                                             *)
AuthInit ==
  /\ version = 1
  /\ provers = {InitialProver}
  /\ validatorSets = <<[validFrom |-> 0, members |-> InitialValidators]>>
  /\ validatorSetIndex = 1
  /\ blockHeight = 0
  /\ lastVerifiedAt = 0
  /\ openProvingDelay = 0
  /\ clock = Epoch
  /\ ownerCalls = 0
  /\ signers = {}

(* Mutant: the configuration window before initializeV2 counts as silence. *)
IsProvingOpenUnguarded == clock >= lastVerifiedAt + openProvingDelay

(* isProvingOpen.                                                          *)
IsProvingOpen ==
  /\ openProvingDelay # 0
  /\ clock >= lastVerifiedAt + openProvingDelay

(* verifyValidatorSignatures: the threshold.                               *)
MinValidators(V) == (Cardinality(V) * 2) \div 3 + 1

(* Mutant: a signer may be listed twice.                                   *)
EnoughSignersNotDistinct(sigs, V) ==
  /\ Len(sigs) >= MinValidators(V)
  /\ \A k \in DOMAIN sigs : sigs[k] \in V
  /\ \A j, k \in DOMAIN sigs : j < k => sigs[j] <= sigs[k]

(* verifyValidatorSignatures: at least the threshold of signatures, each   *)
(* of a validator and of a greater address than all before it.             *)
EnoughSigners(sigs, V) ==
  /\ Len(sigs) >= MinValidators(V)
  /\ \A k \in DOMAIN sigs : sigs[k] \in V
  /\ \A j, k \in DOMAIN sigs : j < k => sigs[j] < sigs[k]

(* updateValidatorSetIndex: the loop moves the index on until the next set *)
(* is for heights above h.                                                 *)
IndexUpdated(h, i) ==
  /\ i \in validatorSetIndex .. Len(validatorSets)
  /\ \A k \in (validatorSetIndex + 1) .. i : validatorSets[k].validFrom <= h
  /\ i < Len(validatorSets) => validatorSets[i + 1].validFrom > h

Signatures == UNION {[1 .. n -> Address] : n \in 0 .. Cardinality(Address)}

(* verifyValidatorSignatures for a rollup at height h.                     *)
VerifyValidatorSignatures(h) ==
  \/ /\ IsProvingOpen
     /\ signers' = {}
     /\ UNCHANGED validatorSetIndex
  \/ /\ ~ IsProvingOpen
     /\ \E i \in DOMAIN validatorSets, sigs \in Signatures :
          /\ IndexUpdated(h, i)
          /\ EnoughSigners(sigs, validatorSets[i].members)
          /\ validatorSetIndex' = i
          /\ signers' = Range(sigs)

(* A call of the owner.                                                    *)
OwnerCalls ==
  /\ ownerCalls < MaxOwnerCalls
  /\ ownerCalls' = ownerCalls + 1

(* verifyRollup, but for the roots, the proof and its messages.            *)
VerifyRollup(a, h) ==
  /\ a \in provers \/ IsProvingOpen
  /\ h > blockHeight
  /\ VerifyValidatorSignatures(h)
  /\ blockHeight' = h
  /\ lastVerifiedAt' = clock
  /\ UNCHANGED <<version, provers, validatorSets, openProvingDelay, clock, ownerCalls>>

(* initializeV2: once, by the owner.                                       *)
InitializeV2 ==
  /\ OwnerCalls
  /\ version = 1
  /\ \E d \in MinDelay .. MaxDelay : openProvingDelay' = d
  /\ lastVerifiedAt' = clock
  /\ version' = 2
  /\ UNCHANGED <<provers, validatorSets, validatorSetIndex, blockHeight, clock, signers>>

(* setOpenProvingDelay.                                                    *)
SetOpenProvingDelay ==
  /\ OwnerCalls
  /\ \E d \in MinDelay .. MaxDelay : openProvingDelay' = d
  /\ UNCHANGED <<version, provers, validatorSets, validatorSetIndex, blockHeight,
                 lastVerifiedAt, clock, signers>>

(* addProver.                                                              *)
AddProver ==
  /\ OwnerCalls
  /\ \E a \in Account : provers' = provers \cup {a}
  /\ UNCHANGED <<version, validatorSets, validatorSetIndex, blockHeight, lastVerifiedAt,
                 openProvingDelay, clock, signers>>

(* removeProver.                                                           *)
RemoveProver ==
  /\ OwnerCalls
  /\ \E a \in provers : provers' = provers \ {a}
  /\ UNCHANGED <<version, validatorSets, validatorSetIndex, blockHeight, lastVerifiedAt,
                 openProvingDelay, clock, signers>>

(* setValidators, _setValidators: a set without duplicates, for heights    *)
(* from later than where the last one starts.                              *)
SetValidators ==
  /\ OwnerCalls
  /\ \E V \in ValidatorChoice, from \in 0 .. MaxHeight :
       /\ validatorSets[Len(validatorSets)].validFrom < from
       /\ from = 0 \/ from <= clock + MaxFutureBlocks
       /\ validatorSets' = Append(validatorSets, [validFrom |-> from, members |-> V])
  /\ UNCHANGED <<version, provers, validatorSetIndex, blockHeight, lastVerifiedAt,
                 openProvingDelay, clock, signers>>

(* The chain the contract is on goes on.                                   *)
TimePasses ==
  /\ clock < MaxClock
  /\ clock' = clock + 1
  /\ UNCHANGED <<version, provers, validatorSets, validatorSetIndex, blockHeight,
                 lastVerifiedAt, openProvingDelay, ownerCalls, signers>>

OwnerOrTime == SetOpenProvingDelay \/ AddProver \/ RemoveProver \/ SetValidators \/ TimePasses

AuthNext ==
  \/ \E a \in Account, h \in 1 .. MaxHeight : VerifyRollup(a, h)
  \/ InitializeV2
  \/ OwnerOrTime

AuthSpec == AuthInit /\ [][AuthNext]_authVars

-----------------------------------------------------------------------------

(* The types of the contract's fields; a configured delay is at least the  *)
(* seven days that initializeV2 and setOpenProvingDelay ask for.           *)
AuthTypeOK ==
  /\ version \in {1, 2}
  /\ provers \subseteq Account
  /\ validatorSets \in Seq([validFrom : Nat, members : SUBSET Address])
  /\ validatorSetIndex \in DOMAIN validatorSets
  /\ blockHeight \in Nat
  /\ lastVerifiedAt \in Nat
  /\ openProvingDelay \in {0} \cup {d \in Nat : d >= MinDelay}
  /\ clock \in Nat
  /\ ownerCalls \in Nat
  /\ signers \subseteq Address

(* A rollup is signed by more than two thirds of the validators that are   *)
(* in force at its height: of the last set with validFrom at or below it,  *)
(* whatever sets were added, and however many rollups were accepted        *)
(* without signatures (which leave validatorSetIndex behind), in between.  *)
SignedByValidatorsInForce ==
  [][blockHeight' # blockHeight /\ signers' # {} =>
       \A i \in DOMAIN validatorSets :
         /\ validatorSets[i].validFrom <= blockHeight'
         /\ \A j \in DOMAIN validatorSets : validatorSets[j].validFrom <= blockHeight' => j <= i
         => /\ signers' \subseteq validatorSets[i].members
            /\ 3 * Cardinality(signers') > 2 * Cardinality(validatorSets[i].members)]_authVars

(* Signatures are waived only when no rollup was accepted for seven days,  *)
(* whatever the owner configures and however many rollups were accepted    *)
(* that way before.                                                        *)
EscapeNeedsSilence ==
  [][blockHeight' # blockHeight /\ signers' = {} => clock >= lastVerifiedAt + MinDelay]_authVars
=============================================================================
