------------------------------ MODULE RollupV1 ------------------------------
(***************************************************************************)
(* The money of the rollup contract                                        *)
(* (citrea/contracts/rollup/RollupV1.sol), on top of who may advance it    *)
(* (RollupAuth).                                                           *)
(*                                                                         *)
(* Deposits are recorded as mints and claimed by mint transactions on the  *)
(* rollup; burns on the rollup are paid out when the block that holds them *)
(* is rolled up, to the user, or to whoever paid the user in advance.      *)
(* There is one token.  Outside of this module are the blocks of the       *)
(* rollup (chain, appended to by the validators, see Proposer), the zero   *)
(* knowledge proof that a rollup is of the next block with transactions,   *)
(* the token, and the EscrowManager, which records deposits and payouts it *)
(* collects and makes itself.                                              *)
(***************************************************************************)
EXTENDS RollupAuth

CONSTANTS
  Hash,            \* mint hashes
  Amount,          \* the amounts deposited
  Burn,            \* burns: hash, address, note kind and amount
  BurnAmount,      \* their amounts
  Substitutor,     \* accounts that may be burn substitutors
  Claimant,        \* the account the EscrowManager claims burns for
  Nobody,          \* the zero address
  Cap,             \* the caps the owner may set
  MaxBurnFee,      \* MAX_BURN_FEE
  OpeningBalance,  \* tokens held, and owned on the rollup, at the start
  MaxBurns,        \* bound: burns in a block
  MaxSettings      \* bound: calls of the setters below

ASSUME RollupV1Assumption ==
  /\ IsFiniteSet(Hash)
  /\ Amount \subseteq Nat
  /\ BurnAmount \in [Burn -> Nat]
  /\ Cap \subseteq Nat
  /\ {MaxBurnFee, OpeningBalance, MaxBurns, MaxSettings} \subseteq Nat
  /\ Nobody \notin Substitutor \cup {Claimant}

VARIABLES
  chain,             \* blocks of the rollup: value by mint hash, and burns
  mints,             \* Mint by hash; recorded is a note_kind other than zero
  substitutedBurns,  \* who is paid for a burn instead of the user
  burnSubstitutors,  \* accounts with burnSubstitutors[a]
  perMintCap, globalTvlCap, currentTvl, burnFee,
  feeSink,           \* whether a fee sink is set
  settings,          \* calls of the setters so far
  balance,           \* the contract's balance of the token
  owed,              \* deposits the EscrowManager holds for the contract
  untracked,         \* whether some were owed when initializeV2 counted
  stuck,             \* what burns and fees left behind in the contract
  paid               \* the payments made for a burn

tokenVars == <<balance, owed, untracked, stuck, paid>>
configVars == <<burnSubstitutors, perMintCap, globalTvlCap, burnFee, feeSink, settings>>
moneyVars == <<chain, mints, substitutedBurns, currentTvl, configVars, tokenVars>>
rollupVars == <<authVars, moneyVars>>

IsEmpty(b) == DOMAIN b.mints = {} /\ b.burns = <<>>

BlockMintValue(b) == SumFunction(b.mints)
BlockBurnValue(b) == SumFunction([i \in DOMAIN b.burns |-> BurnAmount[b.burns[i]]])
BlockValue(b) == BlockMintValue(b) - BlockBurnValue(b)

(* The value of the notes after the first h blocks.                        *)
NoteValue(h) ==
  OpeningBalance + SumFunctionOnSet([k \in DOMAIN chain |-> BlockValue(chain[k])], 1 .. h)

Claimed == UNION {DOMAIN chain[h].mints : h \in DOMAIN chain}
Burnt == UNION {Range(chain[h].burns) : h \in DOMAIN chain}
BlockOf(x) == CHOOSE h \in DOMAIN chain : x \in Range(chain[h].burns)

-----------------------------------------------------------------------------

RollupInit ==
  /\ AuthInit
  /\ chain = <<>>
  /\ mints = [m \in Hash |-> [recorded |-> FALSE, amount |-> 0, spent |-> FALSE]]
  /\ substitutedBurns = [x \in Burn |-> Nobody]
  /\ \E s \in Substitutor : burnSubstitutors = {s}
  /\ perMintCap = 0
  /\ globalTvlCap = 0
  /\ currentTvl = 0
  /\ burnFee = 0
  /\ feeSink = FALSE
  /\ settings = 0
  /\ balance = OpeningBalance
  /\ owed = 0
  /\ untracked = FALSE
  /\ stuck = 0
  /\ paid = [x \in Burn |-> {}]

(* External: the validators commit a block.  Its mints are recorded in the *)
(* contract and claimed by no earlier block; its burns spend notes of      *)
(* earlier blocks.                                                         *)
CommitBlock(ms, xs) ==
  LET block == [mints |-> [m \in ms |-> mints[m].amount], burns |-> xs]
  IN /\ Len(chain) < MaxHeight
     /\ \A m \in ms : mints[m].recorded /\ ~ mints[m].spent /\ m \notin Claimed
     /\ Range(xs) \cap Burnt = {}
     /\ BlockBurnValue(block) <= NoteValue(Len(chain))
     /\ chain' = Append(chain, block)
     /\ UNCHANGED <<authVars, mints, substitutedBurns, currentTvl, configVars, tokenVars>>

(* Mutant: a mint that exists is recorded again.                           *)
RecordMintAgain(m, v) ==
  /\ v <= perMintCap
  /\ currentTvl + v <= globalTvlCap
  /\ currentTvl' = currentTvl + v
  /\ mints' = [mints EXCEPT ![m] = [recorded |-> TRUE, amount |-> v, spent |-> FALSE]]

(* What mint and mintClaimed share.  A mint of nothing does not count as   *)
(* existing.                                                               *)
RecordMint(m, v) ==
  /\ mints[m].amount = 0
  /\ v <= perMintCap
  /\ currentTvl + v <= globalTvlCap
  /\ currentTvl' = currentTvl + v
  /\ mints' = [mints EXCEPT ![m] = [recorded |-> TRUE, amount |-> v, spent |-> FALSE]]

(* mint: the tokens come with the call.                                    *)
MintDeposit(m, v) ==
  /\ RecordMint(m, v)
  /\ balance' = balance + v
  /\ UNCHANGED <<authVars, chain, substitutedBurns, configVars, owed, untracked, stuck, paid>>

(* mintClaimed: the EscrowManager has the tokens.                          *)
MintClaimed(m, v) ==
  /\ RecordMint(m, v)
  /\ owed' = owed + v
  /\ UNCHANGED <<authVars, chain, substitutedBurns, configVars, balance, untracked, stuck, paid>>

(* External: the EscrowManager sends the tokens it owes.                   *)
EscrowPays ==
  /\ owed > 0
  /\ balance' = balance + owed
  /\ owed' = 0
  /\ UNCHANGED <<authVars, chain, mints, substitutedBurns, currentTvl, configVars, untracked,
                 stuck, paid>>

(* computeBurnFee.                                                         *)
ComputeBurnFee(v) == IF burnFee > v THEN v ELSE burnFee

(* Mutant: a burn whose block is rolled up is substituted.                 *)
SubstitutableLate(x) == x \in Burnt /\ substitutedBurns[x] = Nobody

(* substituteBurnTo: the checks, for a burn in a block of the rollup.      *)
Substitutable(x) ==
  /\ x \in Burnt
  /\ substitutedBurns[x] = Nobody
  /\ blockHeight < BlockOf(x)

(* substituteBurn, substituteBurnTo: the substitutor pays, the contract    *)
(* passes it on; if a transfer fails so does the call.                     *)
SubstituteBurn(s, x) ==
  /\ s \in burnSubstitutors
  /\ Substitutable(x)
  /\ substitutedBurns' = [substitutedBurns EXCEPT ![x] = s]
  /\ paid' = [paid EXCEPT ![x] = @ \cup {"advance"}]
  /\ UNCHANGED <<authVars, chain, mints, currentTvl, configVars, balance, owed, untracked, stuck>>

(* burnClaimed: the EscrowManager paid the user; nothing is checked.       *)
BurnClaimed(x) ==
  /\ x \in Burnt
  /\ substitutedBurns' = [substitutedBurns EXCEPT ![x] = Claimant]
  /\ UNCHANGED <<authVars, chain, mints, currentTvl, configVars, tokenVars>>

-----------------------------------------------------------------------------

(* Mutant: the fee is not taken out of the payout.                         *)
PayoutInFull(x) == BurnAmount[x]

Payout(x) == BurnAmount[x] - ComputeBurnFee(BurnAmount[x])

TvlAfter(tvl, x, leaving) == IF tvl >= leaving THEN tvl - leaving ELSE 0

(* verifyBurn: pay the substitutor or the user what is left of the value   *)
(* after the fee, then the fee to the sink.  A transfer that fails, for    *)
(* lack of tokens or because of the receiver, reverts nothing: the tokens  *)
(* stay in the contract.                                                   *)
VerifyBurn(s, x, ok, feeOk) ==
  LET fee == ComputeBurnFee(BurnAmount[x])
      success == ok /\ Payout(x) <= s.balance
      feePaid == fee > 0 /\ feeSink /\ feeOk /\ fee <= s.balance - Payout(x)
      leaving == Payout(x) + (IF feePaid THEN fee ELSE 0)
      to == IF substitutedBurns[x] = Nobody THEN "user" ELSE "substitutor"
  IN IF success
       THEN [balance |-> s.balance - leaving,
             tvl |-> TvlAfter(s.tvl, x, leaving),
             stuck |-> s.stuck + (IF feePaid THEN 0 ELSE fee),
             paid |-> [s.paid EXCEPT ![x] = @ \cup {to}]]
       ELSE [balance |-> s.balance,
             tvl |-> s.tvl,
             stuck |-> s.stuck + BurnAmount[x],
             paid |-> [s.paid EXCEPT ![x] = @ \cup {"failed"}]]

(* verifyBurn, for each of the messages in turn.  oks and feeOks are the   *)
(* burns whose payout and whose fee the token agrees to transfer.          *)
VerifyBurns(start, xs, oks, feeOks) ==
  LET after[i \in 0 .. Len(xs)] ==
        IF i = 0 THEN start ELSE VerifyBurn(after[i - 1], xs[i], xs[i] \in oks, xs[i] \in feeOks)
  IN after[Len(xs)]

(* verifyMint, for each of the messages.                                   *)
VerifyMints(values) ==
  /\ \A m \in DOMAIN values : /\ mints[m].recorded
                              /\ mints[m].amount = values[m]
                              /\ ~ mints[m].spent
  /\ mints' = [m \in Hash |-> IF m \in DOMAIN values THEN [mints[m] EXCEPT !.spent = TRUE]
                                                    ELSE mints[m]]

(* The blocks with transactions that are not rolled up.                    *)
Unsettled == {h \in DOMAIN chain : h > blockHeight /\ ~ IsEmpty(chain[h])}

(* Mutant: the modifier onlyProverOrOpen is missing.                       *)
AcceptFromAnyone(a, h) ==
  /\ h > blockHeight
  /\ VerifyValidatorSignatures(h)
  /\ blockHeight' = h
  /\ lastVerifiedAt' = clock
  /\ UNCHANGED <<version, provers, validatorSets, openProvingDelay, clock, ownerCalls>>

(* onlyProverOrOpen and the checks of the height and the signatures.       *)
Accept(a, h) == VerifyRollup(a, h)

(* verifyRollup.  verifyRootHash and the proof leave only the first of     *)
(* these blocks.                                                           *)
RollUp(a) ==
  /\ \E h \in Unsettled :
       /\ \A k \in Unsettled : h <= k
       /\ Accept(a, h)
       /\ VerifyMints(chain[h].mints)
       /\ \E oks, feeOks \in SUBSET Range(chain[h].burns) :
            LET start == [balance |-> balance, tvl |-> currentTvl, stuck |-> stuck, paid |-> paid]
                end == VerifyBurns(start, chain[h].burns, oks, feeOks)
            IN /\ balance' = end.balance
               /\ currentTvl' = end.tvl
               /\ stuck' = end.stuck
               /\ paid' = end.paid
  /\ UNCHANGED <<chain, substitutedBurns, configVars, owed, untracked>>

(* initializeV2.                                                           *)
InitializeRollupV2(per, global, fee) ==
  /\ InitializeV2
  /\ per > 0
  /\ global >= per
  /\ perMintCap' = per
  /\ globalTvlCap' = global
  /\ burnFee' = fee
  /\ feeSink' = TRUE
  /\ currentTvl' = balance
  /\ untracked' = (owed > 0)
  /\ UNCHANGED <<chain, mints, substitutedBurns, burnSubstitutors, settings, balance, owed, stuck,
                 paid>>

SetPerMintCap ==
  /\ \E c \in Cap : c > 0 /\ c <= globalTvlCap /\ perMintCap' = c
  /\ UNCHANGED <<globalTvlCap, burnFee, feeSink, burnSubstitutors>>

SetGlobalTvlCap ==
  /\ \E c \in Cap : c >= perMintCap /\ globalTvlCap' = c
  /\ UNCHANGED <<perMintCap, burnFee, feeSink, burnSubstitutors>>

SetBurnFee ==
  /\ \E f \in 0 .. MaxBurnFee : burnFee' = f
  /\ UNCHANGED <<perMintCap, globalTvlCap, feeSink, burnSubstitutors>>

SetFeeSink ==
  /\ feeSink' = TRUE
  /\ UNCHANGED <<perMintCap, globalTvlCap, burnFee, burnSubstitutors>>

AddBurnSubstitutor ==
  /\ \E s \in Substitutor : burnSubstitutors' = burnSubstitutors \cup {s}
  /\ UNCHANGED <<perMintCap, globalTvlCap, burnFee, feeSink>>

RemoveBurnSubstitutor ==
  /\ \E s \in Substitutor : burnSubstitutors' = burnSubstitutors \ {s}
  /\ UNCHANGED <<perMintCap, globalTvlCap, burnFee, feeSink>>

(* The owner's setters.                                                    *)
Configure ==
  /\ settings < MaxSettings
  /\ settings' = settings + 1
  /\ \/ SetPerMintCap \/ SetGlobalTvlCap \/ SetBurnFee \/ SetFeeSink
     \/ AddBurnSubstitutor \/ RemoveBurnSubstitutor
  /\ UNCHANGED <<authVars, chain, mints, substitutedBurns, currentTvl, tokenVars>>

Burns == UNION {{xs \in [1 .. n -> Burn] : IsInjective(xs)} : n \in 0 .. MaxBurns}

RollupNext ==
  \/ \E m \in SUBSET Hash, xs \in Burns : CommitBlock(m, xs)
  \/ \E m \in Hash, v \in Amount : MintDeposit(m, v) \/ MintClaimed(m, v)
  \/ EscrowPays
  \/ \E s \in Substitutor, x \in Burn : SubstituteBurn(s, x)
  \/ \E x \in Burn : BurnClaimed(x)
  \/ \E a \in Account : RollUp(a)
  \/ \E per, global \in Cap, fee \in 0 .. MaxBurnFee : InitializeRollupV2(per, global, fee)
  \/ Configure
  \/ OwnerOrTime /\ UNCHANGED moneyVars

RollupSpec == RollupInit /\ [][RollupNext]_rollupVars

-----------------------------------------------------------------------------

(* The types of the contract's money: no amount is ever negative, whatever *)
(* was burnt before initializeV2 counted what the contract holds.          *)
RollupTypeOK ==
  /\ \A h \in DOMAIN chain : Range(chain[h].burns) \subseteq Burn
  /\ mints \in [Hash -> [recorded : BOOLEAN, amount : Nat, spent : BOOLEAN]]
  /\ substitutedBurns \in [Burn -> Substitutor \cup {Claimant, Nobody}]
  /\ burnSubstitutors \subseteq Substitutor
  /\ {perMintCap, globalTvlCap, currentTvl, burnFee, settings, balance, owed, stuck}
       \subseteq Nat
  /\ feeSink \in BOOLEAN
  /\ untracked \in BOOLEAN
  /\ paid \in [Burn -> SUBSET {"advance", "user", "substitutor", "failed"}]

Pending == {m \in Hash : ~ mints[m].spent}

(* No token is made or lost: what the contract has, and is owed by the     *)
(* EscrowManager, is exactly the value of the notes at the contract's      *)
(* height, the deposits not yet claimed, and what failed payouts and fees  *)
(* left behind.                                                            *)
Conservation ==
  balance + owed =
    NoteValue(blockHeight) + SumFunctionOnSet([m \in Hash |-> mints[m].amount], Pending) + stuck

(* "TVL should track tokens that actually left the contract": from         *)
(* initializeV2 on currentTvl is what the contract holds and is owed,      *)
(* whichever payouts and fees failed, unless the EscrowManager already     *)
(* owed tokens when initializeV2 read the balance.                         *)
TvlTracksTokens == version = 2 /\ ~ untracked => currentTvl = balance + owed

(* What the contract holds, owes and counts as locked agrees, whichever    *)
(* transfers fail (Conservation, TvlTracksTokens).                         *)
TokensAccounted == RollupTypeOK /\ Conservation /\ TvlTracksTokens

(* RollupV1 implements RollupAuth: verifyRollup with its mints, burns and  *)
(* payouts, and every other call of the contract, change who may advance   *)
(* it and advance it only as RollupAuth does.                              *)
MoneyKeepsAuth == AuthInit /\ [][AuthNext]_authVars

Settlements(x) == paid[x] \cap {"user", "substitutor", "failed"}

(* The contract pays the user of a burn at most once, in advance or when   *)
(* the burn is rolled up, and a rolled up burn is settled exactly once.    *)
BurnPaidOnce ==
  \A x \in Burn :
    /\ ~ ({"advance", "user"} \subseteq paid[x])
    /\ Cardinality(Settlements(x)) = IF x \in Burnt /\ BlockOf(x) <= blockHeight THEN 1 ELSE 0

(* No deposit, claim, payout or setting can make the messages of a block   *)
(* that the validators committed revert: the mints it claims (of more than *)
(* nothing) stay as they were, so verifyMint accepts them.                 *)
BlocksCanBeSettled ==
  \A h \in Unsettled : \A m \in DOMAIN chain[h].mints :
    chain[h].mints[m] > 0 =>
      mints[m] = [recorded |-> TRUE, amount |-> chain[h].mints[m], spent |-> FALSE]
=============================================================================
