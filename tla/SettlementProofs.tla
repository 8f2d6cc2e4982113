--------------------------- MODULE SettlementProofs ---------------------------
(***************************************************************************)
(* Proofs about the money of the rollup contract, for every set of         *)
(* deposits and burns, every fee, every cap and every number of calls.     *)
(***************************************************************************)
EXTENDS SettlementInvariant

-----------------------------------------------------------------------------
(* The first state.                                                        *)

(* A contract just deployed satisfies the invariant.                       *)
LEMMA MoneyInitInv == RollupInit => MoneyInv
<1> SUFFICES ASSUME RollupInit PROVE MoneyInv
  BY Zenon
<1>1. chain = <<>> /\ blockHeight = 0 /\ Len(chain) = 0 /\ DOMAIN chain = {}
  BY DEF RollupInit, AuthInit
<1>2. RollupTypeOK
  <2>1. burnSubstitutors \subseteq Substitutor
    BY SMTT(30) DEF RollupInit
  <2>2. {perMintCap, globalTvlCap, currentTvl, burnFee, settings, balance, owed, stuck}
          \subseteq Nat
    BY RollupV1Assumption DEF RollupInit
  <2>3. /\ mints \in [Hash -> [recorded : BOOLEAN, amount : Nat, spent : BOOLEAN]]
        /\ substitutedBurns \in [Burn -> Substitutor \cup {Claimant, Nobody}]
        /\ paid \in [Burn -> SUBSET {"advance", "user", "substitutor", "failed"}]
    BY Zenon DEF RollupInit
  <2>4. feeSink \in BOOLEAN /\ untracked \in BOOLEAN
    BY Zenon DEF RollupInit
  <2> QED BY <1>1, <2>1, <2>2, <2>3, <2>4, Zenon DEF RollupTypeOK
<1>3. ChainOK
  <2>1. MaxHeight \in Nat
    BY RollupAuthAssumption, Zenon
  <2>2. chain \in Seq(Blocks)
    BY <1>1
  <2> QED BY <1>1, <2>1, <2>2 DEF ChainOK
<1>4. Conservation
  <2> DEFINE f == [m \in Hash |-> mints[m].amount]
             g == [k \in DOMAIN chain |-> BlockValue(chain[k])]
  <2>1. NoteValue(blockHeight) = OpeningBalance
    <3>1. 1 .. 0 = {}
      OBVIOUS
    <3>2. NoteValue(0) = OpeningBalance + SumFunctionOnSet(g, {})
      BY <3>1, Zenon DEF NoteValue
    <3> HIDE DEF g
    <3>3. SumFunctionOnSet(g, {}) = 0
      BY FS_EmptySet, SumRecursion, Zenon
    <3> QED BY <1>1, <3>2, <3>3, RollupV1Assumption
  <2>2. PendingValue = 0
    <3>1. IsFiniteSet(Hash)
      BY RollupV1Assumption, Zenon
    <3>2. \A m \in Hash : f[m] = 0
      BY Zenon DEF RollupInit
    <3>3. IsFiniteSet(Pending) /\ Pending \subseteq Hash
      BY <1>2, PendingFacts, Zenon
    <3>4. PendingValue = SumFunctionOnSet(f, Pending)
      BY Zenon DEF PendingValue
    <3> HIDE DEF f
    <3> QED BY <3>2, <3>3, <3>4, SumOfZeros, Zenon
  <2>3. balance = OpeningBalance /\ owed = 0 /\ stuck = 0
    BY Zenon DEF RollupInit
  <2> QED BY <2>1, <2>2, <2>3, ConservationIs, RollupV1Assumption
<1>5. TvlTracksTokens
  BY DEF RollupInit, AuthInit, TvlTracksTokens
<1>6. BurnsInStep
  <2>1. \A x : ~ RolledUp(x)
    BY <1>1 DEF RolledUp
  <2>2. \A x \in Burn : paid[x] = {} /\ Settlements(x) = {}
    BY Zenon DEF RollupInit, Settlements
  <2> QED BY <2>1, <2>2, Zenon DEF BurnsInStep
<1>7. BlocksCanBeSettled
  BY <1>1, Zenon DEF BlocksCanBeSettled, Unsettled
<1> QED BY <1>2, <1>3, <1>4, <1>5, <1>6, <1>7, Zenon DEF MoneyInv

-----------------------------------------------------------------------------
(* A block is committed.                                                   *)

(* A new block of the rollup keeps it.                                     *)
LEMMA CommitStep ==
  ASSUME MoneyInv, NEW ms \in SUBSET Hash, NEW xs \in Burns, CommitBlock(ms, xs)
  PROVE  MoneyInv'
<1> USE DEF MoneyInv
<1> DEFINE b == [mints |-> [m \in ms |-> mints[m].amount], burns |-> xs]
           n == Len(chain)
<1>1. /\ n < MaxHeight
      /\ \A m \in ms : mints[m].recorded /\ ~ mints[m].spent /\ m \notin Claimed
      /\ Range(xs) \cap Burnt = {}
      /\ chain' = Append(chain, b)
      /\ UNCHANGED <<authVars, mints, substitutedBurns, currentTvl, configVars, tokenVars>>
  BY Zenon DEF CommitBlock
<1>2. \A m \in Hash : mints[m] \in [recorded : BOOLEAN, amount : Nat, spent : BOOLEAN]
  BY SMTT(30) DEF RollupTypeOK
<1>3. xs \in Seq(Burn) /\ IsInjective(xs)
  BY RollupV1Assumption, SMTT(30) DEF Burns
<1>4. b \in Blocks
  <2>1. [m \in ms |-> mints[m].amount] \in [ms -> Nat]
    BY <1>2, Zenon
  <2> QED BY <1>3, <2>1, Zenon DEF Blocks
<1>5. b.burns = xs /\ DOMAIN b.mints = ms /\ \A m \in ms : b.mints[m] = mints[m].amount
  BY Zenon
<1> HIDE DEF b
<1>6. n \in Nat /\ DOMAIN chain = 1 .. n /\ chain \in Seq(Blocks)
  BY ChainFacts, SMTT(30) DEF ChainOK
<1>7. /\ chain' \in Seq(Blocks) /\ Len(chain') = n + 1 /\ DOMAIN chain' = 1 .. n + 1
      /\ \A h \in 1 .. n : chain'[h] = chain[h]
      /\ chain'[n + 1] = b
  BY <1>1, <1>4, <1>6
<1>8. \A h \in DOMAIN chain' : (h \in 1 .. n /\ h \in DOMAIN chain) \/ h = n + 1
  BY <1>6, <1>7
<1>9. UNCHANGED <<blockHeight, version>>
  BY <1>1, Zenon DEF authVars
<1>10. UNCHANGED <<mints, substitutedBurns, currentTvl, burnSubstitutors, perMintCap, globalTvlCap,
                   burnFee, feeSink, settings, balance, owed, untracked, stuck, paid>>
  BY <1>1, Zenon DEF configVars, tokenVars
<1>11. /\ blockHeight \in Nat /\ blockHeight <= n /\ 1 .. blockHeight \subseteq 1 .. n
       /\ blockHeight < n + 1
  BY <1>6 DEF ChainOK
<1> HIDE DEF n
<1>12. ChainOK'
  <2>1. \A h \in DOMAIN chain' : IsInjective(chain'[h].burns)
    BY <1>3, <1>5, <1>7, <1>8, SMTT(30) DEF ChainOK
  <2>2. ASSUME NEW h \in 1 .. n
        PROVE  /\ Range(chain[h].burns) \cap Range(xs) = {}
               /\ DOMAIN chain[h].mints \cap ms = {}
    <3>1. Range(chain[h].burns) \subseteq Burnt /\ DOMAIN chain[h].mints \subseteq Claimed
      BY <1>6, Zenon DEF Burnt, Claimed
    <3> QED BY <1>1, <3>1, Zenon
  <2>3. ASSUME NEW h \in DOMAIN chain', NEW k \in DOMAIN chain', h # k
        PROVE  /\ Range(chain'[h].burns) \cap Range(chain'[k].burns) = {}
               /\ DOMAIN chain'[h].mints \cap DOMAIN chain'[k].mints = {}
    <3>1. CASE h \in 1 .. n /\ k \in 1 .. n
      BY <1>6, <1>7, <2>3, <3>1, Zenon DEF ChainOK
    <3>2. CASE h \in 1 .. n /\ k = n + 1
      <4>1. chain'[h] = chain[h] /\ chain'[k].burns = xs /\ DOMAIN chain'[k].mints = ms
        BY <1>5, <1>7, <3>2, Zenon
      <4> QED BY <2>2, <3>2, <4>1, Zenon
    <3>3. CASE k \in 1 .. n /\ h = n + 1
      <4>1. chain'[k] = chain[k] /\ chain'[h].burns = xs /\ DOMAIN chain'[h].mints = ms
        BY <1>5, <1>7, <3>3, Zenon
      <4> QED BY <2>2, <3>3, <4>1, SMTT(30)
    <3> QED BY <1>8, <2>3, <3>1, <3>2, <3>3, Zenon
  <2>4. Len(chain') <= MaxHeight /\ blockHeight' \in 0 .. Len(chain')
    BY <1>1, <1>6, <1>7, <1>9, <1>11, RollupAuthAssumption, SMTT(30)
  <2> QED BY <1>7, <2>1, <2>3, <2>4, Zenon DEF ChainOK
<1>13. RollupTypeOK'
  <2>1. \A h \in DOMAIN chain' : Range(chain'[h].burns) \subseteq Burn
    <3> SUFFICES ASSUME NEW h \in DOMAIN chain' PROVE Range(chain'[h].burns) \subseteq Burn
      BY Zenon
    <3>1. chain'[h] \in Blocks
      BY <1>7
    <3> QED BY <3>1 DEF Blocks, Range
  <2> QED BY <1>10, <2>1, Zenon DEF RollupTypeOK
<1>14. Conservation'
  <2> DEFINE f == [k \in DOMAIN chain |-> BlockValue(chain[k])]
             g == [k \in DOMAIN chain' |-> BlockValue(chain'[k])]
  <2>1. \A k \in 1 .. blockHeight : f[k] = g[k]
    BY <1>6, <1>7, <1>11
  <2>2. IsFiniteSet(1 .. blockHeight)
    BY <1>11, FS_Interval
  <2>3. SumFunctionOnSet(f, 1 .. blockHeight) = SumFunctionOnSet(g, 1 .. blockHeight)
    <3> HIDE DEF f, g
    <3> QED BY <2>1, <2>2, SumSame, Zenon
  <2>4. NoteValue(blockHeight) = OpeningBalance + SumFunctionOnSet(f, 1 .. blockHeight)
    BY Zenon DEF NoteValue
  <2>5. NoteValue(blockHeight)' = OpeningBalance + SumFunctionOnSet(g, 1 .. blockHeight)
    BY <1>9, Zenon DEF NoteValue, BlockValue, BlockMintValue, BlockBurnValue
  <2>6. PendingValue' = PendingValue
    BY <1>10, PendingStays, Zenon
  <2>7. balance + owed = NoteValue(blockHeight) + PendingValue + stuck
    BY ConservationIs, Zenon
  <2>8. (balance + owed)' = NoteValue(blockHeight)' + PendingValue' + stuck'
    BY <1>10, <2>3, <2>4, <2>5, <2>6, <2>7, Zenon
  <2> QED BY <2>8, Zenon DEF Conservation, PendingValue
<1>15. TvlTracksTokens'
  BY <1>9, <1>10, Zenon DEF TvlTracksTokens
<1>16. BurnsInStep'
  <2>1. \A x : (RolledUp(x) <=> RolledUp(x)') /\ Settlements(x)' = Settlements(x)
    BY <1>7, <1>9, <1>10, <1>11, Zenon DEF RolledUp, Settlements
  <2> QED BY <1>10, <2>1, Zenon DEF BurnsInStep
<1>17. BlocksCanBeSettled'
  <2> SUFFICES ASSUME NEW h \in Unsettled', NEW m \in DOMAIN chain'[h].mints,
                      chain'[h].mints[m] > 0
               PROVE  mints[m] = [recorded |-> TRUE, amount |-> chain'[h].mints[m], spent |-> FALSE]
    BY <1>10, Zenon DEF BlocksCanBeSettled
  <2>1. h \in DOMAIN chain' /\ h > blockHeight /\ ~ IsEmpty(chain'[h])
    BY <1>9, SMTT(30) DEF Unsettled, IsEmpty
  <2>2. CASE h \in 1 .. n
    <3>1. chain'[h] = chain[h] /\ h \in Unsettled
      BY <1>6, <1>7, <2>1, <2>2, Zenon DEF Unsettled
    <3> QED BY <3>1, SMTT(30) DEF BlocksCanBeSettled
  <2>3. CASE h = n + 1
    <3>1. m \in ms /\ chain'[h].mints[m] = mints[m].amount
      BY <1>5, <1>7, <2>3, Zenon
    <3>2. mints[m].recorded /\ ~ mints[m].spent
      BY <1>1, <3>1, Zenon
    <3> QED BY <1>2, <3>1, <3>2, Zenon
  <2> QED BY <1>8, <2>1, <2>2, <2>3, SMTT(30)
<1> QED BY <1>12, <1>13, <1>14, <1>15, <1>16, <1>17, Zenon

-----------------------------------------------------------------------------
(* A deposit is recorded.                                                  *)

(* A deposit keeps it (mint, mintClaimed).                                 *)
LEMMA DepositStep ==
  ASSUME MoneyInv, NEW m \in Hash, NEW v \in Amount, MintDeposit(m, v) \/ MintClaimed(m, v)
  PROVE  MoneyInv'
<1> USE DEF MoneyInv
<1>1. /\ mints[m].amount = 0
      /\ currentTvl' = currentTvl + v
      /\ mints' = [mints EXCEPT ![m] = [recorded |-> TRUE, amount |-> v, spent |-> FALSE]]
      /\ \/ balance' = balance + v /\ owed' = owed
         \/ owed' = owed + v /\ balance' = balance
  BY Zenon DEF MintDeposit, MintClaimed, RecordMint
<1>2. UNCHANGED <<chain, blockHeight, version, substitutedBurns, burnSubstitutors, perMintCap,
                  globalTvlCap, burnFee, feeSink, settings, untracked, stuck, paid>>
  BY Zenon DEF MintDeposit, MintClaimed, authVars, configVars
<1>3. /\ v \in Nat /\ currentTvl \in Nat /\ balance \in Nat /\ owed \in Nat /\ stuck \in Nat
      /\ balance' \in Nat /\ owed' \in Nat /\ currentTvl' \in Nat
      /\ balance' + owed' = balance + owed + v
  <2>1. v \in Nat /\ currentTvl \in Nat /\ balance \in Nat /\ owed \in Nat /\ stuck \in Nat
    BY RollupV1Assumption, SMTT(30) DEF RollupTypeOK
  <2> QED BY <1>1, <2>1, SMTT(30)
<1>4. RollupTypeOK'
  <2>1. mints' \in [Hash -> [recorded : BOOLEAN, amount : Nat, spent : BOOLEAN]]
    BY <1>1, <1>3, Zenon DEF RollupTypeOK
  <2> QED BY <1>2, <1>3, <2>1, SMTT(30) DEF RollupTypeOK
<1>5. ChainOK'
  BY <1>2, ChainStays, Zenon
<1>6. Conservation'
  <2>1. PendingValue' = PendingValue + v
    BY <1>1, <1>3, PendingGrows, Zenon
  <2>2. NoteValue(blockHeight)' = NoteValue(blockHeight)
    BY <1>2, NotesStay, Zenon
  <2>3. balance + owed = NoteValue(blockHeight) + PendingValue + stuck
    BY ConservationIs, SMTT(30)
  <2>4. PendingValue \in Int /\ NoteValue(blockHeight) \in Int
    BY PendingFacts, NoteValueType, Zenon DEF ChainOK
  <2>5. balance' + owed' = NoteValue(blockHeight) + (PendingValue + v) + stuck
    <3>1. PICK n \in Int, p \in Int, b \in Nat, o \in Nat, s \in Nat, c \in Nat, q \in Nat :
            /\ n = NoteValue(blockHeight) /\ p = PendingValue
            /\ b = balance /\ o = owed /\ s = stuck /\ c = balance' /\ q = owed'
      BY <1>3, <2>4, Zenon
    <3>2. b + o = n + p + s /\ c + q = b + o + v
      BY <1>3, <2>3, <3>1, Zenon
    <3>3. c + q = n + (p + v) + s
      BY <1>3, <3>2, Deposited
    <3> QED BY <3>1, <3>3, Zenon
  <2>6. (balance + owed)' = NoteValue(blockHeight)' + PendingValue' + stuck'
    BY <1>2, <2>1, <2>2, <2>5, Zenon
  <2> QED BY <2>6, Zenon DEF Conservation, PendingValue
<1>7. TvlTracksTokens'
  BY <1>1, <1>2, <1>3, Zenon DEF TvlTracksTokens
<1>8. BurnsInStep'
  BY <1>2, BurnsStay, Zenon
<1>9. BlocksCanBeSettled'
  <2>1. Unsettled' = Unsettled
    BY <1>2, Zenon DEF Unsettled, IsEmpty
  <2>2. ASSUME NEW h \in Unsettled, NEW k \in DOMAIN chain[h].mints, chain[h].mints[k] > 0
        PROVE  mints'[k] = [recorded |-> TRUE, amount |-> chain[h].mints[k], spent |-> FALSE]
    <3>1. mints[k] = [recorded |-> TRUE, amount |-> chain[h].mints[k], spent |-> FALSE]
      BY <2>2, Zenon DEF BlocksCanBeSettled
    <3>2. k # m
      BY <1>1, <2>2, <3>1
    <3>3. k \in Hash
      <4>1. h \in DOMAIN chain
        BY Zenon DEF Unsettled
      <4> QED BY <4>1, ChainFacts, BlockFacts, Zenon
    <3> QED BY <1>1, <3>1, <3>2, <3>3, Zenon DEF RollupTypeOK
  <2> QED BY <1>2, <2>1, <2>2, Zenon DEF BlocksCanBeSettled
<1> QED BY <1>4, <1>5, <1>6, <1>7, <1>8, <1>9, Zenon

-----------------------------------------------------------------------------
(* The calls that move no deposit.                                         *)

(* A payout of the escrow keeps it.                                        *)
LEMMA EscrowStep ==
  ASSUME MoneyInv, EscrowPays
  PROVE  MoneyInv'
<1> USE DEF MoneyInv
<1>1. balance' = balance + owed /\ owed' = 0
  BY Zenon DEF EscrowPays
<1>2. UNCHANGED <<chain, blockHeight, version, mints, substitutedBurns, currentTvl,
                  burnSubstitutors, perMintCap, globalTvlCap, burnFee, feeSink, settings,
                  untracked, stuck, paid>>
  BY SMTT(30) DEF EscrowPays, authVars, configVars
<1>3. balance \in Nat /\ owed \in Nat
  BY Zenon DEF RollupTypeOK
<1>4. balance' \in Nat /\ owed' \in Nat /\ balance' + owed' = balance + owed
  BY <1>1, <1>3, SMTT(30)
<1>5. RollupTypeOK'
  BY <1>2, <1>4, ZenonT(30) DEF RollupTypeOK
<1>6. ChainOK' /\ BurnsInStep' /\ BlocksCanBeSettled'
  BY <1>2, ChainStays, BurnsStay, SettleStays, Zenon
<1>7. Conservation'
  BY <1>2, <1>4, ConservationStays, Zenon
<1>8. TvlTracksTokens'
  BY <1>2, <1>4, Zenon DEF TvlTracksTokens
<1> QED BY <1>5, <1>6, <1>7, <1>8, Zenon

(* substituteBurn: before the rollup, and for a substitutor.               *)
LEMMA SubstituteStep ==
  ASSUME MoneyInv, NEW s \in Substitutor, NEW x \in Burn, SubstituteBurn(s, x)
  PROVE  MoneyInv'
<1> USE DEF MoneyInv
<1>1. /\ Substitutable(x)
      /\ substitutedBurns' = [substitutedBurns EXCEPT ![x] = s]
      /\ paid' = [paid EXCEPT ![x] = @ \cup {"advance"}]
  BY SMTT(30) DEF SubstituteBurn
<1>2. UNCHANGED <<chain, blockHeight, version, mints, currentTvl, burnSubstitutors, perMintCap,
                  globalTvlCap, burnFee, feeSink, settings, balance, owed, untracked, stuck>>
  BY Zenon DEF SubstituteBurn, authVars, configVars
<1>3. RollupTypeOK'
  <2>1. /\ substitutedBurns' \in [Burn -> Substitutor \cup {Claimant, Nobody}]
        /\ paid' \in [Burn -> SUBSET {"advance", "user", "substitutor", "failed"}]
    BY <1>1, Zenon DEF RollupTypeOK
  <2> QED BY <1>2, <2>1, Zenon DEF RollupTypeOK
<1>4. ChainOK' /\ BlocksCanBeSettled'
  BY <1>2, ChainStays, SettleStays, Zenon
<1>5. Conservation'
  <2>1. balance' + owed' = balance + owed
    BY <1>2, Zenon
  <2> QED BY <1>2, <2>1, ConservationStays, Zenon
<1>6. TvlTracksTokens'
  BY <1>2, Zenon DEF TvlTracksTokens
<1>7. BurnsInStep'
  <2>1. \A y : RolledUp(y) <=> RolledUp(y)'
    BY <1>2, Zenon DEF RolledUp
  <2>2. ~ RolledUp(x)
    <3> SUFFICES ASSUME NEW h \in 1 .. blockHeight, x \in Range(chain[h].burns) PROVE FALSE
      BY Zenon DEF RolledUp
    <3>1. h \in DOMAIN chain /\ h <= blockHeight
      BY ChainFacts
    <3>2. BlockOf(x) \in DOMAIN chain /\ x \in Range(chain[BlockOf(x)].burns)
      BY <3>1, Zenon DEF BlockOf
    <3>3. BlockOf(x) = h
      BY <3>1, <3>2, Zenon DEF ChainOK
    <3> QED BY <1>1, <3>1, <3>3, ChainFacts DEF Substitutable
  <2>3. Settlements(x) = {} /\ Settlements(x)' = Settlements(x)
    <3>1. Settlements(x) = {}
      BY <2>2, Zenon DEF BurnsInStep
    <3> QED BY <1>1, <3>1, Zenon DEF Settlements, RollupTypeOK
  <2>4. s # Nobody
    BY RollupV1Assumption, SMTT(30)
  <2>5. ASSUME NEW y \in Burn
        PROVE  /\ "advance" \in paid'[y] => substitutedBurns'[y] # Nobody
               /\ ~ ({"advance", "user"} \subseteq paid'[y])
               /\ IF RolledUp(y) THEN \E z : Settlements(y)' = {z} ELSE Settlements(y)' = {}
    <3>1. CASE y = x
      <4>1. paid'[x] = paid[x] \cup {"advance"} /\ substitutedBurns'[x] = s
        BY <1>1, SMTT(30) DEF RollupTypeOK
      <4>2. "user" \notin paid[x]
        BY <2>3, Zenon DEF Settlements
      <4> QED BY <2>2, <2>3, <2>4, <3>1, <4>1, <4>2, SMTT(30)
    <3>2. CASE y # x
      <4>1. paid'[y] = paid[y] /\ substitutedBurns'[y] = substitutedBurns[y]
        BY <1>1, <3>2, Zenon DEF RollupTypeOK
      <4>2. Settlements(y)' = Settlements(y)
        BY <4>1, Zenon DEF Settlements
      <4> QED BY <4>1, <4>2, Zenon DEF BurnsInStep
    <3> QED BY <3>1, <3>2, Zenon
  <2> QED BY <2>1, <2>5, Zenon DEF BurnsInStep
<1> QED BY <1>3, <1>4, <1>5, <1>6, <1>7, Zenon

(* burnClaimed.                                                            *)
LEMMA BurnClaimedStep ==
  ASSUME MoneyInv, NEW x \in Burn, BurnClaimed(x)
  PROVE  MoneyInv'
<1> USE DEF MoneyInv
<1>1. substitutedBurns' = [substitutedBurns EXCEPT ![x] = Claimant]
  BY SMTT(30) DEF BurnClaimed
<1>2. UNCHANGED <<chain, blockHeight, version, mints, currentTvl, burnSubstitutors, perMintCap,
                  globalTvlCap, burnFee, feeSink, settings, balance, owed, untracked, stuck, paid>>
  BY Zenon DEF BurnClaimed, authVars, configVars, tokenVars
<1>3. RollupTypeOK'
  <2>1. substitutedBurns' \in [Burn -> Substitutor \cup {Claimant, Nobody}]
    BY <1>1, Zenon DEF RollupTypeOK
  <2> QED BY <1>2, <2>1, Zenon DEF RollupTypeOK
<1>4. ChainOK' /\ BlocksCanBeSettled'
  BY <1>2, ChainStays, SettleStays, Zenon
<1>5. Conservation'
  <2>1. balance' + owed' = balance + owed
    BY <1>2, Zenon
  <2> QED BY <1>2, <2>1, ConservationStays, Zenon
<1>6. TvlTracksTokens'
  BY <1>2, SMTT(30) DEF TvlTracksTokens
<1>7. BurnsInStep'
  <2>1. \A y \in Burn : substitutedBurns[y] # Nobody => substitutedBurns'[y] # Nobody
    BY <1>1, RollupV1Assumption, Zenon DEF RollupTypeOK
  <2> QED BY <1>2, <2>1, BurnsStay, SMTT(30)
<1> QED BY <1>3, <1>4, <1>5, <1>6, <1>7, Zenon

-----------------------------------------------------------------------------
(* verifyRollup.                                                           *)

(* verifyRollup keeps it, whoever calls it and whichever transfers fail.   *)
LEMMA RollUpStep ==
  ASSUME MoneyInv, NEW a, RollUp(a)
  PROVE  MoneyInv'
<1> USE DEF MoneyInv
<1>1. PICK h \in Unsettled :
        /\ \A k \in Unsettled : h <= k
        /\ Accept(a, h)
        /\ VerifyMints(chain[h].mints)
        /\ \E oks, feeOks \in SUBSET Range(chain[h].burns) :
             LET start == [balance |-> balance, tvl |-> currentTvl, stuck |-> stuck, paid |-> paid]
                 end == VerifyBurns(start, chain[h].burns, oks, feeOks)
             IN /\ balance' = end.balance
                /\ currentTvl' = end.tvl
                /\ stuck' = end.stuck
                /\ paid' = end.paid
  BY Zenon DEF RollUp
<1> DEFINE b == chain[h]
           xs == b.burns
           start == [balance |-> balance, tvl |-> currentTvl, stuck |-> stuck, paid |-> paid]
<1>2. PICK oks, feeOks \in SUBSET Range(xs) :
        /\ balance' = VerifyBurns(start, xs, oks, feeOks).balance
        /\ currentTvl' = VerifyBurns(start, xs, oks, feeOks).tvl
        /\ stuck' = VerifyBurns(start, xs, oks, feeOks).stuck
        /\ paid' = VerifyBurns(start, xs, oks, feeOks).paid
  BY <1>1, Zenon
<1> DEFINE end == VerifyBurns(start, xs, oks, feeOks)
<1>3. UNCHANGED <<chain, substitutedBurns, burnSubstitutors, perMintCap, globalTvlCap, burnFee,
                  feeSink, settings, owed, untracked>>
  BY Zenon DEF RollUp, configVars
<1>4. blockHeight' = h /\ version' = version /\ h > blockHeight
  BY <1>1, Zenon DEF Accept, VerifyRollup
<1>5. /\ h \in DOMAIN chain /\ h \in Nat /\ blockHeight \in Nat /\ b \in Blocks
      /\ h \in 0 .. Len(chain) /\ 1 .. h \subseteq DOMAIN chain
  BY ChainFacts, SMTT(30) DEF Unsettled
<1>6. \A k \in (blockHeight + 1) .. (h - 1) : k \in DOMAIN chain /\ IsEmpty(chain[k])
  <2> SUFFICES ASSUME NEW k \in (blockHeight + 1) .. (h - 1)
               PROVE  k \in DOMAIN chain /\ IsEmpty(chain[k])
    BY Zenon
  <2>1. k \in DOMAIN chain /\ k > blockHeight /\ ~ (h <= k)
    BY <1>5, ChainFacts
  <2> QED BY <1>1, <2>1, Zenon DEF Unsettled
<1>7. /\ xs \in Seq(Burn) /\ IsInjective(xs)
      /\ BlockMintValue(b) \in Int /\ BlockBurnValue(b) \in Int
      /\ BlockValue(b) = BlockMintValue(b) - BlockBurnValue(b)
      /\ BlockBurnValue(b) = SumFunction([i \in DOMAIN xs |-> BurnAmount[xs[i]]])
  <2>1. xs \in Seq(Burn) /\ BlockMintValue(b) \in Int /\ BlockBurnValue(b) \in Int
    <3> HIDE DEF b
    <3> QED BY <1>5, BlockFacts, Zenon DEF b
  <2>2. IsInjective(xs)
    BY <1>5, SMTT(30) DEF ChainOK
  <2> QED BY <2>1, <2>2, Zenon DEF BlockValue, BlockBurnValue
<1>8. /\ start \in Books /\ burnFee \in Nat /\ owed \in Nat /\ balance \in Nat /\ stuck \in Nat
      /\ currentTvl \in Nat
      /\ start.balance = balance /\ start.tvl = currentTvl /\ start.stuck = stuck /\ start.paid = paid
  BY Zenon DEF RollupTypeOK, Books
<1> HIDE DEF b, start
<1>9. /\ end \in Books
      /\ end.balance - end.stuck = (start.balance - start.stuck) - BlockBurnValue(b)
      /\ start.tvl = start.balance + owed => end.tvl = end.balance + owed
      /\ \A x \in Burn : x \notin Range(xs) => end.paid[x] = start.paid[x]
      /\ \A x \in Range(xs) : \E y \in {"user", "substitutor", "failed"} :
           /\ end.paid[x] = start.paid[x] \cup {y}
           /\ y = "user" => substitutedBurns[x] = Nobody
  <2>1. xs \in Seq(Burn) /\ IsInjective(xs) /\ start \in Books /\ burnFee \in Nat /\ owed \in Nat
    BY <1>7, <1>8, Zenon
  <2>2. SettlesBurns(start, xs, owed, end)
    <3>1. end = VerifyBurns(start, xs, oks, feeOks)
      BY Zenon
    <3> HIDE DEF xs, end
    <3> QED BY <2>1, <3>1, AllBurns, Zenon
  <2> QED BY <1>7, <2>2, Zenon DEF SettlesBurns
<1>10. balance' = end.balance /\ currentTvl' = end.tvl /\ stuck' = end.stuck /\ paid' = end.paid
  BY <1>2, Zenon
<1> HIDE DEF end
<1>11. /\ balance' \in Nat /\ currentTvl' \in Nat /\ stuck' \in Nat
       /\ paid' \in [Burn -> SUBSET {"advance", "user", "substitutor", "failed"}]
  BY <1>9, <1>10, SMTT(30) DEF Books
<1>12. VerifyMints(b.mints)
  BY <1>1, SMTT(30) DEF b
<1>13. /\ mints' \in [Hash -> [recorded : BOOLEAN, amount : Nat, spent : BOOLEAN]]
       /\ \A m \in Hash : m \notin DOMAIN b.mints => mints'[m] = mints[m]
       /\ PendingValue' \in Int
       /\ PendingValue = PendingValue' + BlockMintValue(b)
  BY <1>5, <1>12, PendingClaimed, Zenon
<1>14. RollupTypeOK'
  BY <1>3, <1>11, <1>13, ZenonT(30) DEF RollupTypeOK
<1>15. ChainOK'
  BY <1>3, <1>4, <1>5, Zenon DEF ChainOK
<1>16. Conservation'
  <2>1. NoteValue(h) = NoteValue(blockHeight) + BlockValue(b)
    BY <1>4, <1>5, <1>6, NoteValueSkips, SMTT(30) DEF b
  <2>2. NoteValue(blockHeight)' = NoteValue(h)
    BY <1>3, <1>4, Zenon DEF NoteValue, BlockValue, BlockMintValue, BlockBurnValue
  <2>3. balance + owed = NoteValue(blockHeight) + PendingValue + stuck
    BY ConservationIs, Zenon
  <2>4. PendingValue \in Int /\ PendingValue' \in Int /\ NoteValue(blockHeight) \in Int
    <3>1. PendingValue \in Int /\ NoteValue(blockHeight) \in Int
      BY PendingFacts, NoteValueType, Zenon DEF ChainOK
    <3> QED BY <1>13, <3>1, SMTT(30)
  <2>5. balance' - stuck' = (balance - stuck) - BlockBurnValue(b)
    BY <1>8, <1>9, <1>10, Zenon
  <2>6. balance' + owed = (NoteValue(blockHeight) + BlockValue(b)) + PendingValue' + stuck'
    <3>1. BlockValue(b) = BlockMintValue(b) - BlockBurnValue(b)
      BY <1>7, Zenon
    <3>2. PendingValue = PendingValue' + BlockMintValue(b)
      BY <1>13, SMTT(30)
    <3>3. /\ BlockMintValue(b) \in Int /\ BlockBurnValue(b) \in Int /\ balance \in Nat
          /\ owed \in Nat /\ stuck \in Nat /\ balance' \in Nat /\ stuck' \in Nat
      BY <1>7, <1>8, <1>11, Zenon
    <3>4. PICK n \in Int, p \in Int, q \in Int, m \in Int, x \in Int, c \in Nat, o \in Nat,
               s \in Nat, d \in Nat, t \in Nat :
            /\ n = NoteValue(blockHeight) /\ p = PendingValue /\ q = PendingValue'
            /\ m = BlockMintValue(b) /\ x = BlockBurnValue(b)
            /\ c = balance /\ o = owed /\ s = stuck /\ d = balance' /\ t = stuck'
      BY <2>4, <3>3, SMTT(30)
    <3>5. c + o = n + p + s /\ d - t = (c - s) - x /\ p = q + m
      BY <2>3, <2>5, <3>2, <3>4, Zenon
    <3>6. d + o = (n + (m - x)) + q + t
      BY <3>5, Settled
    <3> QED BY <3>1, <3>4, <3>6, SMTT(30)
  <2>7. (balance + owed)' = NoteValue(blockHeight)' + PendingValue' + stuck'
    BY <1>3, <2>1, <2>2, <2>6, SMTT(30)
  <2> QED BY <2>7, Zenon DEF Conservation, PendingValue
<1>17. TvlTracksTokens'
  BY <1>3, <1>4, <1>8, <1>9, <1>10, Zenon DEF TvlTracksTokens
<1>18. BurnsInStep'
  <2>1. ASSUME NEW x \in Burn
        PROVE  /\ "advance" \in paid'[x] => substitutedBurns'[x] # Nobody
               /\ ~ ({"advance", "user"} \subseteq paid'[x])
               /\ IF RolledUp(x)' THEN \E y : Settlements(x)' = {y} ELSE Settlements(x)' = {}
    <3>1. RolledUp(x)' <=> RolledUp(x) \/ x \in Range(xs)
      <4>1. RolledUp(x)' <=> \E k \in 1 .. h : x \in Range(chain[k].burns)
        BY <1>3, <1>4, Zenon DEF RolledUp
      <4>2. ASSUME NEW k \in 1 .. h, x \in Range(chain[k].burns)
            PROVE  k \in 1 .. blockHeight \/ k = h
        <5>1. CASE k \in (blockHeight + 1) .. (h - 1)
          <6>1. chain[k].burns = <<>>
            BY <1>6, <5>1, Zenon DEF IsEmpty
          <6> QED BY <4>2, <6>1, SMTT(30) DEF Range
        <5> QED BY <1>4, <1>5, <5>1, SMTT(30)
      <4>3. 1 .. blockHeight \subseteq 1 .. h /\ h \in 1 .. h
        BY <1>4, <1>5
      <4> QED BY <4>1, <4>2, <4>3, Zenon DEF RolledUp, b
    <3>2. CASE x \in Range(xs)
      <4>1. ~ RolledUp(x)
        <5> SUFFICES ASSUME NEW k \in 1 .. blockHeight, x \in Range(chain[k].burns) PROVE FALSE
          BY Zenon DEF RolledUp
        <5>1. k \in DOMAIN chain /\ k # h
          BY <1>4, <1>5, ChainFacts, SMTT(30)
        <5>2. Range(chain[k].burns) \cap Range(chain[h].burns) = {}
          BY <1>5, <5>1, Zenon DEF ChainOK
        <5> QED BY <3>2, <5>2, Zenon DEF b
      <4>2. Settlements(x) = {}
        BY <4>1, Zenon DEF BurnsInStep
      <4>3. PICK y \in {"user", "substitutor", "failed"} :
              /\ paid'[x] = paid[x] \cup {y}
              /\ y = "user" => substitutedBurns[x] = Nobody
        BY <1>8, <1>9, <1>10, <3>2, SMTT(30)
      <4>4. Settlements(x)' = {y}
        BY <4>2, <4>3, Zenon DEF Settlements
      <4>5. "advance" \in paid'[x] => "advance" \in paid[x]
        BY <4>3, Zenon
      <4>6. "user" \in paid'[x] => y = "user"
        BY <4>2, <4>3, SMTT(30) DEF Settlements
      <4>7. "advance" \in paid[x] => substitutedBurns[x] # Nobody
        BY Zenon DEF BurnsInStep
      <4> QED BY <1>3, <3>1, <3>2, <4>3, <4>4, <4>5, <4>6, <4>7, Zenon
    <3>3. CASE x \notin Range(xs)
      <4>1. paid'[x] = paid[x] /\ substitutedBurns'[x] = substitutedBurns[x]
        BY <1>3, <1>8, <1>9, <1>10, <3>3, Zenon
      <4>2. Settlements(x)' = Settlements(x)
        BY <4>1, Zenon DEF Settlements
      <4> QED BY <3>1, <3>3, <4>1, <4>2, Zenon DEF BurnsInStep
    <3> QED BY <3>2, <3>3, Zenon
  <2> QED BY <2>1, Zenon DEF BurnsInStep
<1>19. BlocksCanBeSettled'
  <2> SUFFICES ASSUME NEW k \in Unsettled', NEW m \in DOMAIN chain'[k].mints, chain'[k].mints[m] > 0
               PROVE  mints'[m] = [recorded |-> TRUE, amount |-> chain'[k].mints[m], spent |-> FALSE]
    BY Zenon DEF BlocksCanBeSettled
  <2>1. k \in Unsettled /\ k \in DOMAIN chain /\ k # h
    BY <1>3, <1>4, <1>5, ChainFacts DEF Unsettled, IsEmpty
  <2>2. mints[m] = [recorded |-> TRUE, amount |-> chain[k].mints[m], spent |-> FALSE]
    BY <1>3, <2>1, Zenon DEF BlocksCanBeSettled
  <2>3. m \in Hash /\ m \notin DOMAIN b.mints
    <3>1. DOMAIN chain[k].mints \cap DOMAIN chain[h].mints = {}
      BY <1>5, <2>1, Zenon DEF ChainOK
    <3>2. DOMAIN chain[k].mints \subseteq Hash
      BY <2>1, ChainFacts, BlockFacts, Zenon
    <3> QED BY <1>3, <3>1, <3>2, Zenon DEF b
  <2> QED BY <1>3, <1>13, <2>2, <2>3, Zenon
<1> QED BY <1>14, <1>15, <1>16, <1>17, <1>18, <1>19, Zenon

-----------------------------------------------------------------------------
(* initializeV2, the setters, and the calls of RollupAuth.                 *)

(* The upgrade keeps it, and sets the total it counts from (initializeV2). *)
LEMMA InitializeStep ==
  ASSUME MoneyInv, NEW per \in Cap, NEW global \in Cap, NEW fee \in 0 .. MaxBurnFee,
         InitializeRollupV2(per, global, fee)
  PROVE  MoneyInv'
<1> USE DEF MoneyInv
<1>1. UNCHANGED <<blockHeight, chain, mints, substitutedBurns, burnSubstitutors, settings, balance,
                  owed, stuck, paid>>
  BY SMTT(30) DEF InitializeRollupV2, InitializeV2
<1>2. /\ perMintCap' = per /\ globalTvlCap' = global /\ burnFee' = fee /\ feeSink' = TRUE
      /\ currentTvl' = balance /\ untracked' = (owed > 0)
  BY Zenon DEF InitializeRollupV2
<1>3. balance \in Nat /\ owed \in Nat /\ per \in Nat /\ global \in Nat /\ fee \in Nat
  <2>1. balance \in Nat /\ owed \in Nat
    BY Zenon DEF RollupTypeOK
  <2>2. Cap \subseteq Nat /\ MaxBurnFee \in Nat
    BY RollupV1Assumption, Zenon
  <2> QED BY <2>1, <2>2
<1>4. RollupTypeOK'
  <2>1. untracked' \in BOOLEAN
    <3>1. CASE owed > 0
      BY <1>2, <3>1, Zenon
    <3>2. CASE ~ (owed > 0)
      <4>1. (owed > 0) = FALSE
        BY <1>3, <3>2
      <4> QED BY <1>2, <4>1, Zenon
    <3> QED BY <3>1, <3>2, Zenon
  <2>2. /\ feeSink' \in BOOLEAN
        /\ {perMintCap', globalTvlCap', currentTvl', burnFee'} \subseteq Nat
    BY <1>2, <1>3, SMTT(30)
  <2> QED BY <1>1, <2>1, <2>2, Zenon DEF RollupTypeOK
<1>5. ChainOK' /\ BurnsInStep' /\ BlocksCanBeSettled'
  BY <1>1, ChainStays, BurnsStay, SettleStays, Zenon
<1>6. Conservation'
  <2>1. balance' + owed' = balance + owed
    BY <1>1, Zenon
  <2> QED BY <1>1, <2>1, ConservationStays, Zenon
<1>7. TvlTracksTokens'
  <2>1. ~ untracked' => owed = 0
    <3>1. ~ untracked' => ~ (owed > 0)
      BY <1>2, Zenon
    <3> QED BY <1>3, <3>1
  <2>2. owed = 0 => currentTvl' = balance + owed
    BY <1>2, <1>3
  <2> QED BY <1>1, <2>1, <2>2, Zenon DEF TvlTracksTokens
<1> QED BY <1>4, <1>5, <1>6, <1>7, SMTT(30)

(* New caps, fees and sinks keep it.                                       *)
LEMMA ConfigureStep ==
  ASSUME MoneyInv, Configure
  PROVE  MoneyInv'
<1> USE DEF MoneyInv
<1>1. UNCHANGED <<blockHeight, version, chain, mints, substitutedBurns, currentTvl, balance, owed,
                  untracked, stuck, paid>>
  BY Zenon DEF Configure, authVars, tokenVars
<1>2. /\ burnSubstitutors' \subseteq Substitutor /\ feeSink' \in BOOLEAN
      /\ {perMintCap', globalTvlCap', burnFee', settings'} \subseteq Nat
  <2>1. /\ settings' = settings + 1 /\ settings \in Nat
        /\ SetPerMintCap \/ SetGlobalTvlCap \/ SetBurnFee \/ SetFeeSink
           \/ AddBurnSubstitutor \/ RemoveBurnSubstitutor
    BY Zenon DEF Configure, RollupTypeOK
  <2>2. settings' \in Nat
    BY <2>1
  <2>3. burnSubstitutors' \subseteq Substitutor /\ feeSink' \in BOOLEAN
    BY <2>1, Zenon
    DEF RollupTypeOK, SetPerMintCap, SetGlobalTvlCap, SetBurnFee, SetFeeSink, AddBurnSubstitutor,
        RemoveBurnSubstitutor
  <2>4. /\ perMintCap' \in Cap \cup {perMintCap}
        /\ globalTvlCap' \in Cap \cup {globalTvlCap}
        /\ burnFee' \in 0 .. MaxBurnFee \cup {burnFee}
    BY <2>1, Zenon
    DEF SetPerMintCap, SetGlobalTvlCap, SetBurnFee, SetFeeSink, AddBurnSubstitutor,
        RemoveBurnSubstitutor
  <2>5. Cap \subseteq Nat /\ perMintCap \in Nat /\ globalTvlCap \in Nat /\ burnFee \in Nat
    BY RollupV1Assumption, Zenon DEF RollupTypeOK
  <2> QED BY <2>2, <2>3, <2>4, <2>5, SMTT(30)
<1>3. RollupTypeOK'
  BY <1>1, <1>2, Zenon DEF RollupTypeOK
<1>4. ChainOK' /\ BurnsInStep' /\ BlocksCanBeSettled'
  BY <1>1, ChainStays, BurnsStay, SettleStays, Zenon
<1>5. Conservation'
  <2>1. balance' + owed' = balance + owed
    BY <1>1, Zenon
  <2> QED BY <1>1, <2>1, ConservationStays, Zenon
<1>6. TvlTracksTokens'
  BY <1>1, Zenon DEF TvlTracksTokens
<1> QED BY <1>3, <1>4, <1>5, <1>6, Zenon

(* Calls that touch neither money nor height keep it.                      *)
LEMMA OtherStep ==
  ASSUME MoneyInv, UNCHANGED moneyVars, UNCHANGED <<blockHeight, version>>
  PROVE  MoneyInv'
<1> USE DEF MoneyInv
<1>1. UNCHANGED <<chain, mints, substitutedBurns, currentTvl, burnSubstitutors, perMintCap,
                  globalTvlCap, burnFee, feeSink, settings, balance, owed, untracked, stuck, paid>>
  BY Zenon DEF moneyVars, configVars, tokenVars
<1>2. RollupTypeOK'
  BY <1>1, Zenon DEF RollupTypeOK
<1>3. ChainOK' /\ BurnsInStep' /\ BlocksCanBeSettled'
  BY <1>1, ChainStays, BurnsStay, SettleStays, Zenon
<1>4. Conservation'
  <2>1. balance' + owed' = balance + owed
    BY <1>1, Zenon
  <2> QED BY <1>1, <2>1, ConservationStays, Zenon
<1>5. TvlTracksTokens'
  BY <1>1, Zenon DEF TvlTracksTokens
<1> QED BY <1>2, <1>3, <1>4, <1>5, Zenon

(* Every call of the contract keeps it.                                    *)
LEMMA MoneyStepInv == MoneyInv /\ [RollupNext]_rollupVars => MoneyInv'
<1> SUFFICES ASSUME MoneyInv, [RollupNext]_rollupVars PROVE MoneyInv'
  BY Zenon
<1>1. CASE \E ms \in SUBSET Hash, xs \in Burns : CommitBlock(ms, xs)
  BY <1>1, CommitStep, Zenon
<1>2. CASE \E m \in Hash, v \in Amount : MintDeposit(m, v) \/ MintClaimed(m, v)
  BY <1>2, DepositStep, Zenon
<1>3. CASE EscrowPays
  BY <1>3, EscrowStep, Zenon
<1>4. CASE \E s \in Substitutor, x \in Burn : SubstituteBurn(s, x)
  BY <1>4, SubstituteStep, Zenon
<1>5. CASE \E x \in Burn : BurnClaimed(x)
  BY <1>5, BurnClaimedStep, Zenon
<1>6. CASE \E a \in Account : RollUp(a)
  BY <1>6, RollUpStep, Zenon
<1>7. CASE \E per, global \in Cap, fee \in 0 .. MaxBurnFee : InitializeRollupV2(per, global, fee)
  BY <1>7, InitializeStep, Zenon
<1>8. CASE Configure
  BY <1>8, ConfigureStep, Zenon
<1>9. CASE OwnerOrTime /\ UNCHANGED moneyVars
  <2>1. UNCHANGED <<blockHeight, version>>
    BY <1>9, Zenon DEF OwnerOrTime, SetOpenProvingDelay, AddProver, RemoveProver, SetValidators, TimePasses
  <2> QED BY <1>9, <2>1, OtherStep, Zenon
<1>10. CASE UNCHANGED rollupVars
  <2>1. UNCHANGED moneyVars /\ UNCHANGED <<blockHeight, version>>
    BY <1>10, Zenon DEF rollupVars, authVars
  <2> QED BY <2>1, OtherStep, Zenon
<1> QED BY <1>1, <1>2, <1>3, <1>4, <1>5, <1>6, <1>7, <1>8, <1>9, <1>10, Zenon DEF RollupNext

(* So it holds in every reachable state.                                   *)
LEMMA MoneyInvariant == RollupSpec => []MoneyInv
BY MoneyInitInv, MoneyStepInv, PTL DEF RollupSpec

-----------------------------------------------------------------------------

(* Whatever deposits, substitutions, claims, blocks and settings come, and *)
(* whichever transfers of verifyBurn fail, the contract's tokens and the   *)
(* tokens owed to it are the notes, the waiting deposits and what is stuck,*)
(* and currentTvl counts them (mint, verifyMint, verifyBurn, initializeV2).*)
THEOREM TokensStayAccounted == RollupSpec => []TokensAccounted
<1>1. MoneyInv => TokensAccounted
  BY Zenon DEF MoneyInv, TokensAccounted
<1> QED BY <1>1, MoneyInvariant, PTL

(* verifyRollup never finds a mint of a committed block changed: no call   *)
(* of mint or mintClaimed, and no earlier rollup, touches it.              *)
THEOREM CommittedBlocksSettle == RollupSpec => []BlocksCanBeSettled
<1>1. MoneyInv => BlocksCanBeSettled
  BY Zenon DEF MoneyInv
<1> QED BY <1>1, MoneyInvariant, PTL

(* The user of a burn is paid by substituteBurn or by verifyBurn, never by *)
(* both, and verifyBurn settles each burn exactly once.                    *)
THEOREM BurnsArePaidOnce == RollupSpec => []BurnPaidOnce
<1>1. MoneyInv => BurnPaidOnce
  <2> SUFFICES ASSUME MoneyInv, NEW x \in Burn
               PROVE  /\ ~ ({"advance", "user"} \subseteq paid[x])
                      /\ Cardinality(Settlements(x)) =
                           IF x \in Burnt /\ BlockOf(x) <= blockHeight THEN 1 ELSE 0
    BY Zenon DEF BurnPaidOnce
  <2>1. RolledUp(x) <=> x \in Burnt /\ BlockOf(x) <= blockHeight
    <3>1. ASSUME NEW h \in DOMAIN chain, x \in Range(chain[h].burns)
          PROVE  BlockOf(x) = h
      <4>1. BlockOf(x) \in DOMAIN chain /\ x \in Range(chain[BlockOf(x)].burns)
        BY <3>1, Zenon DEF BlockOf
      <4> QED BY <3>1, <4>1, Zenon DEF MoneyInv, ChainOK
    <3>2. DOMAIN chain = 1 .. Len(chain) /\ Len(chain) \in Nat /\ blockHeight \in Nat
          /\ 1 .. blockHeight \subseteq DOMAIN chain
      BY ChainFacts, Zenon DEF MoneyInv
    <3>3. ASSUME RolledUp(x) PROVE x \in Burnt /\ BlockOf(x) <= blockHeight
      <4>1. PICK h \in 1 .. blockHeight : x \in Range(chain[h].burns)
        BY <3>3, Zenon DEF RolledUp
      <4>2. h \in DOMAIN chain /\ BlockOf(x) = h
        BY <3>1, <3>2, <4>1, Zenon
      <4> QED BY <3>2, <4>1, <4>2 DEF Burnt
    <3>4. ASSUME x \in Burnt, BlockOf(x) <= blockHeight PROVE RolledUp(x)
      <4>1. PICK h \in DOMAIN chain : x \in Range(chain[h].burns)
        BY <3>4, Zenon DEF Burnt
      <4>2. h \in 1 .. blockHeight
        BY <3>1, <3>2, <3>4, <4>1, SMTT(30)
      <4> QED BY <4>1, <4>2, Zenon DEF RolledUp
    <3> QED BY <3>3, <3>4, Zenon
  <2>2. /\ ~ ({"advance", "user"} \subseteq paid[x])
        /\ IF RolledUp(x) THEN \E y : Settlements(x) = {y} ELSE Settlements(x) = {}
    BY Zenon DEF MoneyInv, BurnsInStep
  <2>3. \A y : Cardinality({y}) = 1
    BY FS_Singleton, Zenon
  <2>4. Cardinality({}) = 0
    BY FS_EmptySet, Zenon
  <2> QED BY <2>1, <2>2, <2>3, <2>4, Zenon
<1> QED BY <1>1, MoneyInvariant, PTL

(* With its mints, burns and payouts the contract still is RollupAuth:     *)
(* only verifyRollup of a prover, or of anyone after the silence, moves    *)
(* the height, and only with the signatures of the validators in force.    *)
THEOREM MoneyImplementsAuth == RollupSpec => MoneyKeepsAuth
<1>1. RollupInit => AuthInit
  BY Zenon DEF RollupInit
<1>2. MoneyInv /\ [RollupNext]_rollupVars => [AuthNext]_authVars
  <2> SUFFICES ASSUME MoneyInv, [RollupNext]_rollupVars PROVE AuthNext \/ UNCHANGED authVars
    BY SMTT(30)
  <2>1. CASE \E ms \in SUBSET Hash, xs \in Burns : CommitBlock(ms, xs)
    BY <2>1, Zenon DEF CommitBlock
  <2>2. CASE \E m \in Hash, v \in Amount : MintDeposit(m, v) \/ MintClaimed(m, v)
    BY <2>2, Zenon DEF MintDeposit, MintClaimed
  <2>3. CASE EscrowPays
    BY <2>3, Zenon DEF EscrowPays
  <2>4. CASE \E s \in Substitutor, x \in Burn : SubstituteBurn(s, x)
    BY <2>4, Zenon DEF SubstituteBurn
  <2>5. CASE \E x \in Burn : BurnClaimed(x)
    BY <2>5, Zenon DEF BurnClaimed
  <2>6. CASE \E a \in Account : RollUp(a)
    <3>1. PICK a \in Account : RollUp(a)
      BY <2>6, SMTT(30)
    <3>2. PICK h \in Unsettled : VerifyRollup(a, h)
      BY <3>1, Zenon DEF RollUp, Accept
    <3>3. h \in 1 .. MaxHeight
      <4>1. ChainOK /\ h \in DOMAIN chain
        BY Zenon DEF MoneyInv, Unsettled
      <4>2. h \in 1 .. Len(chain) /\ Len(chain) \in Nat /\ Len(chain) <= MaxHeight
        BY <4>1, ChainFacts, Zenon DEF ChainOK
      <4> QED BY <4>2, RollupAuthAssumption
    <3> QED BY <3>2, <3>3, Zenon DEF AuthNext
  <2>7. CASE \E per, global \in Cap, fee \in 0 .. MaxBurnFee : InitializeRollupV2(per, global, fee)
    BY <2>7, Zenon DEF InitializeRollupV2, AuthNext
  <2>8. CASE Configure
    BY <2>8, Zenon DEF Configure
  <2>9. CASE OwnerOrTime /\ UNCHANGED moneyVars
    BY <2>9, Zenon DEF AuthNext
  <2>10. CASE UNCHANGED rollupVars
    BY <2>10, Zenon DEF rollupVars
  <2> QED BY <2>1, <2>2, <2>3, <2>4, <2>5, <2>6, <2>7, <2>8, <2>9, <2>10, Zenon DEF RollupNext
<1> QED BY <1>1, <1>2, MoneyInvariant, PTL DEF RollupSpec, MoneyKeepsAuth
===============================================================================
