-------------------------- MODULE BurnSubstitutor ---------------------------
(***************************************************************************)
(* The burn substitutor (pkg/burn-substitutor): it reads the transactions    *)
(* that are not rolled up yet and pays the recipients of burns in advance,   *)
(* to be repaid by the rollup; for burns of the kind NoSubstitution it       *)
(* commits the Lightning swap of the off-ramp service they belong to.  Its   *)
(* cursor is only in memory: any error ends the process, and the next one    *)
(* starts from the last block rolled up.                                     *)
(*                                                                           *)
(* The rollup contract, the token and the escrow are what their calls do;    *)
(* swaps are all for the same amount, that of every NoSubstitution burn.     *)
(***************************************************************************)
EXTENDS EthClient

CONSTANTS
  Value,         \* values of burns
  Funds,         \* the substitutor's tokens at the start
  Swap,          \* swaps of the off-ramp service
  FetchLimit,    \* limit of the node's /transactions: 10 in the code
  BurnBlockSize, \* bound: transactions in a block
  MaxBurnBlocks, \* bound: blocks
  MaxRuns,       \* bound: processes
  Nil

VARIABLES
  ledger,        \* the node's transactions, oldest first
  rolled,        \* blockHeight of the rollup contract
  substituted,   \* transactions (by position) in substitutedBurns
  balance,       \* ERC20 balance of the substitutor
  allowance,     \* whether the contract may spend all of it
  swaps,         \* what the off-ramp service says of each swap
  escrows,       \* swaps committed on the chain
  stage,         \* where the process is
  txnCursor,     \* position of the last transaction read; Nil at the start
  page,          \* positions still to handle
  pageEnd,       \* position the cursor is set to after the page
  tx,            \* the transaction waited for
  swap,          \* the swap matched
  runs,          \* processes started
  skipped,       \* history: burns of which this process, or a transaction of
                 \* the substitutor that reverted, found the balance too small
  unmatched      \* history: NoSubstitution burns it found no swap for

contractVars == <<rolled, substituted, balance, allowance>>
swapVars == <<swaps, escrows>>
procVars == <<txnCursor, page, pageEnd, tx, swap>>
subVars == <<ethVars, contractVars, swapVars, ledger, stage, procVars, runs, skipped, unmatched>>

SubInit ==
  /\ EthInit
  /\ ledger = <<>>
  /\ rolled = 0
  /\ substituted = {}
  /\ balance = Funds
  /\ allowance = FALSE
  /\ swaps = [s \in Swap |-> "none"]
  /\ escrows = {}
  /\ stage = "down"
  /\ txnCursor = Nil /\ page = <<>> /\ pageEnd = Nil /\ tx = Nil /\ swap = Nil
  /\ runs = 0
  /\ skipped = {}
  /\ unmatched = {}

-----------------------------------------------------------------------------
(* The node, the contracts and the off-ramp service.                         *)

Tip == IF ledger = <<>> THEN 0 ELSE Last(ledger).height

Txns(h) == [height : {h}, kind : {"burn"}, value : Value]
             \cup [height : {h}, kind : {"nosub", "other"}, value : {0}]

CommitBlock ==
  /\ Tip < MaxBurnBlocks
  /\ \E txns \in BoundedSeq(Txns(Tip + 1), BurnBlockSize) :
       txns # <<>> /\ ledger' = ledger \o txns
  /\ UNCHANGED <<ethVars, contractVars, swapVars, stage, procVars, runs, skipped, unmatched>>

(* The next block is rolled up: a burn that was substituted is paid to the   *)
(* substitutor.                                                              *)
RollupBlock ==
  /\ rolled < Tip
  /\ rolled' = rolled + 1
  /\ balance' = balance + MapThenSumSet(LAMBDA x : ledger[x].value,
       {x \in substituted : ledger[x].height = rolled + 1})
  /\ UNCHANGED <<ethVars, substituted, allowance, swapVars, ledger, stage, procVars, runs,
                 skipped, unmatched>>

ShortOfBalance(x) == ledger[x].value > balance

Substitutable(x) ==
  /\ x \notin substituted
  /\ ledger[x].height > rolled
  /\ allowance
  /\ ~ ShortOfBalance(x)

(* A transaction of the substitutor is included.                             *)
Include ==
  /\ pool # <<>>
  /\ LET c == Head(pool).call
         ok == CASE c.func = "approve" -> TRUE
                 [] c.func = "substituteBurn" -> Substitutable(c.arg)
                 [] c.func = "initialize" -> c.arg \notin escrows
     IN  /\ Mine(ok)
         /\ allowance' = (allowance \/ c.func = "approve")
         /\ IF ok /\ c.func = "substituteBurn"
              THEN /\ substituted' = substituted \cup {c.arg}
                   /\ balance' = balance - ledger[c.arg].value
              ELSE UNCHANGED <<substituted, balance>>
         /\ escrows' = IF c.func = "initialize" THEN escrows \cup {c.arg} ELSE escrows
         /\ skipped' = IF c.func = "substituteBurn" /\ ShortOfBalance(c.arg)
                         THEN skipped \cup {c.arg} ELSE skipped
  /\ UNCHANGED <<rolled, swaps, ledger, stage, procVars, runs, unmatched>>

Forget ==
  /\ Drop
  /\ UNCHANGED <<contractVars, swapVars, ledger, stage, procVars, runs, skipped, unmatched>>

(* A swap is created, becomes ready with commitTxs, is seen committed and    *)
(* is claimed, or expires for good.                                          *)
SwapStep(s) ==
  /\ \/ swaps[s] = "none" /\ swaps' = [swaps EXCEPT ![s] = "created"]
     \/ swaps[s] = "created" /\ swaps' = [swaps EXCEPT ![s] = "ready"]
     \/ swaps[s] = "ready" /\ s \in escrows /\ swaps' = [swaps EXCEPT ![s] = "claimed"]
     \/ swaps[s] = "ready" /\ s \notin escrows /\ swaps' = [swaps EXCEPT ![s] = "expired"]
  /\ UNCHANGED <<ethVars, contractVars, escrows, ledger, stage, procVars, runs, skipped, unmatched>>

-----------------------------------------------------------------------------
(* The process.                                                              *)

envVars == <<contractVars, swapVars, ledger>>

(* The binary starts: approve the contract, unless that was done.  The       *)
(* tries for want of gas money are one.                                      *)
Start ==
  /\ stage = "down"
  /\ runs < MaxRuns
  /\ runs' = runs + 1
  /\ stage' = IF allowance THEN "idle" ELSE "approve"
  /\ UNCHANGED <<ethVars, envVars, procVars, skipped, unmatched>>

ApproveMax ==
  /\ stage = "approve"
  /\ Call([func |-> "approve", arg |-> Nil], TRUE)
  /\ tx' = NewTx([func |-> "approve", arg |-> Nil])
  /\ stage' = "confirmApprove"
  /\ UNCHANGED <<envVars, txnCursor, page, pageEnd, swap, runs, skipped, unmatched>>

(* Any error ends the process, and so may the machine.                       *)
Exit ==
  /\ stage # "down"
  /\ stage' = "down"
  /\ txnCursor' = Nil /\ page' = <<>> /\ pageEnd' = Nil /\ tx' = Nil /\ swap' = Nil
  /\ skipped' = {} /\ unmatched' = {}
  /\ UNCHANGED <<ethVars, envVars, runs>>

(* Mutant: begin one block later.                                            *)
StartTickLate ==
  /\ stage = "idle"
  /\ stage' = "fetch"
  /\ txnCursor' = IF txnCursor # Nil THEN txnCursor
               ELSE Max({0} \cup {i \in DOMAIN ledger : ledger[i].height <= rolled + 1})
  /\ UNCHANGED <<ethVars, envVars, page, pageEnd, tx, swap, runs, skipped, unmatched>>

(* tick: without a cursor, begin after the last block rolled up.             *)
StartTick ==
  /\ stage = "idle"
  /\ stage' = "fetch"
  /\ txnCursor' = IF txnCursor # Nil THEN txnCursor
               ELSE Max({0} \cup {i \in DOMAIN ledger : ledger[i].height <= rolled})
  /\ UNCHANGED <<ethVars, envVars, page, pageEnd, tx, swap, runs, skipped, unmatched>>

(* fetch_transactions, oldest to newest.                                     *)
FetchTransactions ==
  /\ stage = "fetch"
  /\ LET end == Min({txnCursor + FetchLimit, Len(ledger)})
     IN  /\ page' = [i \in 1 .. end - txnCursor |-> txnCursor + i]
         /\ pageEnd' = end
  /\ stage' = "next"
  /\ UNCHANGED <<ethVars, envVars, txnCursor, tx, swap, runs, skipped, unmatched>>

Skip == page' = Tail(page) /\ stage' = "next"

NextTxn ==
  /\ stage = "next"
  /\ page # <<>>
  /\ CASE ledger[Head(page)].kind = "burn" -> stage' = "substituted?" /\ UNCHANGED page
       [] ledger[Head(page)].kind = "nosub" -> stage' = "swaps" /\ UNCHANGED page
       [] OTHER -> Skip
  /\ UNCHANGED <<ethVars, envVars, txnCursor, pageEnd, tx, swap, runs, skipped, unmatched>>

WasBurnSubstituted ==
  /\ stage = "substituted?"
  /\ IF Head(page) \in substituted THEN Skip ELSE stage' = "balance" /\ UNCHANGED page
  /\ UNCHANGED <<ethVars, envVars, txnCursor, pageEnd, tx, swap, runs, skipped, unmatched>>

CheckBalance ==
  /\ stage = "balance"
  /\ IF ShortOfBalance(Head(page))
       THEN Skip /\ skipped' = skipped \cup {Head(page)}
       ELSE stage' = "substitute" /\ UNCHANGED <<page, skipped>>
  /\ UNCHANGED <<ethVars, envVars, txnCursor, pageEnd, tx, swap, runs, unmatched>>

SubstituteBurn ==
  /\ stage = "substitute"
  /\ LET c == [func |-> "substituteBurn", arg |-> Head(page)]
     IN  Call(c, Substitutable(Head(page))) /\ tx' = NewTx(c)
  /\ stage' = "confirm"
  /\ UNCHANGED <<envVars, txnCursor, page, pageEnd, swap, runs, skipped, unmatched>>

(* Err(UnknownTransaction) is an Exit.                                       *)
Confirmed ==
  /\ stage \in {"confirm", "confirmApprove"}
  /\ WaitForConfirm(tx)
  /\ IF stage = "confirm" THEN Skip ELSE stage' = "idle" /\ UNCHANGED page
  /\ tx' = Nil
  /\ UNCHANGED <<envVars, txnCursor, pageEnd, swap, runs, skipped, unmatched>>

(* handle_nosub_burn, steps A and B: the first swap in a state to act on;    *)
(* none is found after the last attempt.                                     *)
FindSwap ==
  /\ stage = "swaps"
  /\ LET open == {s \in Swap : swaps[s] \in {"created", "ready"}}
     IN  IF open = {}
           THEN Skip /\ unmatched' = unmatched \cup {Head(page)} /\ UNCHANGED swap
           ELSE stage' = "offramp" /\ swap' \in open /\ UNCHANGED <<page, unmatched>>
  /\ UNCHANGED <<ethVars, envVars, txnCursor, pageEnd, tx, runs, skipped>>

(* Steps C and D: ready to commit; or claimed, or not ready in time.         *)
QueryOfframp ==
  /\ stage = "offramp"
  /\ IF swaps[swap] = "ready" THEN stage' = "commit" /\ UNCHANGED page ELSE Skip
  /\ UNCHANGED <<ethVars, envVars, txnCursor, pageEnd, tx, swap, runs, skipped, unmatched>>

(* The commitTx, if its escrow is for this substitutor and this amount, is   *)
(* sent without an estimate.                                                 *)
CommitSwap(matches) ==
  /\ stage = "commit"
  /\ LET c == [func |-> "initialize", arg |-> swap]
     IN  IF matches THEN /\ Call(c, TRUE)
                         /\ tx' = NewTx(c)
                         /\ stage' = "confirm"
                         /\ UNCHANGED page
         ELSE Skip /\ UNCHANGED <<ethVars, tx>>
  /\ UNCHANGED <<envVars, txnCursor, pageEnd, swap, runs, skipped, unmatched>>

(* The page is done: the cursor moves past it.                               *)
EndBurnTick ==
  /\ stage = "next"
  /\ page = <<>>
  /\ txnCursor' = pageEnd
  /\ stage' = "idle"
  /\ UNCHANGED <<ethVars, envVars, page, pageEnd, tx, swap, runs, skipped, unmatched>>

SubNext ==
  \/ CommitBlock \/ RollupBlock \/ Include \/ Forget
  \/ \E s \in Swap : SwapStep(s)
  \/ Start \/ ApproveMax \/ Exit
  \/ StartTick \/ FetchTransactions \/ NextTxn
  \/ WasBurnSubstituted \/ CheckBalance \/ SubstituteBurn \/ Confirmed
  \/ FindSwap \/ QueryOfframp \/ \E m \in BOOLEAN : CommitSwap(m)
  \/ EndBurnTick

SubSpec == SubInit /\ [][SubNext]_subVars

-----------------------------------------------------------------------------

(* A burn the cursor has passed was substituted or rolled up, or exceeded    *)
(* the balance, when it was looked at or when its transaction, after one     *)
(* of an earlier process, was included and reverted (wait_for_confirm does   *)
(* not look at the receipt): no crash, transaction left in the pool or       *)
(* rollup in between makes tick pass over one.                               *)
PassedBurnsHandled ==
  txnCursor # Nil =>
    \A x \in 1 .. txnCursor :
      ledger[x].kind = "burn" =>
        x \in substituted \cup skipped \/ ledger[x].height <= rolled

(* The log of handle_nosub_burn when no swap was found: "will retry on       *)
(* next tick".  So the cursor must not have passed the burn.                 *)
UnmatchedIsRetried == txnCursor # Nil => \A x \in unmatched : x > txnCursor
=============================================================================
