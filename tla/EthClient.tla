----------------------------- MODULE EthClient ------------------------------
(***************************************************************************)
(* The client of the settlement chain (pkg/contracts, client.rs): sending  *)
(* a contract call and waiting until it is included.                       *)
(*                                                                         *)
(* One account sends.  A transaction is its nonce and its call; the pool   *)
(* holds those not yet in a block, in the order of their nonces, and block *)
(* number i has the i-th transaction.  What a call does is for the module  *)
(* that extends this one to say.                                           *)
(***************************************************************************)
EXTENDS Naturals, SequencesExt

VARIABLES
  pool,         \* transactions pending
  mined         \* transactions in blocks, with whether they succeeded

ethVars == <<pool, mined>>

EthInit == pool = <<>> /\ mined = <<>>

(* pending_nonce: use_latest_for_nonce is never set.                       *)
Nonce == Len(mined) + Len(pool)

Status(tx) ==
  IF \E i \in DOMAIN mined : mined[i].tx = tx THEN "included"
  ELSE IF \E i \in DOMAIN pool : pool[i] = tx THEN "pending"
  ELSE "unknown"

NewTx(call) == [nonce |-> Nonce, call |-> call]

(* Client::call: the gas estimate runs the call on the latest state and    *)
(* fails if it would revert; then the call is signed once and sent up to   *)
(* four times.  If the first answer is lost, the next try is told that the *)
(* transaction is known, which is no transport error: the caller may get   *)
(* an error for a transaction that is in the pool.                         *)
Call(call, succeeds) ==
  /\ succeeds
  /\ pool' = Append(pool, NewTx(call))
  /\ UNCHANGED mined

(* wait_for_transaction_inclusion looks only at the block number: a        *)
(* transaction that was included and reverted is confirmed.                *)
WaitForConfirm(tx) == Status(tx) = "included" /\ UNCHANGED ethVars
(* The chain: the first transaction of the pool is included, or the last   *)
(* one is dropped.                                                         *)
Mine(ok) ==
  /\ pool # <<>>
  /\ mined' = Append(mined, [tx |-> Head(pool), ok |-> ok])
  /\ pool' = Tail(pool)

Drop ==
  /\ pool # <<>>
  /\ pool' = Front(pool)
  /\ UNCHANGED mined
=============================================================================
