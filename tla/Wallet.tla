------------------------------- MODULE Wallet -------------------------------
(***************************************************************************)
(* The command line wallet (pkg/cli): a JSON file with the notes the user  *)
(* can spend and the addresses that await a payment, and one handler per   *)
(* command.  A handler loads the file, stages the change on a copy, sends  *)
(* a transaction and saves the copy only when the node answers Ok.  The    *)
(* answer may be lost, the request may time out and still be committed     *)
(* later, and the process may end at any await.                            *)
(*                                                                         *)
(* One command runs at a time.  The secret key of a note, of which its     *)
(* address and psi are hashes, is a number; commitments are the notes      *)
(* themselves and padding notes are left out of a transaction.             *)
(***************************************************************************)
EXTENDS Naturals, FiniteSets, Sequences, FiniteSetsExt

CONSTANTS
  Ticker,       \* tickers of citrea_token_data
  Wcbtc,        \* the one of them Lightning swaps are in
  Amount,       \* amounts a user asks for, in wei
  ChainId,      \* values of --chain
  None,         \* chain_id of a wallet file that has none
  Held,         \* notes in a wallet file of an earlier release
  Gift,         \* notes of others whose link or file the user was given
  Payee,        \* notes (addresses with an amount) of others
  Word,         \* 2^64 in the code: balances and amounts are u64
  Page,         \* default limit of /transactions: 10 in the code
  MaxKey        \* bound: secret keys generated

VARIABLES
  file,         \* <name>.json
  cli,          \* the running command
  noteFile,     \* <name>-note.json: the note last spent without an address
  nextKey,      \* gen_pk: the next random key
  issued,       \* addresses the wallet gave away, as the notes they ask for
  net,          \* transactions on their way to the node
  unspent,      \* the notes in the node's tree
  log,          \* the transactions committed, oldest first
  mints,        \* deposits recorded in the rollup contract
  swap,         \* the Lightning swap the on-ramp service is busy with
  owned         \* history: notes staged for the wallet by commands that were
                \* not interrupted before they saved them

userVars == <<file, noteFile, nextKey, issued>>
nodeVars == <<unspent, log, mints>>
vars == <<userVars, cli, net, nodeVars, swap, owned>>

NoWallet == [avail |-> {}, pending |-> {}, balance |-> 0, chain |-> "absent"]

NewWallet(chain) == [NoWallet EXCEPT !.chain = chain]

NoNote == [key |-> 0, ticker |-> None, value |-> 0]
NoTxn == [kind |-> "none", ins |-> {}, outs |-> {}]
NoSwap == [state |-> "none", note |-> NoNote]

Idle == [pc |-> "idle", cmd |-> "none", wallet |-> NoWallet,
         staged |-> NoWallet, txn |-> NoTxn, note |-> NoNote]

Value(notes) == MapThenSumSet(LAMBDA n : n.value, notes)

Init ==
  /\ file \in {NoWallet, [NewWallet(None) EXCEPT !.avail = Held,
                                                !.balance = Value(Held) % Word]}
  /\ cli = Idle
  /\ noteFile = NoNote
  /\ nextKey = 1
  /\ issued = {}
  /\ net = {}
  /\ unspent = Held \cup Gift
  /\ log = <<>>
  /\ mints = {}
  /\ swap = NoSwap
  /\ owned = {}

-----------------------------------------------------------------------------
(* Operations on a wallet.                                                 *)

PushToAvail(w, n) ==
  [w EXCEPT !.avail = @ \cup {n}, !.balance = (@ + n.value) % Word]

PullFromAvail(w, n) ==
  [w EXCEPT !.avail = @ \ {n}, !.balance = (@ + Word - n.value) % Word]

ReceiveNote(amount, ticker, key) ==
  [key |-> key, ticker |-> ticker, value |-> amount]

(* The cheapest one or two notes that cover the amount; which of several   *)
(* equally good ones depends on the order of the file.                     *)
Selections(w, ticker, amount) ==
  LET mine == {n \in w.avail : n.ticker = ticker}
      covers == {s \in SUBSET mine : /\ Cardinality(s) \in 1..2
                                     /\ Value(s) \in amount .. Word - 1}
      Better(s, t) == \/ Value(s) < Value(t)
                      \/ Value(s) = Value(t) /\ Cardinality(s) < Cardinality(t)
  IN  {s \in covers : ~ \E t \in covers : Better(t, s)}

(* select_input_notes that forgets the change *)
SelectInputNotesOnly(w, ticker, amount, key) ==
  {[wallet |-> FoldSet(LAMBDA n, acc : PullFromAvail(acc, n), w, s), ins |-> s, change |-> {}] :
     s \in Selections(w, ticker, amount)}

(* Pull what was selected, push the change; the staged wallets with the    *)
(* inputs and the change note, if any.                                     *)
SelectInputNotes(w, ticker, amount, key) ==
  LET Change(s) == IF Value(s) = amount THEN {}
                   ELSE {ReceiveNote(Value(s) - amount, ticker, key)}
      Pulled(s) == FoldSet(LAMBDA n, acc : PullFromAvail(acc, n), w, s)
  IN  {[wallet |-> FoldSet(LAMBDA n, acc : PushToAvail(acc, n), Pulled(s), Change(s)),
        ins |-> s, change |-> Change(s)] : s \in Selections(w, ticker, amount)}

(* The balance it compares with is that of all tickers together.           *)
SpendTo(w, note, key) ==
  IF note.value > w.balance THEN {}
  ELSE {[wallet |-> s.wallet,
         txn |-> [kind |-> "send", ins |-> s.ins, outs |-> {note} \cup s.change]] :
          s \in SelectInputNotes(w, note.ticker, note.value, key)}

Receive(w, n, key) ==
  LET mine == ReceiveNote(n.value, n.ticker, key)
  IN  [wallet |-> PushToAvail(w, mine),
       txn |-> [kind |-> "send", ins |-> {n}, outs |-> {mine}]]

Mint(w, amount, ticker, key) ==
  LET mine == ReceiveNote(amount, ticker, key)
  IN  [wallet |-> PushToAvail(w, mine),
       txn |-> [kind |-> "mint", ins |-> {}, outs |-> {mine}]]

Burn(w, note, kind) ==
  [wallet |-> PullFromAvail(w, note),
   txn |-> [kind |-> kind, ins |-> {note}, outs |-> {}]]

(* A pending note with the address of the note imported.                   *)
ImportNote(w, note) ==
  LET known == {p \in w.pending : p.key = note.key}
  IN  {PushToAvail([w EXCEPT !.pending = @ \ {p}], note) : p \in known}

(* The map insert replaces the addresses of the ticker that were pending.  *)
GetAddress(w, amount, ticker, key) ==
  [w EXCEPT !.pending = {p \in @ : p.ticker # ticker}
                          \cup {ReceiveNote(amount, ticker, key)}]

WalletSync(w, txns) ==
  LET found == {p \in w.pending : \E t \in txns : p \in t.outs}
  IN  FoldSet(LAMBDA n, acc : PushToAvail(acc, n),
              [w EXCEPT !.pending = @ \ found], found)

-----------------------------------------------------------------------------
(* The node, and whoever else uses it.                                     *)

CommittedTxns == {log[i] : i \in DOMAIN log}

Valid(t) ==
  /\ t.ins \subseteq unspent
  /\ \A c \in CommittedTxns : t.outs \cap c.outs = {}
  /\ t.kind = "mint" => t.outs \subseteq mints

NodeCommits(t) ==
  /\ Valid(t)
  /\ net' = net \ {t}
  /\ unspent' = (unspent \ t.ins) \cup t.outs
  /\ log' = Append(log, t)
  /\ mints' = IF t.kind = "mint" THEN mints \ t.outs ELSE mints
  /\ UNCHANGED <<userVars, cli, swap, owned>>

NodeRejects(t) ==
  /\ ~ Valid(t)
  /\ net' = net \ {t}
  /\ UNCHANGED <<userVars, cli, nodeVars, swap, owned>>

(* Somebody pays to an address of the wallet.                              *)
OtherPays(n) ==
  /\ \A c \in CommittedTxns : n \notin c.outs
  /\ unspent' = unspent \cup {n}
  /\ log' = Append(log, [kind |-> "send", ins |-> {}, outs |-> {n}])
  /\ UNCHANGED <<userVars, cli, net, mints, swap, owned>>

-----------------------------------------------------------------------------
(* What the commands share.  Ready: load_from and the chain check of build.*)

(* build without the comparison of the chains *)
ReadyOnAnyChain(chain) ==
  /\ cli.pc = "idle"
  /\ file # NoWallet

Ready(chain) ==
  /\ cli.pc = "idle"
  /\ file # NoWallet
  /\ file.chain \in {None, chain}

TakeKeys(n) ==
  /\ nextKey + n <= MaxKey + 1
  /\ nextKey' = nextKey + n

(* Stage a change and post the transaction.                                *)
Submit(cmd, wallet, staged, txn, note) ==
  /\ cli' = [pc |-> "sent", cmd |-> cmd, wallet |-> wallet, staged |-> staged,
             txn |-> txn, note |-> note]
  /\ net' = net \cup {txn}
  /\ owned' = owned \cup (staged.avail \ wallet.avail)

Done == cli' = Idle

HandleCreate(chain) ==
  /\ cli.pc = "idle"
  /\ file = NoWallet
  /\ file' = NewWallet(chain)
  /\ UNCHANGED <<noteFile, nextKey, issued, cli, net, nodeVars, swap, owned>>

(* Only the newest page of transactions is looked at.                      *)
HandleSync(chain) ==
  /\ Ready(chain)
  /\ LET newest == {log[i] : i \in {j \in DOMAIN log : j + Page > Len(log)}}
     IN  file' = [WalletSync(file, newest) EXCEPT !.chain = chain]
  /\ UNCHANGED <<noteFile, nextKey, issued, cli, net, nodeVars, swap, owned>>

HandleAddress(amount, ticker) ==
  /\ cli.pc = "idle"
  /\ file # NoWallet
  /\ TakeKeys(1)
  /\ file' = GetAddress(file, amount, ticker, nextKey)
  /\ issued' = issued \cup {ReceiveNote(amount, ticker, nextKey)}
  /\ UNCHANGED <<noteFile, cli, net, nodeVars, swap, owned>>

HandleNoteSpend(chain, amount, ticker) ==
  /\ Ready(chain)
  /\ TakeKeys(2)
  /\ LET transfer == ReceiveNote(amount, ticker, nextKey)
     IN  \E s \in SpendTo(file, transfer, nextKey + 1) :
           Submit("spend", file, s.wallet, s.txn, transfer)
  /\ UNCHANGED <<file, noteFile, issued, nodeVars, swap>>

HandleSpendTo(chain, note) ==
  /\ Ready(chain)
  /\ TakeKeys(1)
  /\ \E s \in SpendTo(file, note, nextKey) :
       Submit("spend_to", file, s.wallet, s.txn, note)
  /\ UNCHANGED <<file, noteFile, issued, nodeVars, swap>>

HandleReceive(chain, note) ==
  /\ Ready(chain)
  /\ TakeKeys(1)
  /\ LET s == Receive(file, note, nextKey)
     IN  Submit("receive", file, s.wallet, s.txn, NoNote)
  /\ UNCHANGED <<file, noteFile, issued, nodeVars, swap>>

(* The payer's file with the note, which it has once the node took it.     *)
HandleImport(note) ==
  /\ cli.pc = "idle"
  /\ file # NoWallet
  /\ \E c \in CommittedTxns : note \in c.outs
  /\ file' \in ImportNote(file, note)
  /\ UNCHANGED <<noteFile, nextKey, issued, cli, net, nodeVars, swap, owned>>

(* With only_snark the deposit is left to somebody else.                   *)
HandleMint(chain, amount, ticker, onlySnark) ==
  /\ Ready(chain)
  /\ TakeKeys(1)
  /\ LET s == Mint(file, amount, ticker, nextKey)
     IN  IF onlySnark THEN Submit("mint", file, s.wallet, s.txn, NoNote)
         ELSE /\ cli' = [pc |-> "minting", cmd |-> "mint", wallet |-> file,
                         staged |-> s.wallet, txn |-> s.txn, note |-> NoNote]
              /\ UNCHANGED <<net, owned>>
  /\ UNCHANGED <<file, noteFile, issued, nodeVars, swap>>

(* The contract recorded the deposit; the claim goes to the node.          *)
AdminMint ==
  /\ cli.pc = "minting"
  /\ mints' = mints \cup cli.txn.outs
  /\ Submit("mint", cli.wallet, cli.staged, cli.txn, NoNote)
  /\ UNCHANGED <<userVars, unspent, log, swap>>

(* First transaction of a burn: move the exact amount to a note of its own.*)
HandleBurn(cmd, chain, amount, ticker) ==
  /\ Ready(chain)
  /\ TakeKeys(2)
  /\ LET burner == ReceiveNote(amount, ticker, nextKey)
     IN  \E s \in SpendTo(file, burner, nextKey + 1) :
           Submit(cmd, file, s.wallet, s.txn, burner)
  /\ UNCHANGED <<file, noteFile, issued, nodeVars, swap>>

(* Save the burner note, then burn it, unless the address does not parse.  *)
AddBurnerNote(addressOk) ==
  /\ cli.pc = "burner"
  /\ LET with == PushToAvail(cli.wallet, cli.note)
         kind == IF cli.cmd = "burn" THEN "burn" ELSE "burn_no_sub"
         s == Burn(with, cli.note, kind)
     IN  /\ file' = with
         /\ IF addressOk
            THEN Submit(cli.cmd, with, s.wallet, s.txn, NoNote)
            ELSE Done /\ UNCHANGED <<net, owned>>
  /\ UNCHANGED <<noteFile, nextKey, issued, nodeVars, swap>>

(* The off-ramp's quote is an amount to burn.                              *)
HandleWithdrawLn(chain, amount) ==
  HandleBurn("withdraw", chain, amount, Wcbtc)

(* Polling ends: the swap was settled, it failed, or time is up.           *)
WithdrawSettles ==
  /\ cli.pc = "settling"
  /\ Done
  /\ UNCHANGED <<userVars, net, nodeVars, swap, owned>>

HandleDepoLn(chain) ==
  /\ Ready(chain)
  /\ swap.state = "none"
  /\ swap' = [NoSwap EXCEPT !.state = "created"]
  /\ cli' = [Idle EXCEPT !.pc = "polling", !.cmd = "deposit", !.wallet = file]
  /\ UNCHANGED <<userVars, net, nodeVars, owned>>

(* Status 2: stage the note of the amount settled, reveal the preimage.    *)
ClaimDeposit(amount) ==
  /\ cli.pc = "polling"
  /\ swap.state = "paid"
  /\ TakeKeys(1)
  /\ LET s == Mint(cli.wallet, amount, Wcbtc, nextKey)
     IN  /\ swap' = [state |-> "claimed", note |-> CHOOSE n \in s.txn.outs : TRUE]
         /\ Submit("deposit", cli.wallet, s.wallet, s.txn, NoNote)
  /\ UNCHANGED <<file, noteFile, issued, nodeVars>>

(* The on-ramp service: the invoice is paid or the swap fails; once it     *)
(* has the preimage it records the deposit in the contract.                *)
OnrampStep ==
  /\ \/ swap.state = "created" /\ swap' \in {[swap EXCEPT !.state = "paid"], NoSwap}
        /\ UNCHANGED mints
     \/ swap.state = "claimed" /\ swap' = NoSwap
        /\ mints' = mints \cup {swap.note}
  /\ UNCHANGED <<userVars, cli, net, unspent, log, owned>>

-----------------------------------------------------------------------------
(* the Ok branch of a handler that does not save *)
AnswerOkUnsaved ==
  /\ cli.pc = "sent"
  /\ cli.txn \in CommittedTxns
  /\ Done
  /\ UNCHANGED <<userVars, net, nodeVars, swap, owned>>

(* The Ok branch of a handler: save what was staged, and go on.            *)
AnswerOk ==
  /\ cli.pc = "sent"
  /\ cli.txn \in CommittedTxns
  /\ file' = cli.staged
  /\ cli' = CASE cli.cmd \in {"spend", "spend_to"} ->
                   [cli EXCEPT !.pc = "writing", !.wallet = cli.staged]
              [] cli.cmd \in {"burn", "withdraw"} /\ cli.txn.kind = "send" ->
                   [cli EXCEPT !.pc = "burner", !.wallet = cli.staged]
              [] cli.cmd = "withdraw" /\ cli.txn.kind # "send" ->
                   [cli EXCEPT !.pc = "settling"]
              [] OTHER -> Idle
  /\ owned' = IF cli'.pc = "burner" THEN owned \cup {cli.note} ELSE owned
  /\ UNCHANGED <<noteFile, nextKey, issued, net, nodeVars, swap>>

WriteNoteFile ==
  /\ cli.pc = "writing"
  /\ noteFile' = IF cli.cmd = "spend" THEN cli.note ELSE noteFile
  /\ Done
  /\ UNCHANGED <<file, nextKey, issued, net, nodeVars, swap, owned>>

(* The Err branches: no answer in time, an answer other than Ok or one     *)
(* that does not parse, a failed call; and the end of the process.  What   *)
(* was staged is gone.                                                     *)
Interrupted ==
  /\ cli.pc \notin {"idle"}
  /\ Done
  /\ owned' = owned \cap file.avail
  /\ UNCHANGED <<userVars, net, nodeVars, swap>>

-----------------------------------------------------------------------------

Next ==
  \/ \E t \in net : NodeCommits(t) \/ NodeRejects(t)
  \/ \E n \in issued : OtherPays(n) \/ HandleImport(n)
  \/ \E c \in ChainId :
       \/ HandleCreate(c)
       \/ HandleSync(c)
       \/ HandleDepoLn(c)
       \/ \E n \in Payee : HandleSpendTo(c, n)
       \/ \E n \in Gift \cup ({noteFile} \ {NoNote}) : HandleReceive(c, n)
       \/ \E a \in Amount, t \in Ticker :
            \/ HandleNoteSpend(c, a, t)
            \/ \E only \in BOOLEAN : HandleMint(c, a, t, only)
            \/ HandleBurn("burn", c, a, t)
       \/ \E a \in Amount : HandleWithdrawLn(c, a)
  \/ \E a \in Amount, t \in Ticker : HandleAddress(a, t)
  \/ \E a \in Amount : ClaimDeposit(a)
  \/ \E ok \in BOOLEAN : AddBurnerNote(ok)
  \/ AdminMint
  \/ WithdrawSettles
  \/ OnrampStep
  \/ AnswerOk
  \/ WriteNoteFile
  \/ Interrupted

Spec == Init /\ [][Next]_vars

-----------------------------------------------------------------------------

(* The balance of the file is the value of its notes, as a u64: every path *)
(* that adds or removes a note (push_to_avail, pull_from_avail) counts it. *)
BalanceIsSum == file.balance = Value(file.avail) % Word

(* Whatever transaction a command sends balances, in one token: the notes  *)
(* selected cover what is sent and the rest comes back as change.          *)
TxnsBalance ==
  \A t \in net :
    /\ Cardinality({n.ticker : n \in t.ins \cup t.outs}) = 1
    /\ t.kind = "send" => Value(t.ins) = Value(t.outs)

(* A note a command made for the wallet (change, deposit, received or      *)
(* burner note) is in the file or in the hands of the running command as   *)
(* long as it is unspent, unless that command was interrupted.             *)
OwnedNotesKept ==
  unspent \cap owned \subseteq
    file.avail \cup cli.staged.avail
      \cup (IF cli.pc = "burner" THEN {cli.note} ELSE {})

(* A payment to the last address the wallet gave out for a token is not    *)
(* lost to it, whatever commands ran since.  (Only to the last:            *)
(* get_address replaces the one before.)                                   *)
LastAddressKept ==
  \A n \in issued \cap unspent :
    (\A m \in issued : m.ticker = n.ticker => m.key <= n.key)
      => n \in file.pending \cup file.avail

(* A save never drops a note that the node has not spent, and never moves  *)
(* a wallet bound to a chain to another one.                               *)
SavesAreSafe ==
  [][/\ \A n \in file.avail \ file'.avail : n \notin unspent
     /\ file.chain \in ChainId => file'.chain = file.chain]_vars
=============================================================================
