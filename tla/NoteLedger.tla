----------------------------- MODULE NoteLedger -----------------------------
(***************************************************************************)
(* What the validator promises, without blocks, databases, trees, crashes  *)
(* or restarts: a set of unspent notes that changes by whole batches of    *)
(* transactions, and answers that are given only for what is in it.        *)
(* Module Proposer implements it.                                          *)
(***************************************************************************)
CONSTANTS
  Txn,        \* transactions
  Inputs,     \* the notes a transaction consumes
  Outputs,    \* the notes it creates
  NoMint,
  MintOf      \* the deposit it claims, or NoMint

VARIABLES
  unspent,    \* notes created and not consumed
  created,    \* notes ever created
  claimed,    \* deposits claimed
  final,      \* transactions that took effect
  answered    \* transactions some request got an Ok for

ledgerVars == <<unspent, created, claimed, final, answered>>

NotesUsed(ts) == UNION {Inputs[t] : t \in ts}
NotesMade(ts) == UNION {Outputs[t] : t \in ts}
Claims(ts) == {MintOf[t] : t \in ts} \ {NoMint}

LedgerInit ==
  /\ unspent = {}
  /\ created = {}
  /\ claimed = {}
  /\ final = {}
  /\ answered = {}

(* A batch takes effect at once: it consumes unspent notes, no two of its  *)
(* transactions the same one, creates notes that never existed, and claims *)
(* deposits that were not claimed.                                         *)
Commit(ts) ==
  /\ NotesUsed(ts) \subseteq unspent
  /\ NotesMade(ts) \cap created = {}
  /\ Claims(ts) \cap claimed = {}
  /\ \A s, t \in ts : s # t => Inputs[s] \cap Inputs[t] = {} /\ Outputs[s] \cap Outputs[t] = {}
  /\ unspent' = (unspent \cup NotesMade(ts)) \ NotesUsed(ts)
  /\ created' = created \cup NotesMade(ts)
  /\ claimed' = claimed \cup Claims(ts)
  /\ final' = final \cup ts
  /\ UNCHANGED answered

(* Requests are answered, for transactions that took effect.               *)
Answer(ts) ==
  /\ ts \subseteq final
  /\ answered' = answered \cup ts
  /\ UNCHANGED <<unspent, created, claimed, final>>

LedgerNext == \E ts \in SUBSET Txn : Commit(ts) \/ Answer(ts)

LedgerSpec == LedgerInit /\ [][LedgerNext]_ledgerVars
=============================================================================
