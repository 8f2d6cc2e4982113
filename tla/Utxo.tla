-------------------------------- MODULE Utxo --------------------------------
(* Notes, UTXO transactions and the proof of one transaction:               *)
(* zk-primitives (what the wallet builds), barretenberg (how it is handed   *)
(* to the circuit and how the proof is taken apart again) and the circuit   *)
(* noir/utxo.                                                               *)
(*                                                                          *)
(* A field element is a number below the modulus P, or a hash of elements.  *)
(* Hashes are free: two hashes are equal only when what they hash is.       *)
EXTENDS Integers, Sequences, SequencesExt

CONSTANTS P,         \* the modulus of the field
          ValueBits  \* the bits a value of an output note may have

ASSUME FieldAssumption ==
  /\ P \in Nat
  /\ ValueBits \in Nat
  \* 3 * 2^240 is below the modulus of BN254
  /\ 3 * 2 ^ ValueBits < P

Num(n) == <<"n", n>>

Zero == Num(0)

hash_merge(elements) == <<"h", elements>>

(* The addition of the field, in the circuits.                              *)
Plus(a, b) == Num((a[2] + b[2]) % P)

(* The 256 bit arithmetic of an Element: values are far from its ends.      *)
Add(a, b) == Num(a[2] + b[2])

Sub(a, b) == Num(a[2] - b[2])

-----------------------------------------------------------------------------
(* Notes.                                                                   *)

(* The note every constructor of a Note fills in, of kind 2.                *)
NewNote(contract, value, address, psi) ==
  [kind |-> Num(2), contract |-> contract, value |-> value, address |-> address, psi |-> psi]

PaddingNote == NewNote(Zero, Zero, Zero, Zero)

Commitment(n) ==
  IF n.value = Zero
    THEN Zero
    ELSE hash_merge(<<n.kind, n.contract, n.value, n.address, n.psi, Zero, Zero>>)

get_address_for_private_key(key) == hash_merge(<<key, Zero>>)

InputNote(note, key) == [note |-> note, secret_key |-> key]

PaddingInput == InputNote(PaddingNote, Zero)

-----------------------------------------------------------------------------
(* Transactions.                                                            *)

NewUtxo(kind, ins, outs, burn_address) ==
  [kind |-> kind, input_notes |-> ins, output_notes |-> outs, burn_address |-> burn_address]

new_send(ins, outs) == NewUtxo("Send", ins, outs, Zero)

new_mint(outs) == NewUtxo("Mint", <<PaddingInput, PaddingInput>>, outs, Zero)

new_burn(ins, evm_address) == NewUtxo("Burn", ins, <<PaddingNote, PaddingNote>>, evm_address)

new_burn_no_sub(ins, evm_address) ==
  NewUtxo("NoSub", ins, <<PaddingNote, PaddingNote>>, evm_address)

(* The number of a kind, and the kind of the last byte of an element.       *)
KindNumber == [Null |-> 0, Send |-> 1, Mint |-> 2, Burn |-> 3, NoSub |-> 4]

KindFrom(n) ==
  IF \E k \in DOMAIN KindNumber : KindNumber[k] = n
    THEN CHOOSE k \in DOMAIN KindNumber : KindNumber[k] = n
    ELSE "Null"

InputValue(u) == Add(u.input_notes[1].note.value, u.input_notes[2].note.value)

OutputValue(u) == Add(u.output_notes[1].value, u.output_notes[2].value)

MintHash(u) == hash_merge(<<u.output_notes[1].psi, u.output_notes[2].psi>>)

BurnHash(u) == Commitment(u.input_notes[1].note)

Messages(u) ==
  CASE u.kind = "Send" -> <<Num(1), Zero, Zero, Zero, Zero>>
    [] u.kind = "Mint" ->
         <<Num(2), u.output_notes[1].contract, Sub(OutputValue(u), InputValue(u)),
           MintHash(u), Zero>>
    [] u.kind \in {"Burn", "NoSub"} ->
         <<Num(KindNumber[u.kind]), u.input_notes[1].note.contract,
           Sub(InputValue(u), OutputValue(u)), BurnHash(u), u.burn_address>>
    [] OTHER -> <<Zero, Zero, Zero, Zero, Zero>>

-----------------------------------------------------------------------------
(* The public inputs of a proof of a transaction.                           *)

DefaultPublicInput ==
  [input_commitments |-> <<Zero, Zero>>, output_commitments |-> <<Zero, Zero>>,
   messages |-> <<Zero, Zero, Zero, Zero, Zero>>]

(* to_bytes and fields: the public inputs in the order of the circuit.      *)
Fields(pi) == pi.input_commitments \o pi.output_commitments \o pi.messages

(* UtxoPublicInput::kind: the last byte of the first message.               *)
Kind(pi) == KindFrom(pi.messages[1][2])

CommitHash(pi) == hash_merge(pi.input_commitments \o pi.output_commitments)

IsPadding(pi) == Kind(pi) = "Null"

(* What the node and the contract read from the messages.                   *)
KindMessages(pi) ==
  CASE Kind(pi) = "Mint" ->
         [type |-> "Mint", note_kind |-> pi.messages[2], value |-> pi.messages[3],
          hash |-> pi.messages[4]]
    [] Kind(pi) \in {"Burn", "NoSub"} ->
         [type |-> "Burn", note_kind |-> pi.messages[2], value |-> pi.messages[3],
          hash |-> pi.messages[4], address |-> pi.messages[5]]
    [] OTHER -> [type |-> "None"]

-----------------------------------------------------------------------------
(* The circuit noir/utxo.                                                   *)

(* What barretenberg hands to it: the kind of a note is its contract, and   *)
(* the burn address is given twice, as the private and the public message.  *)
BNote(n) == [kind |-> n.contract, value |-> n.value, address |-> n.address, psi |-> n.psi]

BInputNote(i) == [note |-> BNote(i.note), secret_key |-> i.secret_key]

UtxoInput(u) ==
  [input_notes |-> [i \in 1..2 |-> BInputNote(u.input_notes[i])],
   output_notes |-> [i \in 1..2 |-> BNote(u.output_notes[i])],
   pmessage4 |-> Messages(u)[5],
   commitments |-> <<Commitment(u.input_notes[1].note), Commitment(u.input_notes[2].note),
                     Commitment(u.output_notes[1]), Commitment(u.output_notes[2])>>,
   messages |-> Messages(u)]

CheckCommitment(n, c) ==
  IF n.kind = Zero
    THEN n.value = Zero /\ c = Zero
    ELSE c = hash_merge(<<Num(2), n.kind, n.value, n.address, n.psi, Zero, Zero>>)

FitsValue(v) == v[2] < 2 ^ ValueBits

(* The notes that are not padding are all of one kind.                      *)
OneKind(notes) ==
  \A i, j \in DOMAIN notes : Zero \notin {notes[i].kind, notes[j].kind}
                               => notes[i].kind = notes[j].kind

CheckOwnership(i) ==
  i.note.value # Zero => get_address_for_private_key(i.secret_key) = i.note.address

(* Mutant: the values of the output notes are not bounded.                  *)
UtxoCircuitUnbounded(in) ==
  LET ins == in.input_notes
      outs == in.output_notes
      m == in.messages
      input_value == Plus(ins[1].note.value, ins[2].note.value)
      output_value == Plus(outs[1].value, outs[2].value)
  IN /\ \A i \in 1..2 : CheckCommitment(ins[i].note, in.commitments[i])
     /\ \A i \in 1..2 : CheckCommitment(outs[i], in.commitments[2 + i])
     /\ OneKind(<<ins[1].note, ins[2].note, outs[1], outs[2]>>)
     /\ FitsValue(m[3])
     /\ CASE m[1] = Num(1) -> input_value = output_value
          [] m[1] = Num(2) -> output_value = Plus(input_value, m[3])
          [] OTHER -> input_value = Plus(output_value, m[3])
     /\ \A i \in 1..2 : CheckOwnership(ins[i])

(* Every assertion of the circuit's main.                                   *)
UtxoCircuit(in) ==
  LET ins == in.input_notes
      outs == in.output_notes
      m == in.messages
      input_value == Plus(ins[1].note.value, ins[2].note.value)
      output_value == Plus(outs[1].value, outs[2].value)
  IN /\ \A i \in 1..2 : CheckCommitment(ins[i].note, in.commitments[i])
     /\ \A i \in 1..2 : CheckCommitment(outs[i], in.commitments[2 + i])
     /\ \A i \in 1..2 : FitsValue(outs[i].value)
     /\ OneKind(<<ins[1].note, ins[2].note, outs[1], outs[2]>>)
     /\ FitsValue(m[3])
     /\ \/ /\ m[1] = Num(1)
           /\ input_value = output_value
        \/ /\ m[1] = Num(2)
           /\ output_value = Plus(input_value, m[3])
           /\ m[4] = hash_merge(<<outs[1].psi, outs[2].psi>>)
           /\ m[2] = outs[1].kind
        \/ /\ m[1] \in {Num(3), Num(4)}
           /\ m[5] = in.pmessage4
           /\ m[4] = in.commitments[1]
           /\ input_value = Plus(output_value, m[3])
           /\ m[2] = ins[1].note.kind
     /\ \A i \in 1..2 : CheckOwnership(ins[i])

(* The public parameters of the circuit, in their order.                    *)
UtxoPublic(in) == in.commitments \o in.messages

(* prove: only a witness that satisfies the circuit gives a proof, which    *)
(* starts with the public inputs, and these are cut up again.               *)
CanProve(u) == UtxoCircuit(UtxoInput(u))

ProveUtxo(u) ==
  LET pub == UtxoPublic(UtxoInput(u))
  IN [input_commitments |-> SubSeq(pub, 1, 2),
      output_commitments |-> SubSeq(pub, 3, 4),
      messages |-> SubSeq(pub, 5, 9)]

(* verify: the proof is one for these public inputs.                        *)
VerifyUtxo(pi, in) == UtxoCircuit(in) /\ Fields(pi) = UtxoPublic(in)
=============================================================================
