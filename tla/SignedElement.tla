---------------------------- MODULE SignedElement ----------------------------
(* The integers of the element package: Element, an unsigned 256 bit number *)
(* (convert.rs), and SignedElement, a magnitude with a sign                  *)
(* (signed_element.rs).                                                      *)
(*                                                                           *)
(* A u64 has Bits bits here, an Element four times as many; its bytes are    *)
(* its four limbs.  The state is one accumulator that a caller computes      *)
(* with, next to the integer it should be.                                   *)
EXTENDS Integers, Sequences, SequencesExt

CONSTANT Bits      \* the bits of a u64

ASSUME BitsAssumption == Bits \in Nat \ {0}

VARIABLES acc,     \* the SignedElement computed with
          exact    \* the integer a caller takes it for

signedVars == <<acc, exact>>

Base == 2 ^ Bits

U64 == 0 .. Base - 1

I64 == -(2 ^ (Bits - 1)) .. 2 ^ (Bits - 1) - 1

I64Max == 2 ^ (Bits - 1) - 1

Elements == 0 .. Base ^ 4 - 1

-----------------------------------------------------------------------------
(* Element: words and bytes.                                                 *)

to_words(e) == <<e \div Base ^ 2, e % Base ^ 2>>

from_words(words) == words[1] * Base ^ 2 + words[2]

to_u64_array(e) ==
  LET words == to_words(e)
  IN  <<words[2] % Base, words[2] \div Base, words[1] % Base, words[1] \div Base>>

from_u64_array(arr) ==
  from_words(<<arr[3] + arr[4] * Base, arr[1] + arr[2] * Base>>)

(* The bytes are those of U256, most significant first or last.              *)
to_le_bytes(e) == [i \in 1 .. 4 |-> (e \div Base ^ (i - 1)) % Base]

from_le_bytes(bytes) ==
  bytes[1] + bytes[2] * Base + bytes[3] * Base ^ 2 + bytes[4] * Base ^ 3

to_be_bytes(e) == Reverse(to_le_bytes(e))

from_be_bytes(bytes) == from_le_bytes(Reverse(bytes))

decompose_be(e) ==
  LET bytes == to_be_bytes(e)
  IN  << from_be_bytes(<<0, 0>> \o SubSeq(bytes, 1, 2)),
         from_be_bytes(<<0, 0>> \o SubSeq(bytes, 3, 4)) >>

decompose_le(e) ==
  LET bytes == to_le_bytes(e)
  IN  << from_le_bytes(SubSeq(bytes, 3, 4) \o <<0, 0>>),
         from_le_bytes(SubSeq(bytes, 1, 2) \o <<0, 0>>) >>

-----------------------------------------------------------------------------
(* SignedElement.                                                            *)

(* new: a zero is never negative.                                            *)
new(value, negative) == [value |-> value, negative |-> negative /\ value # 0]

ZERO == new(0, FALSE)

from_element(e) == new(e, FALSE)

from_i64(i) == IF i < 0 THEN new(-i, TRUE) ELSE new(i, FALSE)

neg(a) == IF a.value = 0 THEN a ELSE new(a.value, ~a.negative)

(* Mutant: the difference takes the sign of the left operand.                *)
add_left_sign(a, b) ==
  CASE a.negative = b.negative -> new(a.value + b.value, a.negative)
    [] a.value >= b.value      -> new(a.value - b.value, a.negative)
    [] OTHER                   -> new(b.value - a.value, a.negative)

add(a, b) ==
  CASE a.negative = b.negative -> new(a.value + b.value, a.negative)
    [] a.value = b.value       -> ZERO
    [] a.value > b.value       -> new(a.value - b.value, a.negative)
    [] OTHER                   -> new(b.value - a.value, b.negative)

sub(a, b) == add(a, neg(b))

mul(a, b) == new(a.value * b.value, a.negative # b.negative)

div(a, b) == new(a.value \div b.value, a.negative # b.negative)

(* Orderings are -1, 0 and 1.                                                *)
cmp_element(v, w) == IF v < w THEN -1 ELSE IF v = w THEN 0 ELSE 1

cmp(a, b) ==
  CASE ~a.negative /\ ~b.negative -> cmp_element(a.value, b.value)
    [] a.negative /\ b.negative   -> cmp_element(b.value, a.value)
    [] a.negative                 -> -1
    [] OTHER                      -> 1

(* partial_cmp with an Element or a u64.                                     *)
partial_cmp_element(a, e) == IF a.negative THEN -1 ELSE cmp_element(a.value, e)

(* partial_cmp with an i64: between negative numbers, the magnitude is cut   *)
(* to 64 bits before it is compared.                                         *)
partial_cmp_i64(a, i) ==
  CASE i < 0 /\ a.negative  -> -cmp_element(a.value % Base, -i)
    [] i < 0 /\ ~a.negative -> 1
    [] OTHER                -> partial_cmp_element(a, i)

eq_element(a, e) == ~a.negative /\ a.value = e

eq_i64(a, i) == a.negative = (i < 0) /\ a.value = (IF i < 0 THEN -i ELSE i)

fits_in_i64(a) == a.value <= I64Max

to_i64(a) == IF a.negative THEN -a.value ELSE a.value

-----------------------------------------------------------------------------
(* A caller computes.  An operand is an Element or a u64, an i64, or another *)
(* SignedElement.                                                            *)

Operands ==
  {from_element(e) : e \in Elements} \cup {from_i64(i) : i \in I64}
    \cup {neg(from_element(e)) : e \in Elements}

IntOf(a) == IF a.negative THEN -a.value ELSE a.value

(* The quotient of the magnitudes, rounded towards zero.                     *)
Quotient(m, n) ==
  LET abs(k) == IF k < 0 THEN -k ELSE k
      q == abs(m) \div abs(n)
  IN  IF (m < 0) = (n < 0) THEN q ELSE -q

SignedInit ==
  /\ acc = ZERO
  /\ exact = 0

(* The 256 bits overflow: a build with checks panics and leaves the          *)
(* accumulator as it was, a release build wraps.                             *)
Overflow(result) ==
  \/ UNCHANGED signedVars
  \/ /\ acc' = new(result.value % Base ^ 4, result.negative)
     /\ exact' = IntOf(acc')

Store(result, integer) ==
  IF result.value \in Elements
    THEN acc' = result /\ exact' = integer
    ELSE Overflow(result)

Adds(b) == Store(add(acc, b), exact + IntOf(b))

Subtracts(b) == Store(sub(acc, b), exact - IntOf(b))

Multiplies(b) == Store(mul(acc, b), exact * IntOf(b))

(* A division by zero panics.                                                *)
Divides(b) ==
  /\ b.value # 0
  /\ Store(div(acc, b), Quotient(exact, IntOf(b)))

Negates == Store(neg(acc), -exact)

SignedNext ==
  \/ \E b \in Operands :
       Adds(b) \/ Subtracts(b) \/ Multiplies(b) \/ Divides(b)
  \/ Negates

SignedSpec == SignedInit /\ [][SignedNext]_signedVars

-----------------------------------------------------------------------------
(* However it was computed, the accumulator is the integer it should be,     *)
(* with one representation of zero; it compares with every Element, u64,     *)
(* i64 and SignedElement as that integer does; it converts to an i64         *)
(* exactly, for every integer of a magnitude below 2^63; and a magnitude     *)
(* survives its words, limbs, bytes and halves (signed_element.rs,           *)
(* convert.rs).  A comparison with a negative i64 is only right for a        *)
(* magnitude that fits a u64.                                                *)
SignedIsInteger ==
  /\ IntOf(acc) = exact
  /\ acc.value = 0 => acc = ZERO
  /\ \A b \in Operands : cmp(acc, b) = cmp_element(exact, IntOf(b))
  /\ \A e \in Elements :
       /\ partial_cmp_element(acc, e) = cmp_element(exact, e)
       /\ eq_element(acc, e) <=> exact = e
  /\ \A i \in I64 :
       /\ acc.value \in U64 => partial_cmp_i64(acc, i) = cmp_element(exact, i)
       /\ eq_i64(acc, i) <=> exact = i
       /\ i # -(2 ^ (Bits - 1)) /\ exact = i => fits_in_i64(acc)
  /\ fits_in_i64(acc) => to_i64(acc) = exact
  /\ LET v == acc.value
     IN  /\ from_words(to_words(v)) = v
         /\ from_u64_array(to_u64_array(v)) = v
         /\ from_le_bytes(to_le_bytes(v)) = v
         /\ from_be_bytes(to_be_bytes(v)) = v
         /\ decompose_be(v) = decompose_le(v)
         /\ from_words(decompose_be(v)) = v
=============================================================================
