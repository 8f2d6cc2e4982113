------------------------- MODULE SettlementInvariant -------------------------
(***************************************************************************)
(* The inductive invariant of the money of the rollup contract, and what   *)
(* follows from it for the burns of a block, for the value of the notes    *)
(* and for the deposits that wait.                                         *)
(*                                                                         *)
(* The laws of SumFunction and SumFunctionOnSet, which RollupV1 uses for   *)
(* amounts, come first.  They are proved without induction over data: a    *)
(* law that failed would fail for a smallest set, and strict inclusion     *)
(* between the subsets of a finite set is well founded.                    *)
(***************************************************************************)
EXTENDS RollupV1, Integers, Functions, FiniteSetTheorems, TLAPS

-----------------------------------------------------------------------------
(* The smallest of the numbers for which a law fails.                      *)
LEMMA SmallestNumber ==
  ASSUME NEW C, C \subseteq Nat, C # {}
  PROVE  \E n \in C : \A k \in C : ~ (k < n)
<1>1. PICK n \in C : \A k \in C : ~ (<<k, n>> \in OpToRel(<, Nat))
  BY NatLessThanWellFounded, WFMin, Zenon
<1> QED BY <1>1, Zenon DEF OpToRel

(* A nonempty collection of subsets of a finite set has a smallest one.    *)
LEMMA SmallestSubset ==
  ASSUME NEW S, IsFiniteSet(S), NEW C, C \subseteq SUBSET S, C # {}
  PROVE  \E s \in C : \A t \in C : t \subseteq s => t = s
<1>1. IsWellFoundedOn(StrictSubsetOrdering(S), SUBSET S)
  BY FS_StrictSubsetOrderingWellFounded, FS_FiniteSubsetsOfFinite, Zenon
<1>2. PICK s \in C : \A t \in C : ~ (<<t, s>> \in StrictSubsetOrdering(S))
  BY <1>1, WFMin, Zenon
<1>3. ASSUME NEW t \in C, t \subseteq s PROVE t = s
  BY <1>2, <1>3, Zenon DEF StrictSubsetOrdering
<1> QED BY <1>3, Zenon

First(s) == CHOOSE x \in s : TRUE

(* iter is what SumFunctionOnSet computes on the subsets of S.             *)
SumsUp(iter, f, S) ==
  iter = [s \in SUBSET S |-> IF s = {} THEN 0 ELSE f[First(s)] + iter[s \ {First(s)}]]

(* The definition of SumFunctionOnSet, its CHOOSE named.                   *)
LEMMA SumIsIter ==
  ASSUME NEW f, NEW S
  PROVE  SumFunctionOnSet(f, S) = (CHOOSE iter : SumsUp(iter, f, S))[S]
BY Zenon DEF SumFunctionOnSet, FoldFunctionOnSet, MapThenFoldSet, SumsUp, First

(* The element that the sum takes next is one of the set.                  *)
LEMMA FirstIn == ASSUME NEW s, s # {} PROVE First(s) \in s
BY Zenon DEF First

(* There is one such iter ...                                              *)
LEMMA SumUnique ==
  ASSUME NEW f, NEW S, IsFiniteSet(S), NEW T \in SUBSET S, NEW g, NEW h,
         SumsUp(g, f, S), SumsUp(h, f, T)
  PROVE  g[T] = h[T]
<1> DEFINE C == {s \in SUBSET T : g[s] # h[s]}
<1>1. SUFFICES ASSUME C # {} PROVE FALSE
  BY Zenon
<1>2. C \subseteq SUBSET S
  BY Zenon
<1>3. PICK s \in C : \A t \in C : t \subseteq s => t = s
  <2> HIDE DEF C
  <2> QED BY <1>1, <1>2, SmallestSubset
<1>4. s \in SUBSET T /\ s \in SUBSET S /\ g[s] # h[s]
  BY Zenon
<1>5. s # {}
  BY <1>4, Zenon DEF SumsUp
<1> DEFINE r == s \ {First(s)}
<1>6. r \subseteq s /\ r # s /\ r \in SUBSET T
  BY <1>4, <1>5, FirstIn, Zenon
<1>7. g[r] = h[r]
  BY <1>3, <1>6, Zenon
<1>8. g[s] = f[First(s)] + g[r] /\ h[s] = f[First(s)] + h[r]
  BY <1>4, <1>5, Zenon DEF SumsUp
<1> QED BY <1>4, <1>7, <1>8, Zenon

(* ... for a finite set.                                                   *)
LEMMA SumExists ==
  ASSUME NEW f, NEW S, IsFiniteSet(S)
  PROVE  \E g : SumsUp(g, f, S)
<1> DEFINE C == {s \in SUBSET S : ~ \E g : SumsUp(g, f, s)}
<1>1. SUFFICES ASSUME C # {} PROVE FALSE
  BY Zenon
<1>2. PICK t \in C : \A s \in C : s \subseteq t => s = t
  <2>1. C \subseteq SUBSET S
    BY Zenon
  <2> HIDE DEF C
  <2> QED BY <1>1, <2>1, SmallestSubset
<1> DEFINE of(s) == CHOOSE g : SumsUp(g, f, s)
           new == [s \in SUBSET t |-> IF s = {} THEN 0
                     ELSE f[First(s)] + of(s \ {First(s)})[s \ {First(s)}]]
<1>3. ASSUME NEW s \in SUBSET t, s # t PROVE SumsUp(of(s), f, s) /\ IsFiniteSet(s)
  <2>1. s \in SUBSET S /\ s \notin C
    BY <1>2, <1>3, Zenon
  <2>2. \E g : SumsUp(g, f, s)
    BY <2>1, Zenon
  <2>3. IsFiniteSet(s)
    BY <2>1, FS_Subset, Zenon
  <2> QED BY <2>2, <2>3, Zenon
<1> HIDE DEF of
<1>4. ASSUME NEW s \in SUBSET t, s # t PROVE new[s] = of(s)[s]
  <2>1. of(s) = [u \in SUBSET s |-> IF u = {} THEN 0 ELSE f[First(u)] + of(s)[u \ {First(u)}]]
    BY <1>3, <1>4, Zenon DEF SumsUp
  <2>2. CASE s = {}
    <3>1. of(s)[s] = 0
      BY <2>1, <2>2, Zenon
    <3> QED BY <2>2, <3>1, Zenon
  <2>3. CASE s # {}
    <3> DEFINE r == s \ {First(s)}
    <3>1. r \in SUBSET s /\ r \in SUBSET t /\ r # t
      BY <2>3, <1>4, Zenon
    <3>2. of(s)[r] = of(r)[r]
      BY <1>3, <1>4, <3>1, SumUnique
    <3>3. of(s)[s] = f[First(s)] + of(s)[r]
      BY <2>1, <2>3, Zenon
    <3>4. new[s] = f[First(s)] + of(r)[r]
      BY <2>3, Zenon
    <3> QED BY <3>2, <3>3, <3>4, Zenon
  <2> QED BY <2>2, <2>3, Zenon
<1>5. ASSUME NEW s \in SUBSET t, s # {}
      PROVE  new[s] = f[First(s)] + new[s \ {First(s)}]
  <2> DEFINE r == s \ {First(s)}
  <2>1. r \in SUBSET t /\ r # t
    BY <1>5, FirstIn, Zenon
  <2>2. new[r] = of(r)[r]
    BY <1>4, <2>1, Zenon
  <2>3. new[s] = f[First(s)] + of(r)[r]
    BY <1>5, Zenon
  <2> QED BY <2>2, <2>3, Zenon
<1>6. new[{}] = 0
  BY Zenon
<1>7. SumsUp(new, f, t)
  <2>1. \A s \in SUBSET t : new[s] = IF s = {} THEN 0 ELSE f[First(s)] + new[s \ {First(s)}]
    BY <1>5, <1>6, Zenon
  <2>2. new = [s \in SUBSET t |-> new[s]]
    BY Zenon
  <2> HIDE DEF new
  <2> QED BY <2>1, <2>2, Zenon DEF SumsUp
<1> QED BY <1>2, <1>7, Zenon

(* The sum as a recursion.                                                 *)
LEMMA SumRecursion ==
  ASSUME NEW f, NEW S, IsFiniteSet(S)
  PROVE  /\ SumFunctionOnSet(f, {}) = 0
         /\ S # {} => SumFunctionOnSet(f, S) = f[First(S)] + SumFunctionOnSet(f, S \ {First(S)})
<1> DEFINE of(s) == CHOOSE g : SumsUp(g, f, s)
<1>1. ASSUME NEW s \in SUBSET S
      PROVE  IsFiniteSet(s) /\ SumsUp(of(s), f, s) /\ SumFunctionOnSet(f, s) = of(s)[s]
  <2>1. IsFiniteSet(s)
    BY FS_Subset, Zenon
  <2>2. \E g : SumsUp(g, f, s)
    BY <2>1, SumExists, Zenon
  <2> QED BY <2>1, <2>2, SumIsIter, Zenon
<1> HIDE DEF of
<1>2. SumFunctionOnSet(f, {}) = 0
  <2>1. SumsUp(of({}), f, {}) /\ SumFunctionOnSet(f, {}) = of({})[{}]
    BY <1>1, Zenon
  <2> QED BY <2>1, Zenon DEF SumsUp
<1>3. ASSUME S # {}
      PROVE  SumFunctionOnSet(f, S) = f[First(S)] + SumFunctionOnSet(f, S \ {First(S)})
  <2> DEFINE r == S \ {First(S)}
  <2>1. r \in SUBSET S
    BY Zenon
  <2>2. of(S)[r] = of(r)[r]
    BY <1>1, <2>1, SumUnique
  <2>3. of(S)[S] = f[First(S)] + of(S)[r]
    <3>1. SumsUp(of(S), f, S)
      BY <1>1, Zenon
    <3> QED BY <1>3, <3>1, Zenon DEF SumsUp
  <2> QED BY <1>1, <2>1, <2>2, <2>3, Zenon
<1> QED BY <1>2, <1>3, Zenon

(* A sum of integers is an integer.                                        *)
LEMMA SumType ==
  ASSUME NEW S, IsFiniteSet(S), NEW f, \A x \in S : f[x] \in Int
  PROVE  SumFunctionOnSet(f, S) \in Int
<1> DEFINE C == {s \in SUBSET S : SumFunctionOnSet(f, s) \notin Int}
<1>1. SUFFICES ASSUME C # {} PROVE FALSE
  BY Zenon
<1>2. PICK s \in C : \A t \in C : t \subseteq s => t = s
  <2>1. C \subseteq SUBSET S
    BY Zenon
  <2> HIDE DEF C
  <2> QED BY <1>1, <2>1, SmallestSubset
<1>3. IsFiniteSet(s)
  BY FS_Subset, Zenon
<1>4. s # {}
  <2>1. SumFunctionOnSet(f, {}) = 0
    BY <1>3, SumRecursion, Zenon
  <2> QED BY <2>1
<1>5. First(s) \in s
  BY <1>4, FirstIn, Zenon
<1>6. SumFunctionOnSet(f, s \ {First(s)}) \in Int
  <2>1. s \ {First(s)} \notin C
    <3> HIDE DEF C
    <3> QED BY <1>2, <1>5, Zenon
  <2> QED BY <2>1, Zenon
<1>7. SumFunctionOnSet(f, s) = f[First(s)] + SumFunctionOnSet(f, s \ {First(s)})
  BY <1>3, <1>4, SumRecursion, Zenon
<1> QED BY <1>5, <1>6, <1>7

(* Any element may be taken out first.                                     *)
LEMMA SumRemove ==
  ASSUME NEW S, IsFiniteSet(S), NEW f, \A y \in S : f[y] \in Int, NEW x \in S
  PROVE  SumFunctionOnSet(f, S) = f[x] + SumFunctionOnSet(f, S \ {x})
<1> DEFINE sum(s) == SumFunctionOnSet(f, s)
           C == {s \in SUBSET S : \E y \in s : sum(s) # f[y] + sum(s \ {y})}
<1>1. SUFFICES ASSUME C # {} PROVE FALSE
  BY Zenon
<1>2. PICK s \in C : \A t \in C : t \subseteq s => t = s
  <2>1. C \subseteq SUBSET S
    BY Zenon
  <2> HIDE DEF C
  <2> QED BY <1>1, <2>1, SmallestSubset
<1>3. PICK y \in s : sum(s) # f[y] + sum(s \ {y})
  BY Zenon
<1> DEFINE z == First(s)
<1>4. z \in s /\ IsFiniteSet(s)
  BY FirstIn, FS_Subset, Zenon
<1>5. sum(s) = f[z] + sum(s \ {z})
  BY <1>4, SumRecursion, Zenon
<1>6. y # z
  BY <1>3, <1>5, Zenon
<1>7. /\ sum(s \ {z}) = f[y] + sum((s \ {z}) \ {y})
      /\ sum(s \ {y}) = f[z] + sum((s \ {y}) \ {z})
  <2>1. s \ {z} \notin C /\ s \ {y} \notin C
    <3> HIDE DEF C
    <3> QED BY <1>2, <1>4, Zenon
  <2>2. y \in s \ {z} /\ z \in s \ {y}
    BY <1>4, <1>6, Zenon
  <2> QED BY <2>1, <2>2, Zenon
<1>8. (s \ {z}) \ {y} = (s \ {y}) \ {z}
  BY Zenon
<1>9. sum((s \ {y}) \ {z}) \in Int
  BY <1>4, SumType, FS_Subset, Zenon
<1>10. f[y] \in Int /\ f[z] \in Int
  BY <1>4, Zenon
<1>11. \A a, b, c \in Int : a + (b + c) = b + (a + c)
  OBVIOUS
<1>12. sum(s) = f[z] + (f[y] + sum((s \ {y}) \ {z}))
  BY <1>5, <1>7, <1>8, Zenon
<1>13. sum(s) = f[y] + (f[z] + sum((s \ {y}) \ {z}))
  BY <1>9, <1>10, <1>11, <1>12, Zenon
<1> QED BY <1>3, <1>7, <1>13, Zenon

(* The sum of a set that is split in two.                                  *)
LEMMA SumUnion ==
  ASSUME NEW A, NEW B, IsFiniteSet(A), IsFiniteSet(B), A \cap B = {},
         NEW f, \A x \in A \cup B : f[x] \in Int
  PROVE  SumFunctionOnSet(f, A \cup B) = SumFunctionOnSet(f, A) + SumFunctionOnSet(f, B)
<1> DEFINE sum(s) == SumFunctionOnSet(f, s)
           C == {s \in SUBSET B : sum(A \cup s) # sum(A) + sum(s)}
<1>1. SUFFICES ASSUME C # {} PROVE FALSE
  BY Zenon
<1>2. PICK s \in C : \A t \in C : t \subseteq s => t = s
  <2>1. C \subseteq SUBSET B
    BY Zenon
  <2> HIDE DEF C
  <2> QED BY <1>1, <2>1, SmallestSubset
<1>3. IsFiniteSet(s) /\ IsFiniteSet(A \cup s) /\ s \subseteq B
  BY FS_Subset, FS_Union, Zenon
<1>4. sum(A) \in Int
  BY SumType, Zenon
<1>5. s # {}
  <2>1. sum({}) = 0
    BY FS_EmptySet, SumRecursion, Zenon
  <2>2. SUFFICES ASSUME s = {} PROVE FALSE
    BY Zenon
  <2>3. A \cup s = A
    BY <2>2, Zenon
  <2>4. sum(A \cup s) = sum(A) /\ sum(s) = 0
    BY <2>1, <2>2, <2>3, Zenon
  <2> QED BY <1>2, <1>4, <2>4
<1>6. PICK x \in s : TRUE
  BY <1>5, Zenon
<1> DEFINE r == s \ {x}
<1>7. sum(A \cup r) = sum(A) + sum(r)
  <2>1. r \notin C /\ r \in SUBSET B
    <3> HIDE DEF C
    <3> QED BY <1>2, <1>3, <1>6, Zenon
  <2> QED BY <2>1, Zenon
<1>8. sum(s) = f[x] + sum(r)
  BY <1>3, <1>6, SumRemove, Zenon
<1>9. sum(A \cup s) = f[x] + sum(A \cup r)
  <2>1. (A \cup s) \ {x} = A \cup r
    BY <1>3, Zenon
  <2> QED BY <1>3, <2>1, SumRemove
<1>10. sum(r) \in Int /\ f[x] \in Int
  BY <1>3, SumType, FS_Subset, Zenon
<1>11. sum(A \cup s) # sum(A) + sum(s)
  BY <1>2, Zenon
<1> HIDE DEF sum
<1> QED BY <1>4, <1>7, <1>8, <1>9, <1>10, <1>11

(* It depends on the summands only.                                        *)
LEMMA SumSame ==
  ASSUME NEW S, IsFiniteSet(S), NEW f, NEW g, \A x \in S : f[x] = g[x]
  PROVE  SumFunctionOnSet(f, S) = SumFunctionOnSet(g, S)
<1> DEFINE C == {s \in SUBSET S : SumFunctionOnSet(f, s) # SumFunctionOnSet(g, s)}
<1>1. SUFFICES ASSUME C # {} PROVE FALSE
  BY Zenon
<1>2. PICK s \in C : \A t \in C : t \subseteq s => t = s
  <2>1. C \subseteq SUBSET S
    BY Zenon
  <2> HIDE DEF C
  <2> QED BY <1>1, <2>1, SmallestSubset
<1>3. IsFiniteSet(s)
  BY FS_Subset, Zenon
<1>4. s # {}
  BY <1>3, SumRecursion, Zenon
<1>5. First(s) \in s
  BY <1>4, FirstIn, Zenon
<1>6. SumFunctionOnSet(f, s \ {First(s)}) = SumFunctionOnSet(g, s \ {First(s)})
  BY <1>2, <1>5
<1>7. /\ SumFunctionOnSet(f, s) = f[First(s)] + SumFunctionOnSet(f, s \ {First(s)})
      /\ SumFunctionOnSet(g, s) = g[First(s)] + SumFunctionOnSet(g, s \ {First(s)})
  BY <1>3, <1>4, SumRecursion, Zenon
<1> QED BY <1>5, <1>6, <1>7, Zenon

(* A sum of zeros is zero.                                                 *)
LEMMA SumOfZeros ==
  ASSUME NEW S, IsFiniteSet(S), NEW f, \A x \in S : f[x] = 0
  PROVE  SumFunctionOnSet(f, S) = 0
<1> DEFINE C == {s \in SUBSET S : SumFunctionOnSet(f, s) # 0}
<1>1. SUFFICES ASSUME C # {} PROVE FALSE
  BY Zenon
<1>2. PICK s \in C : \A t \in C : t \subseteq s => t = s
  <2>1. C \subseteq SUBSET S
    BY Zenon
  <2> HIDE DEF C
  <2> QED BY <1>1, <2>1, SmallestSubset
<1>3. IsFiniteSet(s) /\ s \subseteq S /\ SumFunctionOnSet(f, s) # 0
  BY FS_Subset, Zenon
<1>4. s # {}
  BY <1>3, SumRecursion, Zenon
<1>5. First(s) \in s
  BY <1>4, FirstIn, Zenon
<1>6. SumFunctionOnSet(f, s \ {First(s)}) = 0
  BY <1>2, <1>3, <1>5
<1>7. SumFunctionOnSet(f, s) = f[First(s)] + SumFunctionOnSet(f, s \ {First(s)})
  BY <1>3, <1>4, SumRecursion, Zenon
<1> QED BY <1>3, <1>5, <1>6, <1>7

-----------------------------------------------------------------------------
(* verifyBurn, for one message and for all of them.                        *)

(* The sum over a sequence of numbers grows by the item that is added.     *)
LEMMA SumPrefix ==
  ASSUME NEW n \in Nat, NEW f, \A j \in 1 .. n : f[j] \in Int
  PROVE  /\ SumFunctionOnSet(f, 1 .. 0) = 0
         /\ \A i \in 0 .. n : SumFunctionOnSet(f, 1 .. i) \in Int
         /\ \A i \in 1 .. n :
              SumFunctionOnSet(f, 1 .. i) = f[i] + SumFunctionOnSet(f, 1 .. (i - 1))
<1>1. SumFunctionOnSet(f, 1 .. 0) = 0
  <2>1. 1 .. 0 = {}
    OBVIOUS
  <2> QED BY <2>1, FS_EmptySet, SumRecursion, Zenon
<1>2. ASSUME NEW i \in 0 .. n
      PROVE  IsFiniteSet(1 .. i) /\ \A j \in 1 .. i : f[j] \in Int
  BY FS_Interval
<1>3. \A i \in 0 .. n : SumFunctionOnSet(f, 1 .. i) \in Int
  BY <1>2, SumType, Zenon
<1>4. ASSUME NEW i \in 1 .. n
      PROVE  SumFunctionOnSet(f, 1 .. i) = f[i] + SumFunctionOnSet(f, 1 .. (i - 1))
  <2>1. i \in 0 .. n /\ i \in 1 .. i /\ (1 .. i) \ {i} = 1 .. (i - 1)
    OBVIOUS
  <2> DEFINE S == 1 .. i
  <2>2. IsFiniteSet(S) /\ (\A j \in S : f[j] \in Int) /\ i \in S
    BY <1>2, <2>1, Zenon
  <2> HIDE DEF S
  <2>3. SumFunctionOnSet(f, S) = f[i] + SumFunctionOnSet(f, S \ {i})
    BY <2>2, SumRemove, Zenon
  <2> QED BY <2>1, <2>3, Zenon DEF S
<1> QED BY <1>1, <1>3, <1>4, Zenon

(* What the messages of a rollup change.                                   *)
Books == [balance : Nat, tvl : Nat, stuck : Nat,
          paid : [Burn -> SUBSET {"advance", "user", "substitutor", "failed"}]]

(* What of the balance is not stuck in the contract.                       *)
Kept(s) == s.balance - s.stuck

(* The books before and after burn x, when o tokens are owed.              *)
BurnSettled(s, t, x, o) ==
  /\ t \in Books
  /\ Kept(t) = Kept(s) - BurnAmount[x]
  /\ s.tvl = s.balance + o => t.tvl = t.balance + o
  /\ \A y \in Burn : y # x => t.paid[y] = s.paid[y]
  /\ \E y \in {"user", "substitutor", "failed"} :
       /\ t.paid[x] = s.paid[x] \cup {y}
       /\ y = "user" => substitutedBurns[x] = Nobody

(* One burn: its value leaves the contract or is left behind in it, the    *)
(* locked value follows the balance, and the burn is settled.              *)
LEMMA OneBurn ==
  ASSUME NEW s \in Books, NEW x \in Burn, NEW ok \in BOOLEAN, NEW feeOk \in BOOLEAN,
         burnFee \in Nat, NEW o \in Nat, NEW t, t = VerifyBurn(s, x, ok, feeOk)
  PROVE  BurnSettled(s, t, x, o)
<1> DEFINE v == BurnAmount[x]
           fee == ComputeBurnFee(v)
           success == ok /\ Payout(x) <= s.balance
           feePaid == fee > 0 /\ feeSink /\ feeOk /\ fee <= s.balance - Payout(x)
           leaving == Payout(x) + (IF feePaid THEN fee ELSE 0)
           to == IF substitutedBurns[x] = Nobody THEN "user" ELSE "substitutor"
<1>1. v \in Nat /\ fee \in Nat /\ fee <= v /\ Payout(x) \in Nat /\ Payout(x) + fee = v
  BY RollupV1Assumption DEF ComputeBurnFee, Payout
<1>2. /\ s.balance \in Nat /\ s.tvl \in Nat /\ s.stuck \in Nat
      /\ s.paid \in [Burn -> SUBSET {"advance", "user", "substitutor", "failed"}]
  BY Zenon DEF Books
<1>3. CASE success
  <2>1. t = [balance |-> s.balance - leaving, tvl |-> TvlAfter(s.tvl, x, leaving),
             stuck |-> s.stuck + (IF feePaid THEN 0 ELSE fee),
             paid |-> [s.paid EXCEPT ![x] = @ \cup {to}]]
    BY <1>3, Zenon DEF VerifyBurn
  <2>2. to \in {"user", "substitutor"} /\ (to = "user" => substitutedBurns[x] = Nobody)
    BY Zenon
  <2>3. /\ leaving \in Nat /\ leaving <= s.balance
        /\ leaving + (IF feePaid THEN 0 ELSE fee) = v
    BY <1>1, <1>2, <1>3
  <2>4. TvlAfter(s.tvl, x, leaving) \in Nat
    BY <1>2, <2>3 DEF TvlAfter
  <2>5. s.tvl = s.balance + o => TvlAfter(s.tvl, x, leaving) = s.balance - leaving + o
    BY <1>2, <2>3 DEF TvlAfter
  <2> DEFINE rest == IF feePaid THEN 0 ELSE fee
  <2>6. rest \in Nat /\ leaving + rest = v
    BY <1>1, <2>3, Zenon
  <2> HIDE DEF leaving, to, rest
  <2>7. t = [balance |-> s.balance - leaving, tvl |-> TvlAfter(s.tvl, x, leaving),
             stuck |-> s.stuck + rest, paid |-> [s.paid EXCEPT ![x] = @ \cup {to}]]
    BY <2>1, Zenon DEF rest
  <2>8. t \in Books
    BY <1>2, <2>2, <2>3, <2>4, <2>6, <2>7 DEF Books
  <2>9. t.balance - t.stuck = (s.balance - s.stuck) - v
    BY <1>1, <1>2, <2>3, <2>6, <2>7
  <2>10. /\ \A y \in Burn : y # x => t.paid[y] = s.paid[y]
         /\ t.paid[x] = s.paid[x] \cup {to}
    BY <1>2, <2>7
  <2>11. t.balance = s.balance - leaving /\ t.tvl = TvlAfter(s.tvl, x, leaving)
    BY <2>7
  <2> QED BY <2>2, <2>5, <2>8, <2>9, <2>10, <2>11, Zenon DEF BurnSettled, Kept, v
<1>4. CASE ~ success
  <2>1. t = [balance |-> s.balance, tvl |-> s.tvl, stuck |-> s.stuck + v,
             paid |-> [s.paid EXCEPT ![x] = @ \cup {"failed"}]]
    BY <1>4, Zenon DEF VerifyBurn
  <2>2. /\ t \in Books
        /\ t.balance = s.balance /\ t.tvl = s.tvl /\ t.stuck = s.stuck + v
        /\ t.paid = [s.paid EXCEPT ![x] = @ \cup {"failed"}]
    BY <1>1, <1>2, <2>1 DEF Books
  <2>3. t.balance - t.stuck = (s.balance - s.stuck) - v
    BY <1>1, <1>2, <2>2
  <2>4. /\ \A y \in Burn : y # x => t.paid[y] = s.paid[y]
        /\ t.paid[x] = s.paid[x] \cup {"failed"}
    BY <1>2, <2>2, Zenon
  <2> QED BY <2>2, <2>3, <2>4, Zenon DEF BurnSettled, Kept
<1> QED BY <1>3, <1>4, Zenon


(* after lists what VerifyBurns computes, message by message.              *)
Computes(after, start, xs, oks, feeOks, n) ==
  after = [i \in 0 .. n |->
             IF i = 0 THEN start
             ELSE VerifyBurn(after[i - 1], xs[i], xs[i] \in oks, xs[i] \in feeOks)]

(* The fold of VerifyBurns as a sequence of books, one after each burn.    *)
LEMMA BurnsComputed ==
  ASSUME NEW start, NEW xs \in Seq(Burn), NEW oks, NEW feeOks
  PROVE  \E after : /\ Computes(after, start, xs, oks, feeOks, Len(xs))
                    /\ VerifyBurns(start, xs, oks, feeOks) = after[Len(xs)]
<1> DEFINE Done(n) == \E g : Computes(g, start, xs, oks, feeOks, n)
           C == {n \in Nat : ~ Done(n)}
<1>1. Len(xs) \in Nat
  OBVIOUS
<1>2. ASSUME NEW n \in Nat, Done(n) PROVE Done(n + 1)
  <2>1. PICK g : Computes(g, start, xs, oks, feeOks, n)
    BY <1>2, Zenon
  <2> DEFINE step(p, i) == VerifyBurn(p, xs[i], xs[i] \in oks, xs[i] \in feeOks)
             h == [i \in 0 .. n + 1 |-> IF i = n + 1 THEN step(g[n], i) ELSE g[i]]
  <2>2. g = [i \in 0 .. n |-> IF i = 0 THEN start ELSE step(g[i - 1], i)]
    BY <2>1, Zenon DEF Computes
  <2> HIDE DEF step
  <2>3. \A i \in 0 .. n + 1 : h[i] = IF i = 0 THEN start ELSE step(h[i - 1], i)
    <3> SUFFICES ASSUME NEW i \in 0 .. n + 1
                 PROVE  h[i] = IF i = 0 THEN start ELSE step(h[i - 1], i)
      BY Zenon
    <3>1. CASE i = n + 1
      BY <3>1
    <3>2. CASE i \in 0 .. n /\ i # 0
      <4>1. i - 1 \in 0 .. n /\ i # n + 1 /\ i - 1 # n + 1
        BY <3>2
      <4> QED BY <2>2, <3>2, <4>1
    <3>3. CASE i = 0
      BY <2>2, <3>3
    <3> QED BY <3>1, <3>2, <3>3
  <2>4. h = [i \in 0 .. n + 1 |-> h[i]]
    BY Zenon
  <2> HIDE DEF h
  <2>5. h = [i \in 0 .. n + 1 |-> IF i = 0 THEN start ELSE step(h[i - 1], i)]
    BY <2>3, <2>4, Zenon
  <2> QED BY <2>5, Zenon DEF Computes, step
<1>3. Done(0)
  <2> DEFINE g == [i \in 0 .. 0 |-> start]
  <2>1. Computes(g, start, xs, oks, feeOks, 0)
    BY DEF Computes
  <2> QED BY <2>1, Zenon
<1> HIDE DEF Done
<1>4. C = {}
  <2>1. SUFFICES ASSUME C # {} PROVE FALSE
    BY Zenon
  <2>2. PICK n \in C : \A k \in C : ~ (k < n)
    <3>1. C \subseteq Nat
      BY Zenon
    <3> HIDE DEF C
    <3> QED BY <2>1, <3>1, SmallestNumber, Zenon
  <2>3. n # 0
    BY <1>3, Zenon
  <2>4. n - 1 \in Nat /\ Done(n - 1)
    BY <2>2, <2>3
  <2> QED BY <1>2, <2>4
<1>5. Done(Len(xs))
  BY <1>1, <1>4, Zenon
<1>6. VerifyBurns(start, xs, oks, feeOks)
        = (CHOOSE g : Computes(g, start, xs, oks, feeOks, Len(xs)))[Len(xs)]
  BY Zenon DEF VerifyBurns, Computes
<1> QED BY <1>5, <1>6, Zenon DEF Done

(* The burns xs[1 .. i] are settled on the way from a[0] to a[i].           *)
PaidUpTo(a, xs, i) ==
  /\ \A x \in Burn : (\A j \in 1 .. i : xs[j] # x) => a[i].paid[x] = a[0].paid[x]
  /\ \A j \in 1 .. i : \E y \in {"user", "substitutor", "failed"} :
       /\ a[i].paid[xs[j]] = a[0].paid[xs[j]] \cup {y}
       /\ y = "user" => substitutedBurns[xs[j]] = Nobody

SettledUpTo(a, xs, o, i) ==
  /\ a[i] \in Books
  /\ Kept(a[i]) = Kept(a[0]) - SumFunctionOnSet([j \in DOMAIN xs |-> BurnAmount[xs[j]]], 1 .. i)
  /\ a[0].tvl = a[0].balance + o => a[i].tvl = a[i].balance + o
  /\ PaidUpTo(a, xs, i)

(* The payments of one more burn.                                          *)
LEMMA PaidOneMore ==
  ASSUME NEW n \in Nat, NEW xs, \A j \in 1 .. n : xs[j] \in Burn,
         \A j, k \in 1 .. n : xs[j] = xs[k] => j = k,
         NEW a, NEW o, NEW i \in 1 .. n, PaidUpTo(a, xs, i - 1),
         BurnSettled(a[i - 1], a[i], xs[i], o)
  PROVE  PaidUpTo(a, xs, i)
<1> DEFINE s == a[i - 1]
           t == a[i]
           x == xs[i]
<1>1. /\ x \in Burn /\ i \in 1 .. i
      /\ \A j \in 1 .. i : j = i \/ j \in 1 .. (i - 1)
      /\ \A j \in 1 .. (i - 1) : j \in 1 .. i /\ xs[j] # x /\ xs[j] \in Burn
  OBVIOUS
<1>2. /\ \A y \in Burn : (\A j \in 1 .. (i - 1) : xs[j] # y) => s.paid[y] = a[0].paid[y]
      /\ \A j \in 1 .. (i - 1) : \E y \in {"user", "substitutor", "failed"} :
           /\ s.paid[xs[j]] = a[0].paid[xs[j]] \cup {y}
           /\ y = "user" => substitutedBurns[xs[j]] = Nobody
  BY Zenon DEF PaidUpTo
<1>3. /\ \A y \in Burn : y # x => t.paid[y] = s.paid[y]
      /\ \E y \in {"user", "substitutor", "failed"} :
           /\ t.paid[x] = s.paid[x] \cup {y}
           /\ y = "user" => substitutedBurns[x] = Nobody
  BY Zenon DEF BurnSettled
<1> HIDE DEF s, t, x
<1>4. ASSUME NEW y \in Burn, \A j \in 1 .. i : xs[j] # y PROVE t.paid[y] = a[0].paid[y]
  BY <1>1, <1>2, <1>3, <1>4, Zenon DEF x
<1>5. ASSUME NEW j \in 1 .. i
      PROVE  \E y \in {"user", "substitutor", "failed"} :
               /\ t.paid[xs[j]] = a[0].paid[xs[j]] \cup {y}
               /\ y = "user" => substitutedBurns[xs[j]] = Nobody
  <2>1. CASE j = i
    <3>1. s.paid[x] = a[0].paid[x]
      BY <1>1, <1>2, Zenon
    <3>2. xs[j] = x
      BY <2>1, Zenon DEF x
    <3> QED BY <1>3, <3>1, <3>2, Zenon
  <2>2. CASE j \in 1 .. (i - 1)
    <3>1. t.paid[xs[j]] = s.paid[xs[j]]
      BY <1>1, <1>3, <2>2, Zenon
    <3> QED BY <1>2, <2>2, <3>1, Zenon
  <2> QED BY <1>1, <2>1, <2>2, Zenon
<1> QED BY <1>4, <1>5, Zenon DEF PaidUpTo, t

(* All burns of a block are settled, each once, and their value leaves the *)
(* contract, to which o tokens are owed, or is left behind in it.          *)
SettlesBurns(start, xs, o, end) ==
  /\ end \in Books
  /\ end.balance - end.stuck =
       (start.balance - start.stuck) - SumFunction([i \in DOMAIN xs |-> BurnAmount[xs[i]]])
  /\ start.tvl = start.balance + o => end.tvl = end.balance + o
  /\ \A x \in Burn : x \notin Range(xs) => end.paid[x] = start.paid[x]
  /\ \A x \in Range(xs) : \E y \in {"user", "substitutor", "failed"} :
       /\ end.paid[x] = start.paid[x] \cup {y}
       /\ y = "user" => substitutedBurns[x] = Nobody

(* If each burn is settled right, so are the first n, for every n.         *)
LEMMA BurnsAddUp ==
  ASSUME NEW xs, NEW n \in Nat, DOMAIN xs = 1 .. n, \A j \in 1 .. n : xs[j] \in Burn,
         \A j, k \in 1 .. n : xs[j] = xs[k] => j = k,
         NEW a, NEW o, a[0] \in Books,
         \A i \in 1 .. n : a[i - 1] \in Books => BurnSettled(a[i - 1], a[i], xs[i], o)
  PROVE  SettledUpTo(a, xs, o, n)
<1> DEFINE f == [j \in DOMAIN xs |-> BurnAmount[xs[j]]]
<1>1. \A j \in 1 .. n : f[j] = BurnAmount[xs[j]]
  OBVIOUS
<1>0. \A j \in 1 .. n : f[j] \in Int
  BY <1>1, RollupV1Assumption
<1> HIDE DEF f
<1>2. /\ SumFunctionOnSet(f, 1 .. 0) = 0
      /\ \A i \in 0 .. n : SumFunctionOnSet(f, 1 .. i) \in Int
      /\ \A i \in 1 .. n : SumFunctionOnSet(f, 1 .. i) = f[i] + SumFunctionOnSet(f, 1 .. (i - 1))
  BY <1>0, SumPrefix, Zenon
<1>3. \A s \in Books : Kept(s) \in Int
  BY DEF Books, Kept
<1>4. SettledUpTo(a, xs, o, 0)
  <2>1. PaidUpTo(a, xs, 0)
    <3>1. 1 .. 0 = {}
      OBVIOUS
    <3> QED BY <3>1, Zenon DEF PaidUpTo
  <2>2. Kept(a[0]) = Kept(a[0]) - SumFunctionOnSet(f, 1 .. 0)
    BY <1>2, <1>3
  <2> QED BY <2>1, <2>2, Zenon DEF SettledUpTo, f
<1>5. ASSUME NEW i \in 1 .. n, SettledUpTo(a, xs, o, i - 1) PROVE SettledUpTo(a, xs, o, i)
  <2>1. i \in 0 .. n /\ i - 1 \in 0 .. n
    OBVIOUS
  <2>2. /\ a[i - 1] \in Books
        /\ Kept(a[i - 1]) = Kept(a[0]) - SumFunctionOnSet(f, 1 .. (i - 1))
        /\ a[0].tvl = a[0].balance + o => a[i - 1].tvl = a[i - 1].balance + o
        /\ PaidUpTo(a, xs, i - 1)
    BY <1>5, Zenon DEF SettledUpTo, f
  <2>3. BurnSettled(a[i - 1], a[i], xs[i], o)
    BY <2>2, Zenon
  <2>4. /\ a[i] \in Books
        /\ Kept(a[i]) = Kept(a[i - 1]) - BurnAmount[xs[i]]
        /\ a[i - 1].tvl = a[i - 1].balance + o => a[i].tvl = a[i].balance + o
    BY <2>3, Zenon DEF BurnSettled
  <2>5. Kept(a[i]) = Kept(a[0]) - SumFunctionOnSet(f, 1 .. i)
    <3>1. /\ Kept(a[0]) \in Int /\ Kept(a[i - 1]) \in Int /\ Kept(a[i]) \in Int
          /\ f[i] \in Int /\ SumFunctionOnSet(f, 1 .. (i - 1)) \in Int
          /\ f[i] = BurnAmount[xs[i]]
          /\ SumFunctionOnSet(f, 1 .. i) = f[i] + SumFunctionOnSet(f, 1 .. (i - 1))
      BY <1>0, <1>1, <1>2, <1>3, <2>1, <2>2, <2>4, Zenon
    <3> QED BY <2>2, <2>4, <3>1, SMTT(30)
  <2>6. PaidUpTo(a, xs, i)
    BY <2>2, <2>3, PaidOneMore, Zenon
  <2> QED BY <2>2, <2>4, <2>5, <2>6, Zenon DEF SettledUpTo, f
<1> DEFINE C == {i \in 0 .. n : ~ SettledUpTo(a, xs, o, i)}
<1>6. C = {}
  <2>1. SUFFICES ASSUME C # {} PROVE FALSE
    BY Zenon
  <2>2. PICK i \in C : \A k \in C : ~ (k < i)
    <3>1. C \subseteq Nat
      OBVIOUS
    <3> HIDE DEF C
    <3> QED BY <2>1, <3>1, SmallestNumber, Zenon
  <2>3. i \in 0 .. n /\ ~ SettledUpTo(a, xs, o, i) /\ i # 0
    BY <1>4, <2>2, Zenon
  <2>4. i \in 1 .. n /\ i - 1 \in 0 .. n /\ i - 1 < i
    BY <2>3
  <2>5. SettledUpTo(a, xs, o, i - 1)
    BY <2>2, <2>4, Zenon
  <2> QED BY <1>5, <2>3, <2>4, <2>5, Zenon
<1>7. n \in 0 .. n
  OBVIOUS
<1> QED BY <1>6, <1>7, Zenon

(* verifyBurns settles every burn of the block once and accounts for its   *)
(* value.                                                                  *)
LEMMA AllBurns ==
  ASSUME NEW start \in Books, NEW xs \in Seq(Burn), NEW oks, NEW feeOks, IsInjective(xs),
         burnFee \in Nat, NEW o \in Nat, NEW end, end = VerifyBurns(start, xs, oks, feeOks)
  PROVE  SettlesBurns(start, xs, o, end)
<1> DEFINE n == Len(xs)
           f == [i \in DOMAIN xs |-> BurnAmount[xs[i]]]
<1>1. PICK a : Computes(a, start, xs, oks, feeOks, n) /\ end = a[n]
  BY BurnsComputed, Zenon
<1>2. n \in Nat /\ DOMAIN xs = 1 .. n /\ \A i \in 1 .. n : xs[i] \in Burn
  OBVIOUS
<1> HIDE DEF n
<1>3. /\ a[0] = start
      /\ \A i \in 1 .. n : a[i] = VerifyBurn(a[i - 1], xs[i], xs[i] \in oks, xs[i] \in feeOks)
  BY <1>1, <1>2 DEF Computes
<1>4. ASSUME NEW i \in 1 .. n, a[i - 1] \in Books
      PROVE  BurnSettled(a[i - 1], a[i], xs[i], o)
  <2> DEFINE ok == xs[i] \in oks
             feeOk == xs[i] \in feeOks
  <2>1. ok \in BOOLEAN /\ feeOk \in BOOLEAN
    OBVIOUS
  <2>2. a[i] = VerifyBurn(a[i - 1], xs[i], ok, feeOk) /\ xs[i] \in Burn
    BY <1>2, <1>3, Zenon
  <2> HIDE DEF ok, feeOk
  <2> QED BY <1>4, <2>1, <2>2, OneBurn, Zenon
<1>5. \A j, k \in 1 .. n : xs[j] = xs[k] => j = k
  BY <1>2, Zenon DEF IsInjective
<1>6. SettledUpTo(a, xs, o, n)
  BY <1>2, <1>3, <1>4, <1>5, BurnsAddUp, Zenon
<1>7. SumFunction(f) = SumFunctionOnSet(f, 1 .. n)
  BY <1>2, Zenon DEF SumFunction, SumFunctionOnSet
<1>8. \A x : x \in Range(xs) <=> \E j \in 1 .. n : xs[j] = x
  BY <1>2, Zenon DEF Range
<1>9. PaidUpTo(a, xs, n)
  BY <1>6, Zenon DEF SettledUpTo
<1>10. \A x \in Burn : x \notin Range(xs) => end.paid[x] = start.paid[x]
  BY <1>1, <1>3, <1>8, <1>9, Zenon DEF PaidUpTo
<1>11. ASSUME NEW x \in Range(xs)
       PROVE  \E y \in {"user", "substitutor", "failed"} :
                /\ end.paid[x] = start.paid[x] \cup {y}
                /\ y = "user" => substitutedBurns[x] = Nobody
  <2>1. PICK j \in 1 .. n : xs[j] = x
    BY <1>8, Zenon
  <2> QED BY <1>1, <1>3, <1>9, <2>1, Zenon DEF PaidUpTo
<1> QED BY <1>1, <1>3, <1>6, <1>7, <1>10, <1>11, Zenon DEF SettlesBurns, SettledUpTo, Kept

Blocks == [mints : UNION {[ms -> Nat] : ms \in SUBSET Hash}, burns : Seq(Burn)]

(* No mint is claimed and no note is burnt twice, and the contract is not  *)
(* ahead of the blocks.                                                    *)
ChainOK ==
  /\ chain \in Seq(Blocks)
  /\ Len(chain) <= MaxHeight
  /\ blockHeight \in 0 .. Len(chain)
  /\ \A h \in DOMAIN chain : IsInjective(chain[h].burns)
  /\ \A h, k \in DOMAIN chain : h # k =>
       /\ Range(chain[h].burns) \cap Range(chain[k].burns) = {}
       /\ DOMAIN chain[h].mints \cap DOMAIN chain[k].mints = {}

RolledUp(x) == \E h \in 1 .. blockHeight : x \in Range(chain[h].burns)

(* Who has been paid for a burn, by how far it has come: an advance is for *)
(* a substitutor, and the settlement comes with the rollup.                *)
BurnsInStep ==
  \A x \in Burn :
    /\ "advance" \in paid[x] => substitutedBurns[x] # Nobody
    /\ ~ ({"advance", "user"} \subseteq paid[x])
    /\ IF RolledUp(x) THEN \E y : Settlements(x) = {y} ELSE Settlements(x) = {}

MoneyInv ==
  /\ RollupTypeOK /\ ChainOK /\ Conservation /\ TvlTracksTokens
  /\ BurnsInStep /\ BlocksCanBeSettled

-----------------------------------------------------------------------------
(* What the invariant says of the blocks.                                  *)

(* The types of a block and its value.                                     *)
LEMMA BlockFacts ==
  ASSUME NEW b \in Blocks
  PROVE  /\ DOMAIN b.mints \subseteq Hash /\ IsFiniteSet(DOMAIN b.mints)
         /\ \A m \in DOMAIN b.mints : b.mints[m] \in Nat
         /\ b.burns \in Seq(Burn)
         /\ BlockMintValue(b) \in Int /\ BlockBurnValue(b) \in Int /\ BlockValue(b) \in Int
<1>1. PICK ms \in SUBSET Hash : b.mints \in [ms -> Nat]
  BY Zenon DEF Blocks
<1>2. DOMAIN b.mints \subseteq Hash /\ \A m \in DOMAIN b.mints : b.mints[m] \in Nat
  BY <1>1, Zenon
<1>3. IsFiniteSet(DOMAIN b.mints)
  BY <1>2, FS_Subset, RollupV1Assumption, Zenon
<1>4. b.burns \in Seq(Burn)
  BY Zenon DEF Blocks
<1>5. BlockMintValue(b) \in Int
  BY <1>2, <1>3, SumType DEF BlockMintValue, SumFunction
<1>6. BlockBurnValue(b) \in Int
  <2> DEFINE f == [i \in DOMAIN b.burns |-> BurnAmount[b.burns[i]]]
  <2>1. IsFiniteSet(DOMAIN b.burns)
    BY <1>4, FS_Interval
  <2>2. \A i \in DOMAIN b.burns : f[i] \in Int
    BY <1>4, RollupV1Assumption
  <2>3. DOMAIN f = DOMAIN b.burns
    BY Zenon
  <2>4. BlockBurnValue(b) = SumFunctionOnSet(f, DOMAIN f)
    BY Zenon DEF BlockBurnValue, SumFunction
  <2> HIDE DEF f
  <2> QED BY <2>1, <2>2, <2>3, <2>4, SumType, Zenon
<1> QED BY <1>2, <1>3, <1>4, <1>5, <1>6 DEF BlockValue

(* The types of the chain.                                                 *)
LEMMA ChainFacts ==
  ASSUME ChainOK
  PROVE  /\ Len(chain) \in Nat /\ DOMAIN chain = 1 .. Len(chain) /\ blockHeight \in Nat
         /\ 1 .. blockHeight \subseteq DOMAIN chain
         /\ \A h \in DOMAIN chain : chain[h] \in Blocks
BY DEF ChainOK

(* The value of the notes does not depend on later blocks.                 *)
LEMMA NoteValueType ==
  ASSUME ChainOK, NEW h \in 0 .. Len(chain)
  PROVE  /\ IsFiniteSet(1 .. h)
         /\ \A k \in 1 .. h : k \in DOMAIN chain /\ BlockValue(chain[k]) \in Int
         /\ NoteValue(h) \in Int
<1> DEFINE f == [k \in DOMAIN chain |-> BlockValue(chain[k])]
<1>1. IsFiniteSet(1 .. h)
  BY ChainFacts, FS_Interval
<1>2. \A k \in 1 .. h : k \in DOMAIN chain /\ BlockValue(chain[k]) \in Int
  <2>1. \A k \in 1 .. h : k \in DOMAIN chain /\ chain[k] \in Blocks
    BY ChainFacts
  <2> QED BY <2>1, BlockFacts, Zenon
<1>3. \A k \in 1 .. h : f[k] \in Int
  BY <1>2, Zenon
<1>4. SumFunctionOnSet(f, 1 .. h) \in Int
  <2> HIDE DEF f
  <2> QED BY <1>1, <1>3, SumType, Zenon
<1>5. NoteValue(h) \in Int
  BY <1>4, RollupV1Assumption DEF NoteValue
<1> QED BY <1>1, <1>2, <1>5, Zenon

(* ... nor does it change over blocks without transactions.                *)
LEMMA NoteValueSkips ==
  ASSUME ChainOK, NEW h \in DOMAIN chain, h > blockHeight,
         \A k \in (blockHeight + 1) .. (h - 1) : IsEmpty(chain[k])
  PROVE  NoteValue(h) = NoteValue(blockHeight) + BlockValue(chain[h])
<1> DEFINE f == [k \in DOMAIN chain |-> BlockValue(chain[k])]
           A == 1 .. blockHeight
           B == (blockHeight + 1) .. (h - 1)
<1>1. /\ h \in Nat /\ blockHeight \in Nat /\ h \in 0 .. Len(chain) /\ h - 1 \in 0 .. Len(chain)
      /\ blockHeight \in 0 .. Len(chain) /\ h \in 1 .. h
  BY ChainFacts
<1>2. /\ IsFiniteSet(1 .. h) /\ IsFiniteSet(A) /\ IsFiniteSet(B)
      /\ \A k \in 1 .. h : k \in DOMAIN chain /\ f[k] \in Int
  <2>1. /\ IsFiniteSet(1 .. h) /\ IsFiniteSet(A)
        /\ \A k \in 1 .. h : k \in DOMAIN chain /\ f[k] \in Int
    BY <1>1, NoteValueType, Zenon
  <2>2. IsFiniteSet(B)
    BY <1>1, FS_Interval
  <2> QED BY <2>1, <2>2, Zenon
<1>3. /\ A \cap B = {} /\ A \cup B = (1 .. h) \ {h}
      /\ \A k \in A \cup B : k \in 1 .. h
  BY <1>1
<1>4. f[h] = BlockValue(chain[h])
  BY Zenon
<1>5. \A k \in B : f[k] = 0
  <2> SUFFICES ASSUME NEW k \in B PROVE BlockValue(chain[k]) = 0
    BY <1>1, <1>2
  <2> DEFINE b == chain[k]
  <2>1. DOMAIN b.mints = {} /\ b.burns = <<>>
    BY Zenon DEF IsEmpty
  <2>2. BlockMintValue(b) = 0
    BY <2>1, FS_EmptySet, SumRecursion, Zenon DEF BlockMintValue, SumFunction
  <2>3. BlockBurnValue(b) = 0
    <3> DEFINE g == [i \in DOMAIN b.burns |-> BurnAmount[b.burns[i]]]
    <3>1. DOMAIN g = {}
      BY <2>1
    <3>2. BlockBurnValue(b) = SumFunctionOnSet(g, DOMAIN g)
      BY Zenon DEF BlockBurnValue, SumFunction
    <3> HIDE DEF g
    <3> QED BY <3>1, <3>2, FS_EmptySet, SumRecursion, Zenon
  <2> QED BY <2>2, <2>3 DEF BlockValue
<1>6. SumFunctionOnSet(f, B) = 0
  <2> HIDE DEF B, f
  <2> QED BY <1>2, <1>5, SumOfZeros, Zenon
<1>7. SumFunctionOnSet(f, A) \in Int
  <2> HIDE DEF f, A, B
  <2> QED BY <1>2, <1>3, SumType, Zenon
<1>8. SumFunctionOnSet(f, 1 .. h) = f[h] + SumFunctionOnSet(f, A)
  <2>1. SumFunctionOnSet(f, 1 .. h) = f[h] + SumFunctionOnSet(f, A \cup B)
    <3> DEFINE S == 1 .. h
    <3>1. h \in S /\ IsFiniteSet(S) /\ (\A k \in S : f[k] \in Int) /\ A \cup B = S \ {h}
      BY <1>1, <1>2, <1>3, Zenon
    <3> HIDE DEF f, A, B, S
    <3>2. SumFunctionOnSet(f, S) = f[h] + SumFunctionOnSet(f, S \ {h})
      BY <3>1, SumRemove, Zenon
    <3> QED BY <3>1, <3>2, Zenon DEF S
  <2>2. SumFunctionOnSet(f, A \cup B) = SumFunctionOnSet(f, A) + SumFunctionOnSet(f, B)
    <3> HIDE DEF f, A, B
    <3> QED BY <1>2, <1>3, SumUnion, Zenon
  <2> QED BY <1>6, <1>7, <2>1, <2>2
<1>9. f[h] \in Int
  BY <1>1, <1>2, Zenon
<1>10. NoteValue(h) = OpeningBalance + SumFunctionOnSet(f, 1 .. h)
  BY Zenon DEF NoteValue
<1>11. NoteValue(blockHeight) = OpeningBalance + SumFunctionOnSet(f, A)
  BY Zenon DEF NoteValue
<1> HIDE DEF f, A
<1> QED BY <1>4, <1>7, <1>8, <1>9, <1>10, <1>11, RollupV1Assumption

-----------------------------------------------------------------------------
(* What each part of the invariant depends on.                             *)

(* ChainOK depends on the chain and the height only.                       *)
LEMMA ChainStays ==
  ASSUME ChainOK, UNCHANGED <<chain, blockHeight>>
  PROVE  ChainOK'
BY Zenon DEF ChainOK

(* BurnsInStep survives new substitutions of what is not settled.          *)
LEMMA BurnsStay ==
  ASSUME BurnsInStep, UNCHANGED <<chain, blockHeight, paid>>,
         \A x \in Burn : substitutedBurns[x] # Nobody => substitutedBurns'[x] # Nobody
  PROVE  BurnsInStep'
<1>1. \A x : (RolledUp(x) <=> RolledUp(x)') /\ Settlements(x)' = Settlements(x)
  BY Zenon DEF RolledUp, Settlements
<1> QED BY <1>1, Zenon DEF BurnsInStep

(* BlocksCanBeSettled depends on blocks, height and mints only.            *)
LEMMA SettleStays ==
  ASSUME BlocksCanBeSettled, UNCHANGED <<chain, blockHeight, mints>>
  PROVE  BlocksCanBeSettled'
BY Zenon DEF BlocksCanBeSettled, Unsettled, IsEmpty

(* The value of the notes depends on chain and height only.                *)
LEMMA NotesStay ==
  ASSUME UNCHANGED <<chain, blockHeight>>
  PROVE  NoteValue(blockHeight)' = NoteValue(blockHeight)
BY Zenon DEF NoteValue, BlockValue, BlockMintValue, BlockBurnValue

PendingValue == SumFunctionOnSet([m \in Hash |-> mints[m].amount], Pending)

(* The value of the waiting deposits depends on the mints only.            *)
LEMMA PendingStays ==
  ASSUME UNCHANGED mints
  PROVE  PendingValue' = PendingValue
BY Zenon DEF PendingValue, Pending

(* The waiting deposits are finitely many, of natural amounts.             *)
LEMMA PendingFacts ==
  ASSUME RollupTypeOK
  PROVE  /\ IsFiniteSet(Pending) /\ Pending \subseteq Hash
         /\ \A m \in Hash : /\ [k \in Hash |-> mints[k].amount][m] = mints[m].amount
                            /\ mints[m].amount \in Nat
         /\ PendingValue \in Int
<1>1. Pending \subseteq Hash
  BY Zenon DEF Pending
<1>2. IsFiniteSet(Pending)
  BY <1>1, FS_Subset, RollupV1Assumption, Zenon
<1> DEFINE f == [k \in Hash |-> mints[k].amount]
<1>3. \A m \in Hash : f[m] = mints[m].amount /\ mints[m].amount \in Nat
  BY Zenon DEF RollupTypeOK
<1>4. PendingValue \in Int
  <2>1. \A m \in Pending : f[m] \in Int
    BY <1>1, <1>3
  <2>2. PendingValue = SumFunctionOnSet(f, Pending)
    BY Zenon DEF PendingValue
  <2> HIDE DEF f
  <2> QED BY <1>2, <2>1, <2>2, SumType, Zenon
<1> QED BY <1>1, <1>2, <1>3, <1>4, Zenon

(* Conservation as one equation.                                           *)
LEMMA ConservationIs ==
  Conservation <=> balance + owed = NoteValue(blockHeight) + PendingValue + stuck
BY Zenon DEF Conservation, PendingValue

(* Moving tokens between what is held and what is owed conserves them.     *)
LEMMA ConservationStays ==
  ASSUME Conservation, UNCHANGED <<chain, blockHeight, mints, stuck>>,
         balance' + owed' = balance + owed
  PROVE  Conservation'
<1>1. NoteValue(blockHeight)' = NoteValue(blockHeight) /\ PendingValue' = PendingValue
  <2>1. UNCHANGED <<chain, blockHeight>> /\ UNCHANGED mints
    BY Zenon
  <2> QED BY <2>1, NotesStay, PendingStays, Zenon
<1>2. balance + owed = NoteValue(blockHeight) + PendingValue + stuck
  BY ConservationIs, Zenon
<1>3. (balance + owed)' = NoteValue(blockHeight)' + PendingValue' + stuck'
  BY <1>1, <1>2, Zenon
<1> QED BY <1>3, Zenon DEF Conservation, PendingValue

(* Arithmetic of a deposit, and of a rollup.                               *)
LEMMA Deposited ==
  ASSUME NEW b \in Nat, NEW o \in Nat, NEW n \in Int, NEW p \in Int, NEW s \in Nat,
         NEW v \in Nat, NEW c \in Nat, NEW q \in Nat,
         b + o = n + p + s, c + q = b + o + v
  PROVE  c + q = n + (p + v) + s
OBVIOUS

(* The arithmetic of a rollup: what leaves the contract leaves the notes.  *)
LEMMA Settled ==
  ASSUME NEW b \in Nat, NEW o \in Nat, NEW n \in Int, NEW p \in Int, NEW s \in Nat,
         NEW c \in Nat, NEW t \in Nat, NEW q \in Int, NEW m \in Int, NEW x \in Int,
         b + o = n + p + s, c - t = (b - s) - x, p = q + m
  PROVE  c + o = (n + (m - x)) + q + t
OBVIOUS

(* A deposit waits until it is claimed.                                    *)
LEMMA PendingGrows ==
  ASSUME RollupTypeOK, NEW m \in Hash, NEW v \in Nat, mints[m].amount = 0,
         mints' = [mints EXCEPT ![m] = [recorded |-> TRUE, amount |-> v, spent |-> FALSE]]
  PROVE  PendingValue' = PendingValue + v
<1> DEFINE f == [k \in Hash |-> mints[k].amount]
           g == [k \in Hash |-> mints'[k].amount]
           P == Pending
           Q == {k \in Hash : ~ mints'[k].spent}
           R == P \ {m}
<1>1. /\ \A k \in Hash : k # m => mints'[k] = mints[k]
      /\ mints'[m] = [recorded |-> TRUE, amount |-> v, spent |-> FALSE]
  BY Zenon DEF RollupTypeOK
<1>2. m \in Q /\ Q \ {m} = R /\ Q \subseteq Hash /\ P \subseteq Hash
  BY <1>1, SMTT(30) DEF Pending
<1>3. IsFiniteSet(P) /\ IsFiniteSet(Q) /\ IsFiniteSet(R)
  BY <1>2, FS_Subset, RollupV1Assumption, SMTT(30)
<1>4. /\ \A k \in Hash : f[k] \in Int
      /\ \A k \in Hash : k # m => g[k] = f[k]
      /\ f[m] = 0 /\ g[m] = v
  BY <1>1 DEF RollupTypeOK
<1>5. PendingValue = SumFunctionOnSet(f, P) /\ PendingValue' = SumFunctionOnSet(g, Q)
  BY Zenon DEF PendingValue, Pending
<1> HIDE DEF f, g, P, Q
<1>6. SumFunctionOnSet(g, Q) = v + SumFunctionOnSet(g, R)
  <2>1. \A k \in Q : g[k] \in Int
    BY <1>2, <1>4
  <2> QED BY <1>2, <1>3, <1>4, <2>1, SumRemove
<1>7. SumFunctionOnSet(f, P) = SumFunctionOnSet(f, R)
  <2>1. SumFunctionOnSet(f, R) \in Int
    BY <1>2, <1>3, <1>4, SumType, SMTT(30)
  <2>2. CASE m \in P
    <3>1. SumFunctionOnSet(f, P) = f[m] + SumFunctionOnSet(f, R)
      BY <1>2, <1>3, <1>4, <2>2, SumRemove
    <3> QED BY <1>4, <2>1, <3>1, SMTT(30)
  <2>3. CASE m \notin P
    <3>1. R = P
      BY <2>3, SMTT(30)
    <3> QED BY <3>1, Zenon
  <2> QED BY <2>2, <2>3, Zenon
<1>8. SumFunctionOnSet(g, R) = SumFunctionOnSet(f, R)
  BY <1>2, <1>3, <1>4, SumSame
<1>9. SumFunctionOnSet(f, R) \in Int
  BY <1>2, <1>3, <1>4, SumType, Zenon
<1> QED BY <1>5, <1>6, <1>7, <1>8, <1>9, SMTT(30)

(* The deposits that wait are those that waited, less what was claimed.    *)
LEMMA PendingClaimed ==
  ASSUME RollupTypeOK, NEW b \in Blocks, VerifyMints(b.mints)
  PROVE  /\ mints' \in [Hash -> [recorded : BOOLEAN, amount : Nat, spent : BOOLEAN]]
         /\ \A m \in Hash : m \notin DOMAIN b.mints => mints'[m] = mints[m]
         /\ PendingValue' \in Int
         /\ PendingValue = PendingValue' + BlockMintValue(b)
<1> DEFINE f == [k \in Hash |-> mints[k].amount]
           g == [k \in Hash |-> mints'[k].amount]
           D == DOMAIN b.mints
           Q == {k \in Hash : ~ mints'[k].spent}
<1>1. /\ \A m \in D : ~ mints[m].spent /\ mints[m].amount = b.mints[m]
      /\ mints' = [m \in Hash |-> IF m \in D THEN [mints[m] EXCEPT !.spent = TRUE] ELSE mints[m]]
  BY SMTT(30) DEF VerifyMints
<1>2. D \subseteq Hash /\ IsFiniteSet(D)
  BY BlockFacts, Zenon
<1>3. \A m \in Hash : /\ mints[m] \in [recorded : BOOLEAN, amount : Nat, spent : BOOLEAN]
                      /\ mints'[m] = IF m \in D THEN [mints[m] EXCEPT !.spent = TRUE] ELSE mints[m]
  BY <1>1, Zenon DEF RollupTypeOK
<1> HIDE DEF D
<1>4. ASSUME NEW m \in Hash
      PROVE  /\ mints'[m] \in [recorded : BOOLEAN, amount : Nat, spent : BOOLEAN]
             /\ mints'[m].amount = mints[m].amount
             /\ m \in D => mints'[m].spent
             /\ m \notin D => mints'[m] = mints[m]
  BY <1>3, Zenon
<1>5. mints' \in [Hash -> [recorded : BOOLEAN, amount : Nat, spent : BOOLEAN]]
  <2>1. mints' = [m \in Hash |-> mints'[m]]
    BY <1>1, Zenon
  <2> QED BY <1>4, <2>1, Zenon
<1>6. Pending = Q \cup D /\ Q \cap D = {} /\ Q \subseteq Hash
  <2>1. \A m \in Hash : m \in Pending <=> m \in Q \/ m \in D
    BY <1>1, <1>4, Zenon DEF Pending
  <2>2. Pending \subseteq Hash /\ Q \subseteq Hash
    BY Zenon DEF Pending
  <2>3. Q \cap D = {}
    BY <1>2, <1>4, SMTT(30)
  <2> HIDE DEF Q
  <2> QED BY <1>2, <2>1, <2>2, <2>3, Zenon
<1>7. IsFiniteSet(Q)
  <2> HIDE DEF Q
  <2> QED BY <1>6, FS_Subset, RollupV1Assumption, SMTT(30)
<1>8. PendingValue = SumFunctionOnSet(f, Pending) /\ PendingValue' = SumFunctionOnSet(g, Q)
  BY Zenon DEF PendingValue, Pending
<1>9. (\A k \in Hash : f[k] \in Int /\ f[k] = g[k]) /\ \A k \in D : f[k] = b.mints[k]
  BY <1>1, <1>2, <1>3, <1>4
<1>10. BlockMintValue(b) = SumFunctionOnSet(b.mints, D)
  BY Zenon DEF BlockMintValue, SumFunction, SumFunctionOnSet, FoldFunction, D
<1> HIDE DEF f, g, Q
<1>11. SumFunctionOnSet(f, Pending) = SumFunctionOnSet(f, Q) + SumFunctionOnSet(f, D)
  BY <1>2, <1>6, <1>7, <1>9, SumUnion, SMTT(30)
<1>12. SumFunctionOnSet(g, Q) = SumFunctionOnSet(f, Q)
  BY <1>6, <1>7, <1>9, SumSame, SMTT(30)
<1>13. SumFunctionOnSet(f, D) = SumFunctionOnSet(b.mints, D)
  BY <1>2, <1>9, SumSame, SMTT(30)
<1>14. SumFunctionOnSet(g, Q) \in Int
  BY <1>6, <1>7, <1>9, SumType, Zenon
<1> QED BY <1>4, <1>5, <1>8, <1>10, <1>11, <1>12, <1>13, <1>14, Zenon DEF D
=============================================================================
