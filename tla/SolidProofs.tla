----------------------------- MODULE SolidProofs -----------------------------
(***************************************************************************)
(* The validators of Solid agree on the proposals they commit, for every   *)
(* number of validators, either threshold, every order of leaders, and any *)
(* loss, delay or duplication of messages.                                 *)
(*                                                                         *)
(* The network forgets nothing, but a leader keeps its own accept to       *)
(* itself and its cache is purged.  So the invariant speaks of the set H   *)
(* of all accepts ever made, which some set is in every state: the proof   *)
(* carries it along as the history variable the specification has not.     *)
(***************************************************************************)
EXTENDS Solid, FiniteSetTheorems, TLAPS

-----------------------------------------------------------------------------
(* The inductive invariant.                                                *)

Names == Seq(Nat)

Accepts == [prop : Names, skips : 0 .. MaxSkips, from : Validator]

(* The proposals made, genesis included.                                   *)
Proposed == {<<>>} \cup {p \in Names : [prop |-> p] \in network}

Backers(H, p, k) == {v \in Validator : ProposalAccept(p, k, v) \in H}

Voters(H, p) == {v \in Validator : \E k \in Nat : ProposalAccept(p, k, v) \in H}

(* Those that gave up the proposal of skip j on p.                         *)
Beyond(H, p, j) == {v \in Validator : \E k \in Nat : k > j /\ ProposalAccept(p, k, v) \in H}

Certified(H, p, k) == Cardinality(Backers(H, p, k)) >= Threshold

(* p can be proposed: it is built on a proposal and carries its accepts.   *)
Backed(H, P, p) ==
  p \in Names /\ p # <<>> /\ LastHash(p) \in P /\ Skips(p) \in 0 .. MaxSkips
  /\ Certified(H, LastHash(p), Skips(p))

(* Of the proposal of skip j on p one of three is true.  A threshold of    *)
(* validators accepted it and did not give it up; or so many gave it up    *)
(* without accepting it that it will never have a threshold; or nobody did *)
(* both.                                                                   *)
Locked(H, p, j) ==
  \E x \in Nat : Cardinality(Backers(H, Append(p, j), x) \ Beyond(H, p, j)) >= Threshold

Abandoned(H, p, j) ==
  Cardinality(Beyond(H, p, j) \ Voters(H, Append(p, j))) > Cardinality(Validator) - Threshold

Undecided(H, p, j) == Voters(H, Append(p, j)) \cap Beyond(H, p, j) = {}

LockOK(H) == \A p \in Names, j \in Nat : Locked(H, p, j) \/ Abandoned(H, p, j) \/ Undecided(H, p, j)

(* The accepts H and the proposals P that were ever made.                  *)
TreeOK(P) ==
  /\ P \subseteq Names /\ <<>> \in P
  /\ \A p \in P : Len(p) <= MaxHeight /\ Skips(p) \in 0 .. MaxSkips
  /\ \A p \in P : \A i \in 0 .. Len(p) : SubSeq(p, 1, i) \in P

WorldOK(H, P) ==
  /\ H \subseteq Accepts
  /\ TreeOK(P)
  /\ \A p \in P : p = <<>> \/ Backed(H, P, p)
  /\ \A a \in H : a.prop \in P
  /\ LockOK(H)

(* The core s of v: its cache holds proposals; skips_sent is the highest   *)
(* skip v accepted; v accepted nothing above its next height, and what it  *)
(* accepted is in the cache unless it is confirmed or beaten; and the      *)
(* confirmed proposal has a successor.                                     *)
IsCore(s) ==
  /\ s = [confirmed |-> s.confirmed, sent |-> s.sent, accepts |-> s.accepts,
          maxHeight |-> s.maxHeight]
  /\ s.sent = [p \in DOMAIN s.sent |-> s.sent[p]]

SentOK(s, v, H) ==
  \A p \in DOMAIN s.sent :
    \/ s.sent[p] = NotSent
    \/ s.sent[p] \in 0 .. MaxSkips /\ ProposalAccept(p, s.sent[p], v) \in H

VotesOK(s, v, H) ==
  \A a \in H : a.from = v =>
    IF a.prop \in DOMAIN s.sent
    THEN Len(a.prop) <= Height(s) + 1 /\ a.skips <= s.sent[a.prop]
    ELSE Len(a.prop) <= Height(s)

LocalOK(s, v, H, P) ==
  /\ IsCore(s)
  /\ s.confirmed \in DOMAIN s.sent
  /\ DOMAIN s.sent \subseteq P
  /\ s.accepts \subseteq H
  /\ s.confirmed = <<>> \/ \E k \in Nat : Append(s.confirmed, k) \in P
  /\ SentOK(s, v, H)
  /\ VotesOK(s, v, H)

(* Nothing is left to commit.                                              *)
SettledOK(s) == \A p \in Pending(s) : Len(p) <= Height(s) + 1

NodesOK(H, P) ==
  /\ core = [v \in Validator |-> core[v]]
  /\ proposing = [v \in Validator |-> proposing[v]]
  /\ \A v \in Validator :
       /\ LocalOK(core[v], v, H, P)
       /\ SettledOK(core[v])
       /\ proposing[v] \in Seq(Names)
       /\ \A i \in 1 .. Len(proposing[v]) : Backed(H, P, proposing[v][i])

Invariant(H) ==
  /\ network \subseteq {[prop |-> p] : p \in Names} \cup H
  /\ WorldOK(H, Proposed)
  /\ NodesOK(H, Proposed)

SolidInv == \E H : Invariant(H)

-----------------------------------------------------------------------------
(* Numbers and names.                                                      *)

(* A set of numbers has a smallest one.                                    *)
LEMMA SmallestNumber ==
  ASSUME NEW C, C \subseteq Nat, C # {}
  PROVE  \E n \in C : \A k \in C : ~ (k < n)
<1>1. PICK n \in C : \A k \in C : ~ (<<k, n>> \in OpToRel(<, Nat))
  BY NatLessThanWellFounded, WFMin, Zenon
<1> QED BY <1>1, Zenon DEF OpToRel

(* A bounded one has a greatest one.                                       *)
LEMMA GreatestNumber ==
  ASSUME NEW n \in Nat, NEW D, D \subseteq 0 .. n, D # {}
  PROVE  \E h \in D : \A g \in D : g <= h
<1> DEFINE C == {n - h : h \in D}
<1>1. C \subseteq Nat /\ C # {}
  <2>1. \A h \in D : h \in Nat /\ n - h \in Nat
    OBVIOUS
  <2>2. C \subseteq Nat
    BY <2>1, Zenon
  <2> QED BY <2>2, Zenon
<1>2. PICK d \in C : \A k \in C : ~ (k < d)
  <2> HIDE DEF C
  <2> QED BY <1>1, SmallestNumber, Zenon
<1>3. PICK h \in D : d = n - h
  BY <1>2, Zenon
<1>4. ASSUME NEW g \in D PROVE g <= h
  <2>1. n - g \in C
    BY Zenon
  <2>2. ~ (n - g < n - h)
    BY <1>2, <1>3, <2>1, Zenon
  <2>3. g \in Nat /\ h \in Nat
    OBVIOUS
  <2> QED BY <2>2, <2>3
<1> QED BY <1>4, Zenon

(* Names are equal when their elements are.                                *)
LEMMA SameName ==
  ASSUME NEW p \in Names, NEW q \in Names, Len(p) = Len(q), \A i \in 1 .. Len(p) : p[i] = q[i]
  PROVE  p = q
<1>1. ASSUME NEW s \in Names PROVE s = [i \in 1 .. Len(s) |-> s[i]]
  BY DEF Names
<1>2. p = [i \in 1 .. Len(p) |-> p[i]] /\ q = [i \in 1 .. Len(p) |-> q[i]]
  BY <1>1
<1> QED BY <1>2

(* The ancestors of a proposal.                                            *)
LEMMA Prefix ==
  ASSUME NEW p \in Names, NEW i \in 0 .. Len(p)
  PROVE  /\ SubSeq(p, 1, i) \in Names
         /\ Len(SubSeq(p, 1, i)) = i
         /\ \A j \in 1 .. i : SubSeq(p, 1, i)[j] = p[j]
<1>1. SubSeq(p, 1, i) \in Names
  BY DEF Names
<1>2. Len(SubSeq(p, 1, i)) = i
  BY DEF Names
<1>3. \A j \in 1 .. i : SubSeq(p, 1, i)[j] = p[j]
  BY DEF Names
<1> QED BY <1>1, <1>2, <1>3, Zenon

(* The beginnings of a name are the names of the proposals below it.       *)
LEMMA Prefixes ==
  ASSUME NEW p \in Names, NEW i \in 0 .. Len(p)
  PROVE  /\ SubSeq(p, 1, i) \in Names
         /\ Len(SubSeq(p, 1, i)) = i
         /\ SubSeq(p, 1, Len(p)) = p
         /\ \A j \in 0 .. i : SubSeq(SubSeq(p, 1, i), 1, j) = SubSeq(p, 1, j)
<1> DEFINE q == SubSeq(p, 1, i)
<1>1. q \in Names /\ Len(q) = i /\ \A j \in 1 .. i : q[j] = p[j]
  BY Prefix, Zenon
<1> HIDE DEF q
<1>2. SubSeq(p, 1, Len(p)) = p
  BY DEF Names
<1>3. ASSUME NEW j \in 0 .. i PROVE SubSeq(q, 1, j) = SubSeq(p, 1, j)
  <2> DEFINE a == SubSeq(q, 1, j)
             b == SubSeq(p, 1, j)
  <2>1. j \in 0 .. Len(p) /\ j \in 0 .. Len(q)
    BY <1>1 DEF Names
  <2>2. a \in Names /\ Len(a) = j /\ \A l \in 1 .. j : a[l] = q[l]
    BY <1>1, <2>1, Prefix, Zenon
  <2>3. b \in Names /\ Len(b) = j /\ \A l \in 1 .. j : b[l] = p[l]
    BY <2>1, Prefix, Zenon
  <2> HIDE DEF a, b
  <2>4. \A l \in 1 .. j : l \in 1 .. i
    OBVIOUS
  <2>5. \A l \in 1 .. Len(a) : a[l] = b[l]
    BY <1>1, <2>2, <2>3, <2>4, Zenon
  <2>6. a = b
    BY <2>2, <2>3, <2>5, SameName, Zenon
  <2> QED BY <2>6, Zenon DEF a, b
<1> QED BY <1>1, <1>2, <1>3, Zenon DEF q

(* What a proposal is built on, and its skips, name it.                    *)
LEMMA Built ==
  ASSUME NEW p \in Names, NEW k \in Nat
  PROVE  /\ Append(p, k) \in Names
         /\ Append(p, k) # <<>>
         /\ Len(Append(p, k)) = Len(p) + 1
         /\ LastHash(Append(p, k)) = p
         /\ Skips(Append(p, k)) = k
<1> DEFINE q == Append(p, k)
<1>1. Len(p) \in Nat
  BY DEF Names
<1>2. q \in Names /\ q # <<>> /\ Len(q) = Len(p) + 1
  <2>1. q \in Names /\ Len(q) = Len(p) + 1
    BY DEF Names
  <2>2. Len(q) # 0 /\ Len(<<>>) = 0
    BY <1>1, <2>1
  <2> QED BY <2>1, <2>2, Zenon
<1>3. (\A i \in 1 .. Len(p) : q[i] = p[i]) /\ q[Len(p) + 1] = k
  BY DEF Names
<1> HIDE DEF q
<1>4. Skips(q) = k
  BY <1>2, <1>3, Zenon DEF Skips
<1> DEFINE r == LastHash(q)
<1>5. r \in Names /\ Len(r) = Len(p) /\ \A i \in 1 .. Len(p) : r[i] = q[i]
  <2>1. Len(q) - 1 = Len(p) /\ Len(p) \in 0 .. Len(q)
    BY <1>1, <1>2
  <2>2. r = SubSeq(q, 1, Len(p))
    BY <2>1, Zenon DEF LastHash
  <2> HIDE DEF r
  <2> QED BY <1>2, <2>1, <2>2, Prefix, Zenon
<1> HIDE DEF r
<1>6. \A i \in 1 .. Len(r) : r[i] = p[i]
  BY <1>3, <1>5, Zenon
<1>7. r = p
  BY <1>5, <1>6, SameName, Zenon
<1> QED BY <1>2, <1>4, <1>7, Zenon DEF q, r

(* A name is that of its parent with the skips of the proposal.            *)
LEMMA Parent ==
  ASSUME NEW p \in Names, p # <<>>
  PROVE  /\ LastHash(p) \in Names
         /\ Len(p) \in Nat /\ Len(p) > 0
         /\ Len(LastHash(p)) = Len(p) - 1
         /\ Skips(p) \in Nat
         /\ p = Append(LastHash(p), Skips(p))
<1> DEFINE q == LastHash(p)
           k == p[Len(p)]
           r == Append(q, k)
<1>1. Len(p) \in Nat /\ Len(p) > 0 /\ Len(p) - 1 \in 0 .. Len(p) /\ k \in Nat
  BY DEF Names
<1>2. Skips(p) = k
  BY Zenon DEF Skips
<1>3. q \in Names /\ Len(q) = Len(p) - 1 /\ \A j \in 1 .. Len(p) - 1 : q[j] = p[j]
  BY <1>1, Prefix, Zenon DEF LastHash
<1> HIDE DEF q, k
<1>4. r \in Names /\ Len(r) = Len(q) + 1
  BY <1>1, <1>3, Built, Zenon
<1>5. (\A i \in 1 .. Len(q) : r[i] = q[i]) /\ r[Len(q) + 1] = k
  BY <1>1, <1>3 DEF Names
<1> HIDE DEF r
<1>6. ASSUME NEW i \in 1 .. Len(r) PROVE r[i] = p[i]
  <2>1. i = Len(p) \/ i \in 1 .. Len(p) - 1
    BY <1>1, <1>3, <1>4
  <2>2. CASE i = Len(p)
    <3>1. Len(q) + 1 = Len(p)
      BY <1>1, <1>3
    <3> QED BY <1>5, <2>2, <3>1, Zenon DEF k
  <2>3. CASE i \in 1 .. Len(p) - 1
    BY <1>3, <1>5, <2>3, Zenon
  <2> QED BY <2>1, <2>2, <2>3, Zenon
<1>7. Len(r) = Len(p)
  BY <1>1, <1>3, <1>4
<1>8. r = p
  BY <1>4, <1>6, <1>7, SameName, Zenon
<1> QED BY <1>1, <1>2, <1>3, <1>8, Zenon DEF q, r

(* The successors of a proposal.                                           *)
LEMMA Successor ==
  ASSUME NEW p \in Names, NEW q \in Names, Precedes(q, p), Len(p) = Len(q) + 1
  PROVE  p # <<>> /\ LastHash(p) = q /\ p = Append(q, Skips(p)) /\ Skips(p) \in Nat
<1>1. Len(q) \in Nat /\ Len(p) - 1 = Len(q) /\ p # <<>>
  BY DEF Names
<1>2. LastHash(p) = q
  BY <1>1, Zenon DEF Precedes, LastHash
<1> QED BY <1>1, <1>2, Parent, Zenon

(* A proposal precedes those built on it.                                  *)
LEMMA BuiltOn ==
  ASSUME NEW p \in Names, NEW k \in Nat
  PROVE  Precedes(p, Append(p, k)) /\ Precedes(p, p)
         /\ \A i \in 0 .. Len(p) : SubSeq(Append(p, k), 1, i) = SubSeq(p, 1, i)
<1> DEFINE q == Append(p, k)
<1>1. Len(p) \in Nat /\ q \in Names /\ Len(q) = Len(p) + 1 /\ LastHash(q) = p
  BY Built DEF Names
<1> HIDE DEF q
<1>2. SubSeq(q, 1, Len(p)) = p
  BY <1>1 DEF LastHash
<1>3. Len(p) \in 0 .. Len(q)
  BY <1>1
<1>4. \A i \in 0 .. Len(p) : SubSeq(p, 1, i) = SubSeq(q, 1, i)
  BY <1>1, <1>2, <1>3, Prefixes
<1>5. SubSeq(p, 1, Len(p)) = p
  BY <1>1, Prefixes
<1> QED BY <1>1, <1>2, <1>4, <1>5 DEF Precedes, q

(* Of two proposals neither of which precedes the other, the ancestors at  *)
(* some height are built on the same proposal with different skips.        *)
LEMMA Fork ==
  ASSUME NEW q \in Names, NEW r \in Names, ~ Precedes(q, r), ~ Precedes(r, q)
  PROVE  \E i \in Nat : /\ i < Len(q) /\ i < Len(r)
                        /\ SubSeq(q, 1, i) = SubSeq(r, 1, i)
                        /\ SubSeq(q, 1, i + 1) # SubSeq(r, 1, i + 1)
<1> DEFINE C == {i \in Nat : i <= Len(q) /\ i <= Len(r) /\ SubSeq(q, 1, i) # SubSeq(r, 1, i)}
<1>1. Len(q) \in Nat /\ Len(r) \in Nat
  BY DEF Names
<1>2. C # {}
  <2>1. CASE Len(q) <= Len(r)
    <3>1. SubSeq(q, 1, Len(q)) = q
      BY <1>1, Prefixes
    <3> QED BY <1>1, <2>1, <3>1 DEF Precedes
  <2>2. CASE Len(r) <= Len(q)
    <3>1. SubSeq(r, 1, Len(r)) = r
      BY <1>1, Prefixes
    <3> QED BY <1>1, <2>2, <3>1 DEF Precedes
  <2> QED BY <1>1, <2>1, <2>2
<1>3. PICK n \in C : \A k \in C : ~ (k < n)
  <2>1. C \subseteq Nat
    BY Zenon
  <2> HIDE DEF C
  <2> QED BY <1>2, <2>1, SmallestNumber, Zenon
<1>4. n # 0
  <2>1. SubSeq(q, 1, 0) = <<>> /\ SubSeq(r, 1, 0) = <<>>
    BY DEF Names
  <2> QED BY <1>3, <2>1, Zenon
<1>5. n \in Nat /\ n <= Len(q) /\ n <= Len(r) /\ SubSeq(q, 1, n) # SubSeq(r, 1, n)
  BY <1>3, Zenon
<1>6. n - 1 \in Nat /\ n - 1 < Len(q) /\ n - 1 < Len(r) /\ n - 1 < n /\ (n - 1) + 1 = n
  BY <1>1, <1>4, <1>5
<1>7. SubSeq(q, 1, n - 1) = SubSeq(r, 1, n - 1)
  BY <1>1, <1>3, <1>6
<1> QED BY <1>5, <1>6, <1>7, Zenon

-----------------------------------------------------------------------------
(* Thresholds.                                                             *)

(* Two sets of validators that reach the threshold have one in common.     *)
LEMMA ThresholdFacts ==
  /\ Cardinality(Validator) \in Nat
  /\ Threshold \in Nat
  /\ Threshold > 0
  /\ Threshold > Cardinality(Validator) - Threshold
<1>1. PICK n \in Nat : n = Cardinality(Validator)
  BY ValidatorAssumption, FS_CardinalityType, Zenon
<1>2. (n \div 2) + 1 \in Nat /\ ((n * 2) \div 3) + 1 \in Nat
      /\ 2 * ((n \div 2) + 1) > n /\ 2 * (((n * 2) \div 3) + 1) > n
  BY <1>1
<1>3. Threshold = (n \div 2) + 1 \/ Threshold = ((n * 2) \div 3) + 1
  BY <1>1, ThresholdAssumption, Zenon DEF Threshold
<1> QED BY <1>1, <1>2, <1>3

(* Subsets of validators are finite and in the order of their sizes.       *)
LEMMA SubsetCard ==
  ASSUME NEW A, NEW B, A \subseteq B, B \subseteq Validator
  PROVE  /\ Cardinality(A) \in Nat /\ Cardinality(B) \in Nat
         /\ Cardinality(A) <= Cardinality(B)
         /\ IsFiniteSet(A)
<1>1. IsFiniteSet(B)
  BY ValidatorAssumption, FS_Subset, Zenon
<1>2. IsFiniteSet(A) /\ Cardinality(A) <= Cardinality(B)
  BY <1>1, FS_Subset, Zenon
<1> QED BY <1>1, <1>2, FS_CardinalityType, Zenon

(* The threshold and the inverse threshold meet.                           *)
LEMMA QuorumsMeet ==
  ASSUME NEW A, NEW B, A \subseteq Validator, B \subseteq Validator, A \cap B = {},
         Cardinality(A) >= Threshold, Cardinality(B) > Cardinality(Validator) - Threshold
  PROVE  FALSE
<1>1. /\ IsFiniteSet(A) /\ IsFiniteSet(B)
      /\ Cardinality(A) \in Nat /\ Cardinality(B) \in Nat
  BY SubsetCard, Zenon
<1>2. Cardinality(A \cup B) = Cardinality(A) + Cardinality(B)
  <2>1. Cardinality(A \cup B) = Cardinality(A) + Cardinality(B) - Cardinality(A \cap B)
    BY <1>1, FS_Union, Zenon
  <2>2. Cardinality(A \cap B) = 0
    BY FS_EmptySet, Zenon
  <2> QED BY <1>1, <2>1, <2>2
<1>3. Cardinality(A \cup B) <= Cardinality(Validator)
  BY SubsetCard, Zenon
<1> QED BY <1>1, <1>2, <1>3, ThresholdFacts

(* A threshold of accepts among those of a leader, with one more.          *)
LEMMA OneMore ==
  ASSUME NEW A, NEW B, NEW v \in Validator, A \cup {v} \subseteq B, B \subseteq Validator,
         v \notin A, Cardinality(A) + 1 = Threshold
  PROVE  Cardinality(B) >= Threshold
<1>1. IsFiniteSet(A) /\ A \cup {v} \subseteq Validator
  BY SubsetCard, Zenon
<1>2. Cardinality(A \cup {v}) = Cardinality(A) + 1
  BY <1>1, FS_AddElement, Zenon
<1> QED BY <1>2, SubsetCard, ThresholdFacts, Zenon

-----------------------------------------------------------------------------
(* The cache and the current proposal.                                     *)

(* Of some proposals, one has the highest (height, skips).                 *)
LEMMA HighestExists ==
  ASSUME NEW P, TreeOK(P), NEW S, S \subseteq P, S # {}
  PROVE  \E p \in S : \A q \in S : Len(q) < Len(p) \/ (Len(q) = Len(p) /\ Skips(q) <= Skips(p))
<1>1. \A p \in S : Len(p) \in 0 .. MaxHeight /\ Skips(p) \in 0 .. MaxSkips
  BY DEF TreeOK, Names
<1>2. MaxHeight \in Nat /\ MaxSkips \in Nat
  BY BoundAssumption, Zenon
<1> DEFINE L == {Len(p) : p \in S}
<1>3. PICK h \in L : \A g \in L : g <= h
  <2>1. L \subseteq 0 .. MaxHeight /\ L # {}
    BY <1>1, Zenon
  <2> HIDE DEF L
  <2> QED BY <1>2, <2>1, GreatestNumber, Zenon
<1> DEFINE K == {Skips(p) : p \in {q \in S : Len(q) = h}}
<1>4. PICK k \in K : \A l \in K : l <= k
  <2>1. K \subseteq 0 .. MaxSkips /\ K # {}
    BY <1>1, <1>3, Zenon
  <2> HIDE DEF K
  <2> QED BY <1>2, <2>1, GreatestNumber, Zenon
<1>5. PICK p \in S : Len(p) = h /\ Skips(p) = k
  BY <1>4, Zenon
<1>6. ASSUME NEW q \in S PROVE Len(q) < Len(p) \/ (Len(q) = Len(p) /\ Skips(q) <= Skips(p))
  <2>1. Len(q) <= h
    BY <1>3, Zenon
  <2>2. Len(q) = h => Skips(q) <= k
    BY <1>4, Zenon
  <2>3. Len(q) \in Int /\ h \in Int
    BY <1>1, <1>5
  <2> QED BY <1>5, <2>1, <2>2, <2>3
<1> QED BY <1>6, Zenon

(* The pending proposals depend on what is confirmed and cached only.      *)
LEMMA SamePending ==
  ASSUME NEW s, NEW t, t.confirmed = s.confirmed, DOMAIN t.sent = DOMAIN s.sent
  PROVE  /\ Height(t) = Height(s)
         /\ Pending(t) = Pending(s)
         /\ MaxContinuousProposals(t) = MaxContinuousProposals(s)
         /\ NextPendingProposal(t) = NextPendingProposal(s)
<1>1. Height(t) = Height(s)
  BY Zenon DEF Height
<1>2. \A p : IsDecendent(t, p) <=> IsDecendent(s, p)
  BY <1>1, Zenon DEF IsDecendent
<1>3. Pending(t) = Pending(s)
  BY <1>1, <1>2, Zenon DEF Pending
<1>4. MaxContinuousProposals(t) = MaxContinuousProposals(s)
  BY <1>3, Zenon DEF MaxContinuousProposals
<1> QED BY <1>1, <1>3, <1>4, Zenon DEF NextPendingProposal

(* What highest_skip_with_inverse_threshold returns.                       *)
LEMMA HighestSkipIs ==
  ASSUME NEW s, NEW p, NEW k, k = HighestSkipWithInverse(s, p)
  PROVE  /\ k \in 0 .. MaxSkips
         /\ k > 0 => InverseExceeded(AcceptsForSkip(s, p, k))
<1> DEFINE S == {l \in 0 .. MaxSkips : InverseExceeded(AcceptsForSkip(s, p, l))}
<1>1. k = IF S = {} THEN 0 ELSE CHOOSE l \in S : \A m \in S : m <= l
  BY Zenon DEF HighestSkipWithInverse
<1>2. CASE S = {}
  BY <1>1, <1>2, BoundAssumption
<1>3. CASE S # {}
  <2>1. S \subseteq 0 .. MaxSkips
    BY Zenon
  <2>2. \E l \in S : \A m \in S : m <= l
    <3> HIDE DEF S
    <3> QED BY <1>3, <2>1, BoundAssumption, GreatestNumber, Zenon
  <2>3. k \in S
    <3> HIDE DEF S
    <3> QED BY <1>1, <1>3, <2>2, Zenon
  <2> QED BY <2>3, Zenon
<1> QED BY <1>2, <1>3, Zenon

(* More accepts, higher skips.                                             *)
LEMMA HighestSkipGrows ==
  ASSUME NEW s, NEW t, NEW p,
         \A k \in 0 .. MaxSkips : AcceptsForSkip(s, p, k) \subseteq AcceptsForSkip(t, p, k)
  PROVE  HighestSkipWithInverse(s, p) <= HighestSkipWithInverse(t, p)
<1> DEFINE S == {l \in 0 .. MaxSkips : InverseExceeded(AcceptsForSkip(s, p, l))}
           T == {l \in 0 .. MaxSkips : InverseExceeded(AcceptsForSkip(t, p, l))}
           max(R) == IF R = {} THEN 0 ELSE CHOOSE l \in R : \A m \in R : m <= l
<1>1. ASSUME NEW l \in S PROVE l \in T
  <2>1. AcceptsForSkip(s, p, l) \subseteq AcceptsForSkip(t, p, l)
        /\ AcceptsForSkip(t, p, l) \subseteq Validator
    BY Zenon DEF AcceptsForSkip
  <2>2. Cardinality(AcceptsForSkip(s, p, l)) <= Cardinality(AcceptsForSkip(t, p, l))
        /\ Cardinality(AcceptsForSkip(s, p, l)) \in Nat
        /\ Cardinality(AcceptsForSkip(t, p, l)) \in Nat
    BY <2>1, SubsetCard, Zenon
  <2>3. InverseExceeded(AcceptsForSkip(s, p, l)) => InverseExceeded(AcceptsForSkip(t, p, l))
    BY <2>2, ThresholdFacts DEF InverseExceeded
  <2> QED BY <2>3, Zenon
<1>2. S \subseteq 0 .. MaxSkips /\ T \subseteq 0 .. MaxSkips /\ S \subseteq T
  BY <1>1, Zenon
<1>3. HighestSkipWithInverse(s, p) = max(S) /\ HighestSkipWithInverse(t, p) = max(T)
  BY Zenon DEF HighestSkipWithInverse
<1> HIDE DEF S, T
<1>4. ASSUME NEW R, R \subseteq 0 .. MaxSkips
      PROVE  max(R) \in Int /\ max(R) >= 0 /\ (R # {} => max(R) \in R /\ \A m \in R : m <= max(R))
  <2>1. CASE R # {}
    <3>1. \E l \in R : \A m \in R : m <= l
      BY <2>1, <1>4, BoundAssumption, GreatestNumber, Zenon
    <3>2. max(R) \in R /\ \A m \in R : m <= max(R)
      BY <2>1, <3>1, Zenon
    <3> HIDE DEF max
    <3>3. max(R) \in 0 .. MaxSkips
      BY <1>4, <3>2, Zenon
    <3> QED BY <3>2, <3>3, BoundAssumption
  <2> QED BY <2>1
<1> HIDE DEF max
<1>5. CASE S = {}
  <2>1. max(S) = 0
    BY <1>5, Zenon DEF max
  <2> QED BY <1>2, <1>3, <1>4, <2>1, Zenon
<1>6. CASE S # {}
  BY <1>2, <1>3, <1>4, <1>6, Zenon
<1> QED BY <1>5, <1>6, Zenon

(* When nothing is left to commit, the pending proposals are the           *)
(* successors of the confirmed one, and at most one of them is the highest. *)
LEMMA PendingIs ==
  ASSUME NEW s, NEW P, TreeOK(P), DOMAIN s.sent \subseteq P, s.confirmed \in DOMAIN s.sent,
         SettledOK(s), NEW p \in Pending(s)
  PROVE  /\ p \in DOMAIN s.sent /\ p \in Names /\ p # <<>>
         /\ Len(p) = Height(s) + 1
         /\ LastHash(p) = s.confirmed
         /\ p = Append(s.confirmed, Skips(p)) /\ Skips(p) \in Nat
         /\ SubSeq(p, 1, Height(s) + 1) = p
<1>1. p \in DOMAIN s.sent /\ Len(p) > Height(s) /\ IsDecendent(s, p) /\ Len(p) <= Height(s) + 1
  BY Zenon DEF Pending, SettledOK
<1>2. p \in Names /\ s.confirmed \in Names /\ Height(s) = Len(s.confirmed)
      /\ Len(p) \in Nat /\ Height(s) \in Nat
  BY <1>1, SMTT(30) DEF TreeOK, Names, Height
<1>3. Len(p) = Len(s.confirmed) + 1 /\ Precedes(s.confirmed, p)
  BY <1>1, <1>2 DEF IsDecendent
<1>4. SubSeq(p, 1, Len(p)) = p
  BY <1>2, Prefixes
<1> QED BY <1>1, <1>2, <1>3, <1>4, Successor, Zenon

(* When nothing is left to commit there is one highest pending proposal at *)
(* most.                                                                   *)
LEMMA OneHighest ==
  ASSUME NEW s, NEW P, TreeOK(P), DOMAIN s.sent \subseteq P, s.confirmed \in DOMAIN s.sent,
         SettledOK(s)
  PROVE  /\ NextPendingProposal(s) = MaxContinuousProposals(s)
         /\ MaxContinuousProposals(s) \subseteq Pending(s)
         /\ \A p, q \in MaxContinuousProposals(s) : p = q
         /\ Pending(s) # {} => MaxContinuousProposals(s) # {}
<1> DEFINE M == MaxContinuousProposals(s)
<1>1. M \subseteq Pending(s)
  BY Zenon DEF MaxContinuousProposals
<1>2. \A p \in M : SubSeq(p, 1, Height(s) + 1) = p
  BY <1>1, PendingIs, Zenon
<1>3. NextPendingProposal(s) = M
  BY <1>2, Zenon DEF NextPendingProposal
<1>4. ASSUME NEW p \in M, NEW q \in M PROVE p = q
  <2>1. /\ p = Append(s.confirmed, Skips(p)) /\ Skips(p) \in Nat
        /\ q = Append(s.confirmed, Skips(q)) /\ Skips(q) \in Nat
        /\ Len(p) = Height(s) + 1 /\ Len(q) = Height(s) + 1
    BY <1>1, PendingIs, Zenon
  <2>2. /\ Len(q) < Len(p) \/ (Len(q) = Len(p) /\ Skips(q) <= Skips(p))
        /\ Len(p) < Len(q) \/ (Len(p) = Len(q) /\ Skips(p) <= Skips(q))
    BY <1>1, Zenon DEF MaxContinuousProposals
  <2>3. Len(p) \in Nat /\ Len(q) = Len(p)
    BY <1>1, <2>1 DEF Pending, TreeOK, Names
  <2>4. Skips(p) = Skips(q)
    BY <2>1, <2>2, <2>3
  <2> QED BY <2>1, <2>4, Zenon
<1>5. Pending(s) # {} => M # {}
  <2>1. Pending(s) \subseteq P
    BY Zenon DEF Pending
  <2> QED BY <2>1, HighestExists, Zenon DEF MaxContinuousProposals
<1> QED BY <1>1, <1>3, <1>4, <1>5, Zenon

(* The proposal a validator may accept next: the pending one, unless it is *)
(* given up.                                                               *)
LEMMA CurrentIs ==
  ASSUME NEW s, NEW v, NEW H, NEW P, TreeOK(P), LocalOK(s, v, H, P), SettledOK(s),
         NEW c, c = CurrentProposal(s)
  PROVE  /\ c \in DOMAIN s.sent /\ c \in Names /\ Height(s) \in Nat
         /\ \/ /\ c = s.confirmed
               /\ Len(c) = Height(s)
               /\ \A p \in Pending(s) : \/ HighestSkipWithInverse(s, s.confirmed) > Skips(p)
                                        \/ s.sent[s.confirmed] > Skips(p)
            \/ /\ c \in Pending(s)
               /\ Len(c) = Height(s) + 1
               /\ s.sent[s.confirmed] <= Skips(c)
<1> DEFINE high == HighestNextPending(s)
           h == HighestSkipWithInverse(s, s.confirmed)
<1>1. s.confirmed \in DOMAIN s.sent /\ DOMAIN s.sent \subseteq P /\ P \subseteq Names
  BY Zenon DEF LocalOK, TreeOK
<1>2. s.confirmed \in Names /\ Height(s) \in Nat /\ Len(s.confirmed) = Height(s)
  BY <1>1 DEF Height, Names
<1>3. s.sent[s.confirmed] \in Int /\ h \in Int
  BY <1>1, HighestSkipIs, BoundAssumption DEF LocalOK, SentOK, NotSent
<1>4. high = {p \in MaxContinuousProposals(s) : h <= Skips(p) /\ s.sent[s.confirmed] <= Skips(p)}
  BY <1>1, OneHighest, Zenon DEF HighestNextPending
<1>5. CASE high = {}
  <2>1. c = s.confirmed
    BY <1>5, Zenon DEF CurrentProposal
  <2>2. ASSUME NEW p \in Pending(s)
        PROVE  h > Skips(p) \/ s.sent[s.confirmed] > Skips(p)
    <3>1. PICK m \in MaxContinuousProposals(s) : TRUE
      BY <1>1, OneHighest, Zenon
    <3>2. m \in Pending(s)
      BY <1>1, OneHighest, Zenon
    <3>3. Len(p) = Len(m) /\ Skips(p) \in Nat /\ Skips(m) \in Nat /\ Len(p) \in Nat
      BY <1>1, <1>2, <3>2, PendingIs
    <3>4. Skips(p) <= Skips(m)
      BY <3>1, <3>3 DEF MaxContinuousProposals
    <3>5. ~ (h <= Skips(m) /\ s.sent[s.confirmed] <= Skips(m))
      BY <1>4, <1>5, <3>1, Zenon
    <3> HIDE DEF h
    <3> QED BY <1>3, <3>3, <3>4, <3>5
  <2> QED BY <1>1, <1>2, <2>1, <2>2, Zenon
<1>6. CASE high # {}
  <2>1. c \in high
    BY <1>6, Zenon DEF CurrentProposal
  <2>2. c \in Pending(s) /\ s.sent[s.confirmed] <= Skips(c)
    BY <1>1, <1>4, <2>1, OneHighest, Zenon
  <2>3. Len(c) = Height(s) + 1 /\ c \in DOMAIN s.sent /\ c \in Names
    BY <1>1, <2>2, PendingIs, Zenon
  <2> QED BY <1>2, <2>2, <2>3, Zenon
<1> QED BY <1>5, <1>6, Zenon

-----------------------------------------------------------------------------
(* A validator accepts its current proposal.                               *)

(* One that accepted the proposal of skip j on p, and now accepts p with   *)
(* more skips, has the accepts of an inverse threshold that did so before. *)
LEMMA WhyGiveUp ==
  ASSUME NEW s, NEW v \in Validator, NEW H, NEW P, WorldOK(H, P), LocalOK(s, v, H, P),
         SettledOK(s), NEW p \in Names, NEW j \in Nat, p = CurrentProposal(s),
         v \in Voters(H, Append(p, j)), v \notin Beyond(H, p, j)
  PROVE  \E I \in SUBSET Beyond(H, p, j) : Cardinality(I) > Cardinality(Validator) - Threshold
<1> DEFINE q == Append(p, j)
<1>1. q \in Names /\ Len(q) = Len(p) + 1 /\ Len(p) \in Nat /\ Skips(q) = j /\ Precedes(p, q)
  BY Built, BuiltOn DEF Names
<1>2. TreeOK(P) /\ VotesOK(s, v, H) /\ SentOK(s, v, H) /\ s.accepts \subseteq H
  BY Zenon DEF WorldOK, LocalOK
<1> HIDE DEF q
<1>3. PICK y \in Nat : ProposalAccept(q, y, v) \in H
  BY Zenon DEF Voters, q
<1>4. IF q \in DOMAIN s.sent THEN Len(q) <= Height(s) + 1 ELSE Len(q) <= Height(s)
  <2>1. ProposalAccept(q, y, v).from = v /\ ProposalAccept(q, y, v).prop = q
    BY Zenon DEF ProposalAccept
  <2> QED BY <1>2, <1>3, <2>1, Zenon DEF VotesOK
<1>5. Height(s) \in Nat /\ p \in DOMAIN s.sent
  BY <1>2, CurrentIs, Zenon
<1>6. p = s.confirmed /\ Len(p) = Height(s)
  BY <1>1, <1>2, <1>4, <1>5, CurrentIs
<1>7. q \in Pending(s)
  <2>1. q \in DOMAIN s.sent /\ Len(q) = Height(s) + 1
    BY <1>1, <1>4, <1>5, <1>6
  <2>2. SubSeq(q, 1, Len(p)) = p /\ SubSeq(q, 1, Len(q)) = q
    BY <1>1, Prefixes DEF Precedes
  <2>3. \A i \in Height(s) .. Len(q) : i = Len(p) \/ i = Len(q)
    BY <1>1, <1>5, <1>6, <2>1
  <2>4. IsDecendent(s, q)
    BY <1>1, <1>5, <1>6, <2>1, <2>2, <2>3, Zenon DEF IsDecendent
  <2> QED BY <1>5, <2>1, <2>4 DEF Pending
<1>8. HighestSkipWithInverse(s, p) > j \/ s.sent[p] > j
  <2>1. ~ p \in Pending(s)
    BY <1>5, <1>6 DEF Pending
  <2> QED BY <1>1, <1>2, <1>6, <1>7, <2>1, CurrentIs, Zenon
<1>9. CASE s.sent[p] > j
  <2>1. s.sent[p] \in 0 .. MaxSkips /\ ProposalAccept(p, s.sent[p], v) \in H
    BY <1>2, <1>5, <1>9 DEF SentOK, NotSent
  <2>2. s.sent[p] \in Nat
    BY <2>1
  <2> QED BY <1>9, <2>1, <2>2, Zenon DEF Beyond
<1>10. CASE HighestSkipWithInverse(s, p) > j
  <2>1. PICK m : m = HighestSkipWithInverse(s, p)
    BY Zenon
  <2>2. m \in Nat /\ m > j /\ m > 0
    BY <1>10, <2>1, HighestSkipIs, BoundAssumption
  <2>3. InverseExceeded(AcceptsForSkip(s, p, m))
    BY <2>1, <2>2, HighestSkipIs, Zenon
  <2>4. AcceptsForSkip(s, p, m) \subseteq Beyond(H, p, j)
    BY <1>2, <2>2, Zenon DEF AcceptsForSkip, Beyond
  <2> QED BY <2>3, <2>4, Zenon DEF InverseExceeded
<1> QED BY <1>8, <1>9, <1>10, Zenon

(* One that gave up the proposal of skip j on p accepts it only once it    *)
(* has a threshold of accepts.                                             *)
LEMMA WhyReturn ==
  ASSUME NEW s, NEW v \in Validator, NEW H, NEW P, WorldOK(H, P), LocalOK(s, v, H, P),
         SettledOK(s), NEW p \in Names, NEW j \in Nat, Append(p, j) = CurrentProposal(s),
         v \in Beyond(H, p, j)
  PROVE  \E x \in Nat : Certified(H, Append(p, j), x)
<1> DEFINE q == Append(p, j)
<1>1. q \in Names /\ q # <<>> /\ Len(q) = Len(p) + 1 /\ Skips(q) = j /\ LastHash(q) = p
  BY Built, Zenon
<1>2. TreeOK(P) /\ VotesOK(s, v, H) /\ SentOK(s, v, H) /\ DOMAIN s.sent \subseteq P
      /\ s.confirmed \in DOMAIN s.sent
      /\ (s.confirmed = <<>> \/ \E k \in Nat : Append(s.confirmed, k) \in P)
      /\ \A r \in P : r = <<>> \/ Backed(H, P, r)
  BY Zenon DEF WorldOK, LocalOK
<1> HIDE DEF q
<1>3. PICK l \in Nat : l > j /\ ProposalAccept(p, l, v) \in H
  BY Zenon DEF Beyond
<1>4. CASE q \in Pending(s) /\ s.sent[s.confirmed] <= Skips(q)
  <2>1. p = s.confirmed
    BY <1>1, <1>2, <1>4, PendingIs, Zenon
  <2>2. ProposalAccept(p, l, v).from = v /\ ProposalAccept(p, l, v).prop = p
        /\ ProposalAccept(p, l, v).skips = l
    BY Zenon DEF ProposalAccept
  <2>3. l <= s.sent[p]
    BY <1>2, <1>3, <2>1, <2>2, Zenon DEF VotesOK
  <2>4. s.sent[p] \in Int
    BY <1>2, <2>1, BoundAssumption DEF SentOK, NotSent
  <2> QED BY <1>1, <1>3, <1>4, <2>1, <2>3, <2>4
<1>5. CASE q = s.confirmed
  <2>1. PICK x \in Nat : Append(q, x) \in P
    BY <1>1, <1>2, <1>5, Zenon
  <2>2. Append(q, x) # <<>> /\ LastHash(Append(q, x)) = q /\ Skips(Append(q, x)) = x
    BY <1>1, Built, Zenon
  <2>3. Certified(H, q, x)
    BY <1>2, <2>1, <2>2, Zenon DEF Backed
  <2> QED BY <2>3, Zenon DEF q
<1>6. q = s.confirmed \/ (q \in Pending(s) /\ s.sent[s.confirmed] <= Skips(q))
  BY <1>2, CurrentIs, Zenon DEF q
<1> QED BY <1>4, <1>5, <1>6, Zenon

(* The votes after one more.                                               *)
OneVote(H, c, k, v, G) == G = H \cup {ProposalAccept(c, k, v)}

VoteCounted(H, c, k, v, G, p, j, q) ==
  /\ Voters(G, q) = IF c = q THEN Voters(H, q) \cup {v} ELSE Voters(H, q)
  /\ Beyond(G, p, j) = IF c = p /\ k > j THEN Beyond(H, p, j) \cup {v} ELSE Beyond(H, p, j)
  /\ \A x \in Nat : Backers(H, q, x) \subseteq Backers(G, q, x)
  /\ c # q => \A x \in Nat : Backers(G, q, x) = Backers(H, q, x)

(* What one more accept changes in the counts of any proposal.             *)
LEMMA OneMoreVote ==
  ASSUME NEW H, NEW c, NEW k \in Nat, NEW v \in Validator, NEW G,
         OneVote(H, c, k, v, G), NEW p, NEW j, NEW q
  PROVE  VoteCounted(H, c, k, v, G, p, j, q)
<1>1. \A y, x, w : ProposalAccept(y, x, w) \in G <=>
                     ProposalAccept(y, x, w) \in H \/ (c = y /\ k = x /\ v = w)
  BY Zenon DEF OneVote, ProposalAccept
<1>2. Voters(G, q) = IF c = q THEN Voters(H, q) \cup {v} ELSE Voters(H, q)
  BY <1>1, Zenon DEF Voters
<1>3. Beyond(G, p, j) = IF c = p /\ k > j THEN Beyond(H, p, j) \cup {v} ELSE Beyond(H, p, j)
  BY <1>1, Zenon DEF Beyond
<1>4. \A x \in Nat : Backers(H, q, x) \subseteq Backers(G, q, x)
  BY <1>1, Zenon DEF Backers
<1>5. c # q => \A x \in Nat : Backers(G, q, x) = Backers(H, q, x)
  BY <1>1, Zenon DEF Backers
<1> QED BY <1>2, <1>3, <1>4, <1>5, Zenon DEF VoteCounted

(* The counts are of validators.                                           *)
LEMMA VoteSets ==
  ASSUME NEW H, NEW p, NEW j, NEW q
  PROVE  /\ Voters(H, q) \subseteq Validator
         /\ Beyond(H, p, j) \subseteq Validator
         /\ \A x \in Nat : Backers(H, q, x) \subseteq Voters(H, q)
BY Zenon DEF Voters, Beyond, Backers

(* F gives the backers, V the voters of a proposal, B those beyond it: the *)
(* three cases again, for sets.                                            *)
OneOfThree(F, V, B) ==
  \/ \E x \in Nat : Cardinality(F[x] \ B) >= Threshold
  \/ Cardinality(B \ V) > Cardinality(Validator) - Threshold
  \/ V \cap B = {}

(* v gives the proposal up; if v voted for it, because so many did before. *)
LEMMA GiveUpKeeps ==
  ASSUME NEW F, NEW V, NEW B, NEW v \in Validator, V \subseteq Validator, B \subseteq Validator,
         \A x \in Nat : F[x] \subseteq V,
         v \in V /\ v \notin B =>
           \E I \in SUBSET B : Cardinality(I) > Cardinality(Validator) - Threshold,
         OneOfThree(F, V, B)
  PROVE  OneOfThree(F, V, B \cup {v})
<1> DEFINE C == B \cup {v}
<1>1. C \subseteq Validator /\ B \ V \subseteq C \ V /\ C \ V \subseteq Validator
  BY Zenon
<1> HIDE DEF C
<1>2. CASE v \in B
  <2>1. C = B
    BY <1>2, Zenon DEF C
  <2> QED BY <2>1, Zenon DEF C
<1>3. Cardinality(B \ V) > Cardinality(Validator) - Threshold =>
        Cardinality(C \ V) > Cardinality(Validator) - Threshold
  <2>1. Cardinality(B \ V) \in Nat /\ Cardinality(C \ V) \in Nat
        /\ Cardinality(B \ V) <= Cardinality(C \ V)
    BY <1>1, SubsetCard, Zenon
  <2> QED BY <2>1, ThresholdFacts
<1>4. CASE v \notin V
  <2>1. \A x \in Nat : F[x] \ C = F[x] \ B
    BY <1>4, Zenon DEF C
  <2>2. V \cap C = V \cap B
    BY <1>4, Zenon DEF C
  <2> QED BY <1>3, <2>1, <2>2, Zenon DEF OneOfThree, C
<1>5. CASE v \in V /\ v \notin B
  <2>1. PICK I \in SUBSET B : Cardinality(I) > Cardinality(Validator) - Threshold
    BY <1>5, Zenon
  <2>2. ASSUME NEW x \in Nat, Cardinality(F[x] \ B) >= Threshold PROVE FALSE
    <3>1. (F[x] \ B) \cap I = {} /\ F[x] \ B \subseteq Validator /\ I \subseteq Validator
      BY Zenon
    <3> QED BY <2>1, <2>2, <3>1, QuorumsMeet, Zenon
  <2>3. ASSUME V \cap B = {} PROVE Cardinality(C \ V) > Cardinality(Validator) - Threshold
    <3>1. I \subseteq C \ V
      BY <2>3, Zenon DEF C
    <3>2. Cardinality(I) \in Nat /\ Cardinality(C \ V) \in Nat
          /\ Cardinality(I) <= Cardinality(C \ V)
      BY <1>1, <3>1, SubsetCard, Zenon
    <3> QED BY <2>1, <3>2, ThresholdFacts
  <2> QED BY <1>3, <2>2, <2>3, Zenon DEF OneOfThree, C
<1> QED BY <1>2, <1>4, <1>5, Zenon

(* v votes for the proposal; if v gave it up, because it has a threshold.  *)
LEMMA ReturnKeeps ==
  ASSUME NEW F, NEW E, NEW V, NEW B, NEW v \in Validator,
         V \subseteq Validator, B \subseteq Validator,
         \A x \in Nat : F[x] \subseteq V /\ F[x] \subseteq E[x] /\ E[x] \subseteq Validator,
         v \in B => \E x \in Nat : Cardinality(F[x]) >= Threshold,
         OneOfThree(F, V, B)
  PROVE  OneOfThree(E, V \cup {v}, B)
<1>1. ASSUME NEW x \in Nat, Cardinality(F[x] \ B) >= Threshold
      PROVE  OneOfThree(E, V \cup {v}, B)
  <2>1. F[x] \ B \subseteq E[x] \ B /\ E[x] \ B \subseteq Validator
    BY Zenon
  <2>2. Cardinality(F[x] \ B) \in Nat /\ Cardinality(E[x] \ B) \in Nat
        /\ Cardinality(F[x] \ B) <= Cardinality(E[x] \ B)
    BY <2>1, SubsetCard, Zenon
  <2>3. Cardinality(E[x] \ B) >= Threshold
    BY <1>1, <2>2, ThresholdFacts
  <2> QED BY <2>3, Zenon DEF OneOfThree
<1>2. CASE v \notin B
  <2>1. B \ (V \cup {v}) = B \ V /\ (V \cup {v}) \cap B = V \cap B
    BY <1>2, Zenon
  <2> QED BY <1>1, <2>1, Zenon DEF OneOfThree
<1>3. CASE v \in B
  <2>1. PICK x \in Nat : Cardinality(F[x]) >= Threshold
    BY <1>3, Zenon
  <2>2. F[x] \subseteq V /\ F[x] \subseteq Validator /\ B \ V \subseteq Validator
        /\ F[x] \cap (B \ V) = {}
    BY Zenon
  <2>3. ~ (Cardinality(B \ V) > Cardinality(Validator) - Threshold)
    BY <2>1, <2>2, QuorumsMeet, Zenon
  <2>4. V \cap B = {} => F[x] \ B = F[x]
    BY <2>2, Zenon
  <2> QED BY <1>1, <2>1, <2>3, <2>4, Zenon DEF OneOfThree
<1> QED BY <1>2, <1>3, Zenon

(* The accept of the current proposal leaves every proposal locked,        *)
(* abandoned or undecided.                                                 *)
LEMMA VoteLocks ==
  ASSUME NEW s, NEW v \in Validator, NEW H, NEW P, WorldOK(H, P), LocalOK(s, v, H, P),
         SettledOK(s), NEW k \in Nat, NEW G, OneVote(H, CurrentProposal(s), k, v, G)
  PROVE  LockOK(G)
<1> DEFINE c == CurrentProposal(s)
<1>1. SUFFICES ASSUME NEW p \in Names, NEW j \in Nat
               PROVE  Locked(G, p, j) \/ Abandoned(G, p, j) \/ Undecided(G, p, j)
  BY Zenon DEF LockOK
<1> DEFINE q == Append(p, j)
           V(X) == Voters(X, q)
           B(X) == Beyond(X, p, j)
           F(X) == [x \in Nat |-> Backers(X, q, x)]
<1>2. q # p
  <2>1. Len(q) # Len(p)
    BY Built DEF Names
  <2> QED BY <2>1, Zenon
<1>3. ASSUME NEW X
      PROVE  Locked(X, p, j) \/ Abandoned(X, p, j) \/ Undecided(X, p, j)
               <=> OneOfThree(F(X), V(X), B(X))
  BY <1>3, Zenon DEF Locked, Abandoned, Undecided, OneOfThree
<1>4. OneOfThree(F(H), V(H), B(H))
  <2>1. Locked(H, p, j) \/ Abandoned(H, p, j) \/ Undecided(H, p, j)
    BY Zenon DEF WorldOK, LockOK
  <2> HIDE DEF F, V, B
  <2> QED BY <1>3, <2>1, Zenon
<1>5. /\ V(H) \subseteq Validator /\ B(H) \subseteq Validator
      /\ \A x \in Nat : F(H)[x] \subseteq V(H)
      /\ \A x \in Nat : F(G)[x] \subseteq Validator
  <2>1. \A x \in Nat : F(H)[x] = Backers(H, q, x) /\ F(G)[x] = Backers(G, q, x)
    BY Zenon
  <2>2. \A x \in Nat : Backers(G, q, x) \subseteq Validator
    BY Zenon DEF Backers
  <2>3. V(H) \subseteq Validator /\ B(H) \subseteq Validator
    BY VoteSets, Zenon
  <2>4. \A x \in Nat : Backers(H, q, x) \subseteq V(H)
    BY VoteSets, Zenon
  <2> HIDE DEF F, V, B, q
  <2> QED BY <2>1, <2>2, <2>3, <2>4, Zenon
<1>6. /\ V(G) = IF c = q THEN V(H) \cup {v} ELSE V(H)
      /\ B(G) = IF c = p /\ k > j THEN B(H) \cup {v} ELSE B(H)
      /\ \A x \in Nat : F(H)[x] \subseteq F(G)[x]
      /\ c # q => F(G) = F(H)
  <2>0. OneVote(H, c, k, v, G)
    BY Zenon
  <2> HIDE DEF c, q
  <2>1. VoteCounted(H, c, k, v, G, p, j, q)
    BY <2>0, OneMoreVote, Zenon
  <2>2. V(G) = IF c = q THEN V(H) \cup {v} ELSE V(H)
    BY <2>1, Zenon DEF VoteCounted
  <2>3. B(G) = IF c = p /\ k > j THEN B(H) \cup {v} ELSE B(H)
    BY <2>1, Zenon DEF VoteCounted
  <2>4. /\ \A x \in Nat : Backers(H, q, x) \subseteq Backers(G, q, x)
        /\ c # q => \A x \in Nat : Backers(G, q, x) = Backers(H, q, x)
    BY <2>1, Zenon DEF VoteCounted
  <2>5. \A x \in Nat : F(H)[x] \subseteq F(G)[x]
    BY <2>4, Zenon
  <2>6. c # q => F(G) = F(H)
    BY <2>4, Zenon
  <2> HIDE DEF F, V, B, c, q
  <2> QED BY <2>2, <2>3, <2>5, <2>6, Zenon
<1>7. CASE c # q /\ ~ (c = p /\ k > j)
  <2> HIDE DEF F, V, B, c, q
  <2> QED BY <1>3, <1>4, <1>6, <1>7, Zenon
<1>8. CASE c = p /\ k > j
  <2>1. v \in V(H) /\ v \notin B(H) =>
          \E I \in SUBSET B(H) : Cardinality(I) > Cardinality(Validator) - Threshold
    BY <1>8, WhyGiveUp, Zenon
  <2> HIDE DEF F, V, B, c, q
  <2>2. OneOfThree(F(H), V(H), B(H) \cup {v})
    BY <1>4, <1>5, <2>1, GiveUpKeeps, Zenon
  <2>3. F(G) = F(H) /\ V(G) = V(H) /\ B(G) = B(H) \cup {v}
    BY <1>2, <1>6, <1>8, Zenon
  <2> QED BY <1>3, <2>2, <2>3, Zenon
<1>9. CASE c = q
  <2>1. v \in B(H) => \E x \in Nat : Cardinality(F(H)[x]) >= Threshold
    BY <1>9, WhyReturn, Zenon DEF Certified
  <2> HIDE DEF F, V, B, c, q
  <2>2. OneOfThree(F(G), V(H) \cup {v}, B(H))
    BY <1>4, <1>5, <1>6, <2>1, ReturnKeeps, Zenon
  <2>3. V(G) = V(H) \cup {v} /\ B(G) = B(H)
    BY <1>2, <1>6, <1>9, Zenon
  <2> QED BY <1>3, <2>2, <2>3, Zenon
<1> QED BY <1>7, <1>8, <1>9, Zenon

-----------------------------------------------------------------------------
(* What a core answers.                                                    *)

(* Accepts and proposals that others add change nothing for a core.        *)
LEMMA BackedGrows ==
  ASSUME NEW H, NEW G, NEW P, NEW R, H \subseteq G, P \subseteq R, NEW p, Backed(H, P, p)
  PROVE  Backed(G, R, p)
<1> DEFINE A == Backers(H, LastHash(p), Skips(p))
           B == Backers(G, LastHash(p), Skips(p))
<1>1. A \subseteq B /\ B \subseteq Validator
  BY Zenon DEF Backers
<1>2. Cardinality(A) <= Cardinality(B) /\ Cardinality(A) \in Nat /\ Cardinality(B) \in Nat
  BY <1>1, SubsetCard, Zenon
<1>3. Cardinality(A) >= Threshold
  BY Zenon DEF Backed, Certified
<1>4. Cardinality(B) >= Threshold
  BY <1>2, <1>3, ThresholdFacts
<1> QED BY <1>4, Zenon DEF Backed, Certified

(* What others accept and propose leaves the core of a validator in order. *)
LEMMA LocalGrows ==
  ASSUME NEW s, NEW w, NEW H, NEW G, NEW P, NEW R, H \subseteq G, P \subseteq R,
         \A a \in G \ H : a.from # w, LocalOK(s, w, H, P)
  PROVE  LocalOK(s, w, G, R)
<1>1. SentOK(s, w, G)
  BY Zenon DEF LocalOK, SentOK
<1>2. VotesOK(s, w, G)
  BY Zenon DEF LocalOK, VotesOK
<1> QED BY <1>1, <1>2, Zenon DEF LocalOK

(* The core c and the event e after a step of v that made the accepts of G *)
(* out of those of H.                                                      *)
Answer(c, e, v, H, P, G) ==
  /\ H \subseteq G
  /\ \A a \in G \ H : a.from = v
  /\ WorldOK(G, P)
  /\ LocalOK(c, v, G, P)
  /\ SettledOK(c)
  /\ e.kind = "Propose" => Backed(G, P, e.prop)
  /\ e.kind = "Accept" => e.accept \in G

(* What storing an accept changes.                                         *)
LEMMA StoreIs ==
  ASSUME NEW s, IsCore(s), NEW a, NEW t, t = StoreAccept(s, a)
  PROVE  /\ IsCore(t)
         /\ t.confirmed = s.confirmed /\ t.sent = s.sent
         /\ t.accepts = s.accepts \cup {a} /\ t.maxHeight = s.maxHeight
BY Zenon DEF IsCore, StoreAccept

SetSent(s, p, k, t) == t = [s EXCEPT !.sent[p] = k]

(* t is s but for what it sent on p.                                        *)
SameBut(s, p, t) ==
  /\ IsCore(t)
  /\ t.confirmed = s.confirmed /\ t.accepts = s.accepts
  /\ DOMAIN t.sent = DOMAIN s.sent
  /\ \A q \in DOMAIN s.sent : q # p => t.sent[q] = s.sent[q]

Sends(s, p, k, t) == SameBut(s, p, t) /\ t.sent[p] = k

(* What setting skips_sent changes.                                        *)
LEMMA SetSentIs ==
  ASSUME NEW s, IsCore(s), NEW p, p \in DOMAIN s.sent, NEW k, NEW t, SetSent(s, p, k, t)
  PROVE  Sends(s, p, k, t)
<1>1. t = [confirmed |-> s.confirmed, sent |-> [s.sent EXCEPT ![p] = k],
           accepts |-> s.accepts, maxHeight |-> s.maxHeight]
  BY Zenon DEF IsCore, SetSent
<1>2. s.sent = [q \in DOMAIN s.sent |-> s.sent[q]]
  BY Zenon DEF IsCore
<1>3. t.sent = [q \in DOMAIN s.sent |-> IF q = p THEN k ELSE s.sent[q]]
  BY <1>1, <1>2, Zenon
<1> QED BY <1>1, <1>3, Zenon DEF IsCore, SameBut, Sends

(* An accept a leader adds to those it has makes a proposal with a         *)
(* threshold of accepts.                                                   *)
LEMMA ProposeOK ==
  ASSUME NEW s, NEW v, NEW P, P \subseteq Names, NEW G, NEW a \in Accepts, a \in G,
         a.prop \in P, s.accepts \subseteq G, LeadsNext(s, v, a)
  PROVE  Backed(G, P, ProposeEvent(a).prop)
<1> DEFINE q == Append(a.prop, a.skips)
<1>1. a.prop \in Names /\ a.skips \in 0 .. MaxSkips /\ a.skips \in Nat /\ a.from \in Validator
      /\ a = ProposalAccept(a.prop, a.skips, a.from)
  BY BoundAssumption DEF Accepts, ProposalAccept
<1>2. ProposeEvent(a).prop = q
  BY Zenon DEF ProposeEvent
<1>3. q \in Names /\ q # <<>> /\ LastHash(q) = a.prop /\ Skips(q) = a.skips
  BY <1>1, Built, Zenon
<1> DEFINE A == AcceptsForSkip(s, a.prop, a.skips)
           B == Backers(G, a.prop, a.skips)
<1>4. a \notin s.accepts /\ Cardinality(A) + 1 = Threshold
  BY Zenon DEF LeadsNext, Breaches
<1>5. A \cup {a.from} \subseteq B /\ B \subseteq Validator /\ a.from \notin A
  BY <1>1, <1>4, Zenon DEF AcceptsForSkip, Backers
<1>6. Cardinality(B) >= Threshold
  BY <1>1, <1>4, <1>5, OneMore, Zenon
<1> QED BY <1>1, <1>2, <1>3, <1>6, Zenon DEF Backed, Certified

(* v accepts its current proposal c with k skips, at least those it sent.  *)
LEMMA OwnAcceptOK ==
  ASSUME NEW s, NEW v \in Validator, NEW H, NEW P, WorldOK(H, P), LocalOK(s, v, H, P),
         SettledOK(s), NEW c, c = CurrentProposal(s), NEW k \in 0 .. MaxSkips, s.sent[c] <= k,
         NEW t, SameBut(s, c, t),
         NEW r, r = OwnAcceptEvent(t, v, ProposalAccept(c, k, v))
  PROVE  /\ \E G : Answer(r.core, r.event, v, H, P, G)
         /\ r.event.kind # "None" /\ c \in DOMAIN r.core.sent
<1> DEFINE a == ProposalAccept(c, k, v)
           G == H \cup {a}
           u == StoreAccept(t, a)
<1>1. c \in DOMAIN s.sent /\ c \in Names /\ c \in P /\ Height(s) \in Nat /\ Len(c) <= Height(s) + 1
      /\ Len(c) \in Nat
  BY CurrentIs DEF WorldOK, LocalOK, Names
<1>2. a \in Accepts /\ a.prop = c /\ a.skips = k /\ a.from = v
  BY <1>1, Zenon DEF Accepts, ProposalAccept
<1>3. k \in Nat
  BY BoundAssumption
<1>4. LockOK(G)
  <2>1. OneVote(H, CurrentProposal(s), k, v, G)
    BY Zenon DEF OneVote
  <2> HIDE DEF G
  <2> QED BY <1>3, <2>1, VoteLocks, Zenon
<1>5. WorldOK(G, P)
  <2>1. \A p \in P : p = <<>> \/ Backed(G, P, p)
    BY BackedGrows, Zenon DEF WorldOK
  <2> HIDE DEF a
  <2> QED BY <1>1, <1>2, <1>4, <2>1, Zenon DEF WorldOK
<1>6. /\ u.confirmed = s.confirmed /\ u.accepts = s.accepts \cup {a} /\ IsCore(u)
      /\ DOMAIN u.sent = DOMAIN s.sent
      /\ \A q \in DOMAIN s.sent : q # c => u.sent[q] = s.sent[q]
  BY StoreIs DEF SameBut
<1>7. SetSent(u, c, k, r.core)
  BY <1>2, Zenon DEF OwnAcceptEvent, SetSent
<1> HIDE DEF a, u
<1>8. /\ IsCore(r.core)
      /\ r.core.confirmed = s.confirmed /\ r.core.accepts = s.accepts \cup {a}
      /\ DOMAIN r.core.sent = DOMAIN s.sent
      /\ r.core.sent[c] = k
      /\ \A q \in DOMAIN s.sent : q # c => r.core.sent[q] = s.sent[q]
  <2>1. IsCore(u) /\ c \in DOMAIN u.sent
    BY <1>1, <1>6, Zenon
  <2>2. Sends(u, c, k, r.core)
    BY <1>7, <2>1, SetSentIs, Zenon
  <2> QED BY <1>6, <2>2 DEF SameBut, Sends
<1> DEFINE d == r.core
<1> HIDE DEF d
<1>9. SentOK(d, v, G)
  BY <1>8 DEF SentOK, LocalOK, d, a
<1>10. VotesOK(d, v, G)
  <2>1. Height(d) = Height(s)
    BY <1>8, Zenon DEF Height, d
  <2>2. ASSUME NEW b \in H, b.from = v
        PROVE  IF b.prop \in DOMAIN d.sent
               THEN Len(b.prop) <= Height(d) + 1 /\ b.skips <= d.sent[b.prop]
               ELSE Len(b.prop) <= Height(d)
    <3>1. IF b.prop \in DOMAIN s.sent
          THEN Len(b.prop) <= Height(s) + 1 /\ b.skips <= s.sent[b.prop]
          ELSE Len(b.prop) <= Height(s)
      BY <2>2, Zenon DEF LocalOK, VotesOK
    <3>2. b.skips \in Int
      BY BoundAssumption DEF WorldOK, Accepts
    <3>3. s.sent[c] \in Int
      BY <1>1, BoundAssumption DEF LocalOK, SentOK, NotSent
    <3>4. b.prop = c => b.skips <= k
      BY <1>1, <1>3, <3>1, <3>2, <3>3
    <3> QED BY <1>8, <2>1, <3>1, <3>4, Zenon DEF d
  <2>3. Len(a.prop) <= Height(d) + 1 /\ a.prop \in DOMAIN d.sent /\ a.skips <= d.sent[a.prop]
    BY <1>1, <1>2, <1>3, <1>8, <2>1 DEF d
  <2> QED BY <2>2, <2>3, Zenon DEF VotesOK
<1>11. LocalOK(d, v, G, P)
  BY <1>8, <1>9, <1>10, Zenon DEF LocalOK, d
<1>12. SettledOK(d)
  BY <1>8, SamePending, Zenon DEF SettledOK, d
<1>13. r.event.kind = "Propose" => Backed(G, P, r.event.prop)
  <2>1. ASSUME r.event.kind = "Propose" PROVE r.event = ProposeEvent(a) /\ LeadsNext(t, v, a)
    BY <2>1, Zenon DEF OwnAcceptEvent, a
  <2>2. t.accepts \subseteq G /\ P \subseteq Names
    BY Zenon DEF LocalOK, WorldOK, TreeOK, SameBut
  <2>3. a \in G
    BY Zenon
  <2>4. ASSUME r.event.kind = "Propose" PROVE Backed(G, P, ProposeEvent(a).prop)
    BY <1>1, <1>2, <2>1, <2>2, <2>3, <2>4, ProposeOK, Zenon
  <2> QED BY <2>1, <2>4, Zenon
<1>14. r.event.kind = "Accept" => r.event.accept \in G
  BY Zenon DEF OwnAcceptEvent, ProposeEvent, a
<1>15. r.event.kind # "None"
  BY Zenon DEF OwnAcceptEvent, ProposeEvent
<1>16. \A b \in G \ H : b.from = v
  BY <1>2, Zenon
<1> QED BY <1>1, <1>5, <1>8, <1>11, <1>12, <1>13, <1>14, <1>15, <1>16, Zenon DEF Answer, d

(* The skip of the next accept is not below the last one sent.             *)
LEMMA NextSkipIs ==
  ASSUME NEW s, NEW p, s.sent[p] \in (0 .. MaxSkips) \cup {NotSent}, NEW skip \in BOOLEAN,
         NEW n, n = NextAcceptSkip(s, p, skip)
  PROVE  n \in Nat /\ s.sent[p] <= n /\ (~ skip => n <= MaxSkips)
<1>1. HighestSkipWithInverse(s, p) \in 0 .. MaxSkips
  BY HighestSkipIs, Zenon
<1>2. CASE s.sent[p] = NotSent
  BY <1>2, BoundAssumption DEF NextAcceptSkip, NotSent
<1>3. CASE s.sent[p] # NotSent
  <2>1. n = Greater(IF skip THEN s.sent[p] + 1 ELSE s.sent[p], HighestSkipWithInverse(s, p))
    BY <1>3, Zenon DEF NextAcceptSkip
  <2> QED BY <1>1, <1>3, <2>1, BoundAssumption DEF Greater
<1> QED BY <1>2, <1>3, Zenon

(* The accept that get_next_accept_event makes keeps the world and the     *)
(* core in order.                                                          *)
LEMMA GetNextOK ==
  ASSUME NEW s, NEW v \in Validator, NEW H, NEW P, WorldOK(H, P), LocalOK(s, v, H, P),
         SettledOK(s), NEW skip \in BOOLEAN,
         skip => NextAcceptSkip(s, CurrentProposal(s), skip) <= MaxSkips,
         NEW r, r = GetNextAcceptEvent(s, v, skip)
  PROVE  /\ \E G : Answer(r.core, r.event, v, H, P, G)
         /\ r.event.kind # "None" /\ CurrentProposal(s) \in DOMAIN r.core.sent
<1> DEFINE c == CurrentProposal(s)
           k == NextAcceptSkip(s, c, skip)
<1>1. c \in DOMAIN s.sent
  BY CurrentIs, Zenon DEF WorldOK
<1>2. s.sent[c] \in (0 .. MaxSkips) \cup {NotSent}
  BY <1>1, Zenon DEF LocalOK, SentOK
<1>3. k \in 0 .. MaxSkips /\ s.sent[c] <= k
  BY <1>2, NextSkipIs, BoundAssumption
<1>4. r = OwnAcceptEvent(s, v, ProposalAccept(c, k, v))
  BY Zenon DEF GetNextAcceptEvent, NextAccept
<1>5. IsCore(s)
  BY Zenon DEF LocalOK
<1>6. SameBut(s, c, s)
  BY <1>5, Zenon DEF SameBut
<1>7. c = CurrentProposal(s)
  BY Zenon
<1> HIDE DEF c, k
<1>8. /\ \E G : Answer(r.core, r.event, v, H, P, G)
      /\ r.event.kind # "None" /\ c \in DOMAIN r.core.sent
  BY <1>3, <1>4, <1>6, <1>7, OwnAcceptOK, Zenon
<1> QED BY <1>7, <1>8, Zenon

(* A core that makes no accept.                                            *)
LEMMA NoAnswer ==
  ASSUME NEW t, NEW v, NEW H, NEW P, WorldOK(H, P), LocalOK(t, v, H, P), SettledOK(t)
  PROVE  \E G : Answer(t, NoEvent, v, H, P, G)
<1>1. Answer(t, NoEvent, v, H, P, H)
  BY Zenon DEF Answer, NoEvent
<1> QED BY <1>1, Zenon

(* The accepts of others and the height seen do not matter to LocalOK.     *)
LEMMA AcceptsOK ==
  ASSUME NEW s, NEW v, NEW H, NEW P, LocalOK(s, v, H, P), SettledOK(s), NEW t, IsCore(t),
         t.confirmed = s.confirmed, t.sent = s.sent, t.accepts \subseteq H
  PROVE  LocalOK(t, v, H, P) /\ SettledOK(t)
<1>1. Height(t) = Height(s) /\ Pending(t) = Pending(s)
  BY SamePending, Zenon
<1> QED BY <1>1, Zenon DEF LocalOK, SentOK, VotesOK, SettledOK

(* t has the accept a besides those of s, and sent as much on c or more.    *)
MoreOn(s, c, a, t) ==
  /\ t.confirmed = s.confirmed /\ t.accepts = s.accepts \cup {a}
  /\ DOMAIN t.sent = DOMAIN s.sent
  /\ t.sent[c] \in Int /\ s.sent[c] <= t.sent[c]
  /\ \A q \in DOMAIN s.sent : q # c => t.sent[q] = s.sent[q]

(* The current proposal stays when v sends more skips on it and has one    *)
(* more accept of it.                                                      *)
LEMMA CurrentStays ==
  ASSUME NEW s, NEW v, NEW H, NEW P, TreeOK(P), LocalOK(s, v, H, P), SettledOK(s),
         NEW c, c = CurrentProposal(s), NEW a, a.prop = c, NEW t, MoreOn(s, c, a, t)
  PROVE  CurrentProposal(t) = c
<1> USE DEF MoreOn
<1> DEFINE d == s.confirmed
           hs == HighestSkipWithInverse(s, d)
           ht == HighestSkipWithInverse(t, d)
<1>1. d \in DOMAIN s.sent /\ DOMAIN s.sent \subseteq P /\ P \subseteq Names
  BY Zenon DEF LocalOK, TreeOK
<1>2. s.sent[d] \in Int
  BY <1>1, BoundAssumption DEF LocalOK, SentOK, NotSent
<1>3. NextPendingProposal(t) = NextPendingProposal(s)
  BY SamePending, Zenon
<1>4. HighestNextPending(s) = {p \in NextPendingProposal(s) : hs <= Skips(p) /\ s.sent[d] <= Skips(p)}
      /\ HighestNextPending(t) = {p \in NextPendingProposal(s) : ht <= Skips(p) /\ t.sent[d] <= Skips(p)}
  BY <1>3, Zenon DEF HighestNextPending
<1>5. CASE c = d
  <2>1. HighestNextPending(s) = {}
    <3>1. c \notin Pending(s)
      BY <1>1, <1>5 DEF Pending, Height, TreeOK, Names
    <3>2. HighestNextPending(s) # {} => c \in HighestNextPending(s)
      BY Zenon DEF CurrentProposal
    <3> QED BY <1>1, <1>4, <3>1, <3>2, OneHighest, Zenon
  <2>2. hs <= ht /\ hs \in Int /\ ht \in Int
    <3>1. \A k \in 0 .. MaxSkips : AcceptsForSkip(s, d, k) \subseteq AcceptsForSkip(t, d, k)
      BY Zenon DEF AcceptsForSkip
    <3>2. hs <= ht
      BY <3>1, HighestSkipGrows, Zenon
    <3>3. hs \in 0 .. MaxSkips /\ ht \in 0 .. MaxSkips
      BY HighestSkipIs, Zenon
    <3> HIDE DEF hs, ht
    <3> QED BY <3>2, <3>3, BoundAssumption
  <2>3. \A p \in NextPendingProposal(s) : Skips(p) \in Int
    BY <1>1, OneHighest, PendingIs
  <2> HIDE DEF hs, ht
  <2>4. HighestNextPending(t) = {}
    <3>1. \A p \in NextPendingProposal(s) :
            ht <= Skips(p) /\ t.sent[d] <= Skips(p) => hs <= Skips(p) /\ s.sent[d] <= Skips(p)
      BY <1>2, <1>5, <2>2, <2>3
    <3>2. SUFFICES ASSUME NEW p \in HighestNextPending(t) PROVE FALSE
      BY Zenon
    <3>3. p \in NextPendingProposal(s) /\ ht <= Skips(p) /\ t.sent[d] <= Skips(p)
      BY <1>4, Zenon
    <3>4. p \in HighestNextPending(s)
      BY <1>4, <3>1, <3>3, Zenon
    <3> QED BY <2>1, <3>4, Zenon
  <2> QED BY <1>5, <2>4, Zenon DEF CurrentProposal
<1>6. CASE c # d
  <2>1. \A k : AcceptsForSkip(t, d, k) = AcceptsForSkip(s, d, k)
    BY <1>6 DEF AcceptsForSkip, ProposalAccept
  <2>2. hs = ht
    <3>1. \A k \in 0 .. MaxSkips : AcceptsForSkip(t, d, k) \subseteq AcceptsForSkip(s, d, k)
      BY <2>1, Zenon
    <3>2. \A k \in 0 .. MaxSkips : AcceptsForSkip(s, d, k) \subseteq AcceptsForSkip(t, d, k)
      BY <2>1, Zenon
    <3>3. hs <= ht /\ ht <= hs
      BY <3>1, <3>2, HighestSkipGrows, Zenon
    <3>4. hs \in 0 .. MaxSkips /\ ht \in 0 .. MaxSkips
      BY HighestSkipIs, Zenon
    <3> HIDE DEF hs, ht
    <3> QED BY <3>3, <3>4, BoundAssumption
  <2>3. t.sent[d] = s.sent[d]
    BY <1>1, <1>6, Zenon
  <2>4. HighestNextPending(t) = HighestNextPending(s)
    BY <1>4, <2>2, <2>3, Zenon
  <2> QED BY <2>4, Zenon DEF CurrentProposal
<1> QED BY <1>5, <1>6, Zenon

(* So does the accept made after a proposal was added.                     *)
LEMMA AfterAddOK ==
  ASSUME NEW s, NEW t, NEW v \in Validator, NEW H, NEW P, WorldOK(H, P), LocalOK(t, v, H, P),
         SettledOK(t), NEW r, r = AfterAdd(s, v, [core |-> t, event |-> NoEvent])
  PROVE  \E G : Answer(r.core, r.event, v, H, P, G)
<1>1. r = GetNextAcceptEvent(t, v, FALSE) \/ r = [core |-> t, event |-> NoEvent]
  BY Zenon DEF AfterAdd
<1>2. CASE r = GetNextAcceptEvent(t, v, FALSE)
  <2>1. FALSE \in BOOLEAN
    BY Zenon
  <2> QED BY <1>2, <2>1, GetNextOK, Zenon
<1>3. CASE r = [core |-> t, event |-> NoEvent]
  <2>1. r.core = t /\ r.event = NoEvent
    BY <1>3
  <2> QED BY <2>1, NoAnswer, ZenonT(30)
<1> QED BY <1>1, <1>2, <1>3, Zenon

(* SolidCore::receive_accept of an accept that was made.                   *)
LEMMA ReceiveAcceptOK ==
  ASSUME NEW s, NEW v \in Validator, NEW H, NEW P, WorldOK(H, P), LocalOK(s, v, H, P),
         SettledOK(s), NEW a \in H, NEW r, r = CoreReceiveAccept(s, v, a)
  PROVE  \E G : Answer(r.core, r.event, v, H, P, G)
<1>1. PICK m : m = IF Len(a.prop) > Height(s) THEN Len(a.prop) ELSE s.maxHeight
  BY Zenon
<1>2. PICK u : u = [s EXCEPT !.maxHeight = m]
  BY Zenon
<1>3. r = AfterAdd(s, v, AddAccept(u, v, a))
  BY <1>1, <1>2, Zenon DEF CoreReceiveAccept
<1>4. IsCore(u) /\ u.confirmed = s.confirmed /\ u.sent = s.sent /\ u.accepts = s.accepts
  BY <1>2, Zenon DEF LocalOK, IsCore
<1>5. a \in Accepts /\ a.prop \in Names /\ a.skips \in 0 .. MaxSkips /\ a.skips \in Nat
      /\ TreeOK(P) /\ P \subseteq Names
  BY BoundAssumption DEF WorldOK, Accepts, TreeOK
<1>6. LocalOK(u, v, H, P) /\ SettledOK(u)
  BY <1>4, AcceptsOK, SMTT(30) DEF LocalOK
<1>7. PICK t : t = StoreAccept(u, a)
  BY Zenon
<1>8. IsCore(t) /\ t.confirmed = u.confirmed /\ t.sent = u.sent /\ t.accepts = u.accepts \cup {a}
  BY <1>4, <1>7, StoreIs
<1>9. LocalOK(t, v, H, P) /\ SettledOK(t)
  <2>1. t.accepts \subseteq H
    BY <1>6, <1>8, Zenon DEF LocalOK
  <2> QED BY <1>6, <1>8, <2>1, AcceptsOK, Zenon
<1>10. \/ AddAccept(u, v, a) = [core |-> u, event |-> NoEvent]
       \/ AddAccept(u, v, a) = [core |-> t, event |-> NoEvent]
       \/ /\ a.prop \in DOMAIN u.sent /\ LeadsNext(u, v, a)
          /\ AddAccept(u, v, a) = [core |-> t, event |-> ProposeEvent(a)]
       \/ /\ a.prop \in DOMAIN u.sent /\ a.skips > Greater(0, u.sent[a.prop])
          /\ CurrentProposal(u) = a.prop
          /\ AddAccept(u, v, a) = GetNextAcceptEvent([t EXCEPT !.sent[a.prop] = a.skips], v, FALSE)
  BY <1>7, Zenon DEF AddAccept
<1>11. CASE AddAccept(u, v, a) = [core |-> u, event |-> NoEvent]
  BY <1>3, <1>6, <1>11, AfterAddOK
<1>12. CASE AddAccept(u, v, a) = [core |-> t, event |-> NoEvent]
  BY <1>3, <1>9, <1>12, AfterAddOK, Zenon
<1>13. CASE /\ a.prop \in DOMAIN u.sent /\ LeadsNext(u, v, a)
            /\ AddAccept(u, v, a) = [core |-> t, event |-> ProposeEvent(a)]
  <2>1. ProposeEvent(a) # NoEvent
    BY Zenon DEF ProposeEvent, NoEvent
  <2>2. r = [core |-> t, event |-> ProposeEvent(a)]
    BY <1>3, <1>13, <2>1 DEF AfterAdd
  <2>3. Backed(H, P, ProposeEvent(a).prop)
    <3>1. a.prop \in P /\ u.accepts \subseteq H
      BY <1>6, <1>13, Zenon DEF LocalOK
    <3> QED BY <1>5, <1>13, <3>1, ProposeOK, Zenon
  <2>4. ProposeEvent(a).kind = "Propose"
    BY Zenon DEF ProposeEvent
  <2>5. Answer(t, ProposeEvent(a), v, H, P, H)
    BY <1>9, <2>3, <2>4, Zenon DEF Answer
  <2> QED BY <2>2, <2>5
<1>14. CASE /\ a.prop \in DOMAIN u.sent /\ a.skips > Greater(0, u.sent[a.prop])
            /\ CurrentProposal(u) = a.prop
            /\ AddAccept(u, v, a) = GetNextAcceptEvent([t EXCEPT !.sent[a.prop] = a.skips], v, FALSE)
  <2>1. PICK w : w = [t EXCEPT !.sent[a.prop] = a.skips]
    BY Zenon
  <2>2. Sends(t, a.prop, a.skips, w)
    <3>1. SetSent(t, a.prop, a.skips, w)
      BY <2>1, Zenon DEF SetSent
    <3>2. a.prop \in DOMAIN t.sent
      BY <1>8, <1>14, Zenon
    <3> QED BY <1>8, <3>1, <3>2, SetSentIs, Zenon
  <2>3. u.sent[a.prop] \in Int /\ u.sent[a.prop] <= a.skips
    <3>1. u.sent[a.prop] \in Int
      BY <1>6, <1>14, BoundAssumption DEF LocalOK, SentOK, NotSent
    <3> QED BY <1>5, <1>14, <3>1 DEF Greater
  <2>4. CurrentProposal(t) = a.prop
    <3>1. MoreOn(u, a.prop, a, t)
      BY <1>8, <2>3 DEF MoreOn
    <3> QED BY <1>5, <1>6, <1>14, <3>1, CurrentStays, Zenon
  <2>5. CurrentProposal(w) = a.prop
    <3>1. MoreOn(u, a.prop, a, w)
      BY <1>5, <1>8, <2>2, <2>3 DEF MoreOn, SameBut, Sends
    <3> QED BY <1>5, <1>6, <1>14, <3>1, CurrentStays, Zenon
  <2>6. PICK k : k = NextAcceptSkip(w, a.prop, FALSE)
    BY Zenon
  <2>7. k \in 0 .. MaxSkips /\ a.skips <= k
    <3>1. w.sent[a.prop] = a.skips
      BY <2>2, Zenon DEF Sends
    <3>2. w.sent[a.prop] \in (0 .. MaxSkips) \cup {NotSent} /\ FALSE \in BOOLEAN
      BY <1>5, <3>1, Zenon
    <3>3. k \in Nat /\ w.sent[a.prop] <= k /\ k <= MaxSkips
      BY <2>6, <3>2, NextSkipIs, Zenon
    <3> QED BY <3>1, <3>3, BoundAssumption
  <2>8. t.sent[a.prop] <= k
    BY <1>5, <1>8, <2>3, <2>7, BoundAssumption
  <2>9. AddAccept(u, v, a) = OwnAcceptEvent(w, v, ProposalAccept(a.prop, k, v))
    <3>1. AddAccept(u, v, a) = GetNextAcceptEvent(w, v, FALSE)
      BY <1>14, <2>1, Zenon
    <3> QED BY <2>5, <2>6, <3>1, Zenon DEF GetNextAcceptEvent, NextAccept
  <2>10. PICK e : e = AddAccept(u, v, a)
    BY Zenon
  <2>11. /\ \E G : Answer(e.core, e.event, v, H, P, G)
         /\ e.event.kind # "None"
    <3>1. SameBut(t, a.prop, w)
      BY <2>2, Zenon DEF Sends
    <3>2. e = OwnAcceptEvent(w, v, ProposalAccept(a.prop, k, v)) /\ a.prop = CurrentProposal(t)
      BY <2>4, <2>9, <2>10, Zenon
    <3> QED BY <1>9, <2>7, <2>8, <3>1, <3>2, OwnAcceptOK, Zenon
  <2>12. r = e
    <3>1. e.event # NoEvent
      <4>1. NoEvent.kind = "None"
        BY Zenon DEF NoEvent
      <4> QED BY <2>11, <4>1, Zenon
    <3> QED BY <1>3, <2>10, <3>1, Zenon DEF AfterAdd
  <2> QED BY <2>11, <2>12, Zenon
<1> QED BY <1>10, <1>11, <1>12, <1>13, <1>14, Zenon

-----------------------------------------------------------------------------
(* A proposal is cached, and what it commits is committed.                 *)

(* What inserting a proposal changes.                                      *)
LEMMA InsertIs ==
  ASSUME NEW s, IsCore(s), NEW p, p \notin DOMAIN s.sent, NEW t, t = Insert(s, p)
  PROVE  /\ IsCore(t)
         /\ t.confirmed = s.confirmed /\ t.accepts = s.accepts
         /\ DOMAIN t.sent = {p} \cup DOMAIN s.sent
         /\ t.sent[p] = NotSent
         /\ \A q \in DOMAIN s.sent : t.sent[q] = s.sent[q]
<1> DEFINE f == [q \in {p} \cup DOMAIN s.sent |-> IF q = p THEN NotSent ELSE s.sent[q]]
<1>1. t = [confirmed |-> s.confirmed, sent |-> f, accepts |-> s.accepts,
           maxHeight |-> Greater(s.maxHeight, Len(p))]
  BY Zenon DEF Insert, IsCore
<1> QED BY <1>1 DEF IsCore

(* Inserting an acceptable proposal keeps the core in order.               *)
LEMMA InsertOK ==
  ASSUME NEW s, NEW v, NEW H, NEW P, LocalOK(s, v, H, P), TreeOK(P), NEW p \in P,
         Acceptable(s, p), NEW t, t = Insert(s, p)
  PROVE  LocalOK(t, v, H, P)
<1>1. p \notin DOMAIN s.sent /\ Height(s) < Len(p) /\ IsCore(s)
  BY Zenon DEF Acceptable, LocalOK
<1>2. /\ IsCore(t)
      /\ t.confirmed = s.confirmed /\ t.accepts = s.accepts
      /\ DOMAIN t.sent = {p} \cup DOMAIN s.sent
      /\ t.sent[p] = NotSent
      /\ \A q \in DOMAIN s.sent : t.sent[q] = s.sent[q]
  BY <1>1, InsertIs
<1>3. SentOK(t, v, H)
  BY <1>2 DEF LocalOK, SentOK
<1>4. VotesOK(t, v, H)
  <2>1. Height(t) = Height(s) /\ Height(s) \in Nat /\ Len(p) \in Nat
    BY <1>2 DEF Height, LocalOK, TreeOK, Names
  <2>2. SUFFICES ASSUME NEW a \in H, a.from = v
                 PROVE  IF a.prop \in DOMAIN t.sent
                        THEN Len(a.prop) <= Height(t) + 1 /\ a.skips <= t.sent[a.prop]
                        ELSE Len(a.prop) <= Height(t)
    BY Zenon DEF VotesOK
  <2>3. IF a.prop \in DOMAIN s.sent
        THEN Len(a.prop) <= Height(s) + 1 /\ a.skips <= s.sent[a.prop]
        ELSE Len(a.prop) <= Height(s)
    BY <2>2, Zenon DEF LocalOK, VotesOK
  <2>4. a.prop # p
    BY <1>1, <2>1, <2>3
  <2> QED BY <1>2, <2>1, <2>3, <2>4, Zenon
<1> QED BY <1>2, <1>3, <1>4, Zenon DEF LocalOK

(* What confirming a proposal changes: the cache keeps its descendants.    *)
LEMMA ConfirmIs ==
  ASSUME NEW s, IsCore(s), NEW p, NEW t, t = Confirm(s, p), NEW u, u = [s EXCEPT !.confirmed = p]
  PROVE  /\ IsCore(t)
         /\ t.confirmed = p /\ u.confirmed = p /\ u.sent = s.sent
         /\ t.accepts \subseteq s.accepts
         /\ DOMAIN t.sent = {q \in DOMAIN s.sent : IsDecendent(u, q)}
         /\ \A q \in DOMAIN t.sent : t.sent[q] = s.sent[q]
<1>1. u = [confirmed |-> p, sent |-> s.sent, accepts |-> s.accepts, maxHeight |-> s.maxHeight]
  BY Zenon DEF IsCore
<1> DEFINE kept == {q \in DOMAIN s.sent : IsDecendent(u, q)}
           accs == {a \in s.accepts : a.prop \notin DOMAIN s.sent \ kept}
<1>2. t = [u EXCEPT !.sent = [q \in kept |-> s.sent[q]], !.accepts = accs]
  BY <1>1 DEF Confirm, Purge
<1> HIDE DEF kept
<1>3. t = [confirmed |-> p, sent |-> [q \in kept |-> s.sent[q]], accepts |-> accs,
           maxHeight |-> s.maxHeight]
  BY <1>1, <1>2, ZenonT(30)
<1>4. IsCore(t) /\ t.confirmed = p /\ t.accepts \subseteq s.accepts /\ DOMAIN t.sent = kept
      /\ \A q \in DOMAIN t.sent : t.sent[q] = s.sent[q]
  BY <1>3 DEF IsCore
<1> QED BY <1>1, <1>4, Zenon DEF kept

(* Confirming the parent of the highest proposal keeps the core in order.  *)
LEMMA ConfirmOK ==
  ASSUME NEW s, NEW v, NEW H, NEW P, LocalOK(s, v, H, P), TreeOK(P), H \subseteq Accepts,
         NEW p \in MaxContinuousProposals(s), Len(p) >= Height(s) + 2,
         NEW t, t = Confirm(s, LastHash(p))
  PROVE  LocalOK(t, v, H, P) /\ SettledOK(t)
<1> DEFINE d == LastHash(p)
<1>1. PICK u : u = [s EXCEPT !.confirmed = d]
  BY Zenon
<1>2. IsCore(s) /\ s.confirmed \in DOMAIN s.sent /\ DOMAIN s.sent \subseteq P /\ P \subseteq Names
      /\ s.accepts \subseteq H
  BY Zenon DEF LocalOK, TreeOK
<1>3. p \in DOMAIN s.sent /\ Len(p) > Height(s) /\ IsDecendent(s, p) /\ p \in Pending(s)
      /\ \A q \in Pending(s) : Len(q) < Len(p) \/ (Len(q) = Len(p) /\ Skips(q) <= Skips(p))
  BY Zenon DEF MaxContinuousProposals, Pending
<1>4. Height(s) \in Nat /\ Height(s) = Len(s.confirmed) /\ s.confirmed \in Names /\ p \in Names
      /\ Len(p) \in Nat /\ p # <<>>
  BY <1>2, <1>3 DEF Height, Names
<1>5. d \in Names /\ Len(d) = Len(p) - 1 /\ Skips(p) \in Nat /\ p = Append(d, Skips(p))
  BY <1>4, Parent
<1>6. \A i \in 0 .. Len(d) : SubSeq(d, 1, i) = SubSeq(p, 1, i)
  BY <1>5, BuiltOn
<1>7. \A i \in Height(s) .. Len(p) : SubSeq(p, 1, i) \in DOMAIN s.sent
  BY <1>3, Zenon DEF IsDecendent
<1>8. d \in DOMAIN s.sent /\ Len(d) >= Height(s) + 1 /\ Len(d) \in Nat
  <2>1. Len(d) \in Height(s) .. Len(p) /\ Len(d) \in 0 .. Len(d)
    BY <1>4, <1>5
  <2>2. SubSeq(d, 1, Len(d)) = d
    BY <1>5, <2>1, Prefixes, Zenon
  <2>3. Len(d) >= Height(s) + 1 /\ Len(d) \in Nat
    BY <1>4, <1>5
  <2> HIDE DEF d
  <2>4. d \in DOMAIN s.sent
    BY <1>6, <1>7, <2>1, <2>2, Zenon
  <2> QED BY <2>3, <2>4, Zenon
<1> HIDE DEF d
<1>9. /\ IsCore(t)
      /\ t.confirmed = d /\ u.confirmed = d /\ u.sent = s.sent
      /\ t.accepts \subseteq s.accepts
      /\ DOMAIN t.sent = {q \in DOMAIN s.sent : IsDecendent(u, q)}
      /\ \A q \in DOMAIN t.sent : t.sent[q] = s.sent[q]
  BY <1>1, <1>2, ConfirmIs DEF d
<1>10. Height(t) = Len(d) /\ Height(u) = Len(d)
  BY <1>9, Zenon DEF Height
<1>11. d \in DOMAIN t.sent
  <2>1. Precedes(d, d) /\ SubSeq(d, 1, Len(d)) = d
    BY <1>5, <1>8, Prefixes DEF Precedes
  <2>2. \A i \in Len(d) .. Len(d) : i = Len(d)
    BY <1>8
  <2>3. IsDecendent(u, d)
    BY <1>8, <1>9, <1>10, <2>1, <2>2, Zenon DEF IsDecendent
  <2> QED BY <1>8, <1>9, <2>3, Zenon
<1>12. SentOK(t, v, H)
  BY <1>9 DEF LocalOK, SentOK
<1>13. VotesOK(t, v, H)
  <2>1. SUFFICES ASSUME NEW a \in H, a.from = v
                 PROVE  IF a.prop \in DOMAIN t.sent
                        THEN Len(a.prop) <= Height(t) + 1 /\ a.skips <= t.sent[a.prop]
                        ELSE Len(a.prop) <= Height(t)
    BY Zenon DEF VotesOK
  <2>2. IF a.prop \in DOMAIN s.sent
        THEN Len(a.prop) <= Height(s) + 1 /\ a.skips <= s.sent[a.prop]
        ELSE Len(a.prop) <= Height(s)
    BY <2>1 DEF LocalOK, VotesOK
  <2>3. Len(a.prop) \in Nat
    BY DEF Accepts, Names
  <2>4. Len(a.prop) <= Height(t)
    BY <1>4, <1>8, <1>10, <2>2, <2>3
  <2> QED BY <1>8, <1>9, <1>10, <2>2, <2>3, <2>4
<1>14. Append(d, Skips(p)) \in P
  BY <1>2, <1>3, <1>5, Zenon
<1>15. LocalOK(t, v, H, P)
  BY <1>2, <1>5, <1>9, <1>11, <1>12, <1>13, <1>14 DEF LocalOK
<1>16. SettledOK(t)
  <2>1. SUFFICES ASSUME NEW q \in Pending(t) PROVE Len(q) <= Len(d) + 1
    BY <1>10, Zenon DEF SettledOK
  <2>2. q \in DOMAIN t.sent /\ Len(q) > Len(d) /\ IsDecendent(t, q)
    BY <1>10 DEF Pending
  <2>3. q \in DOMAIN s.sent /\ q \in Names /\ Len(q) \in Nat
    BY <1>2, <1>9, <2>2 DEF Names
  <2>4. Precedes(d, q) /\ \A i \in Len(d) .. Len(q) : SubSeq(q, 1, i) \in DOMAIN s.sent
    BY <1>9, <1>10, <2>2, Zenon DEF IsDecendent
  <2>5. \A i \in 0 .. Len(d) : SubSeq(q, 1, i) = SubSeq(p, 1, i)
    <3>1. SubSeq(q, 1, Len(d)) = d /\ Len(d) \in 0 .. Len(q)
      BY <1>8, <2>2, <2>3, <2>4 DEF Precedes
    <3>2. \A i \in 0 .. Len(d) : SubSeq(d, 1, i) = SubSeq(q, 1, i)
      BY <2>3, <3>1, Prefixes
    <3> QED BY <1>6, <3>2
  <2>6. IsDecendent(s, q)
    <3>1. Height(s) \in 0 .. Len(d) /\ Height(s) <= Len(q)
      BY <1>4, <1>8, <2>2, <2>3
    <3>2. SubSeq(p, 1, Height(s)) = s.confirmed
      BY <1>3, <1>4 DEF IsDecendent, Precedes
    <3>3. Precedes(s.confirmed, q)
      BY <1>4, <2>5, <3>1, <3>2 DEF Precedes
    <3>4. ASSUME NEW i \in Height(s) .. Len(q) PROVE SubSeq(q, 1, i) \in DOMAIN s.sent
      <4>1. CASE i <= Len(d)
        <5>1. i \in 0 .. Len(d) /\ i \in Height(s) .. Len(p)
          BY <1>4, <1>5, <1>8, <4>1
        <5> QED BY <1>7, <2>5, <5>1, Zenon
      <4>2. CASE i > Len(d)
        <5>1. i \in Len(d) .. Len(q)
          BY <1>4, <1>8, <2>3, <4>2
        <5> QED BY <2>4, <5>1, Zenon
      <4> QED BY <1>4, <1>8, <4>1, <4>2
    <3> QED BY <3>3, <3>4 DEF IsDecendent
  <2>7. q \in Pending(s)
    BY <1>4, <1>8, <2>2, <2>3, <2>6 DEF Pending
  <2> QED BY <1>3, <1>4, <1>5, <2>3, <2>7
<1> QED BY <1>15, <1>16, Zenon

(* So does committing as long as something is left to commit.              *)
LEMMA CommitOK ==
  ASSUME NEW s, NEW v, NEW H, NEW P, LocalOK(s, v, H, P), TreeOK(P), H \subseteq Accepts,
         NEW c \in CommitAll(s)
  PROVE  LocalOK(c, v, H, P) /\ SettledOK(c)
<1>1. DOMAIN s.sent \subseteq P /\ s.confirmed \in DOMAIN s.sent /\ P \subseteq Names
  BY Zenon DEF LocalOK, TreeOK
<1>2. Height(s) \in Nat /\ \A q \in P : Len(q) \in Nat
  BY <1>1 DEF Height, Names
<1>3. CASE MaxContinuousProposals(s) = {}
  <2>1. c = s
    BY <1>3, Zenon DEF CommitAll
  <2>2. Pending(s) = {}
    <3>1. Pending(s) \subseteq P
      BY <1>1 DEF Pending
    <3> QED BY <1>3, <3>1, HighestExists, Zenon DEF MaxContinuousProposals
  <2> QED BY <2>1, <2>2 DEF SettledOK
<1>4. CASE MaxContinuousProposals(s) # {}
  <2>1. PICK p \in MaxContinuousProposals(s) :
          c = IF Len(p) < Height(s) + 2 THEN s ELSE Confirm(s, LastHash(p))
    BY <1>4 DEF CommitAll
  <2>2. p \in P /\ \A q \in Pending(s) : Len(q) \in Nat /\ Len(q) <= Len(p)
    BY <1>1, <1>2 DEF MaxContinuousProposals, Pending
  <2>3. CASE Len(p) < Height(s) + 2
    BY <1>2, <2>1, <2>2, <2>3 DEF SettledOK
  <2>4. CASE ~ (Len(p) < Height(s) + 2)
    <3>1. Len(p) >= Height(s) + 2
      BY <1>2, <2>2, <2>4
    <3> QED BY <2>1, <2>4, <3>1, ConfirmOK, Zenon
  <2> QED BY <2>3, <2>4, Zenon
<1> QED BY <1>3, <1>4, Zenon

(* Solid::next_event.                                                      *)
LEMMA AfterCommitsOK ==
  ASSUME NEW c, NEW v \in Validator, NEW H, NEW P, WorldOK(H, P), LocalOK(c, v, H, P),
         SettledOK(c), NEW armed, NEW r, r = AfterCommits(v, c, armed)
  PROVE  \E G : Answer(r.core, r.event, v, H, P, G)
<1> DEFINE e == GetNextAcceptEvent(c, v, FALSE)
<1>1. \/ r.core = c /\ r.event = NoEvent
      \/ r = InitialAccept(v, CurrentProposal(c), e)
  BY Zenon DEF AfterCommits
<1>2. CASE r.core = c /\ r.event = NoEvent
  BY <1>2, NoAnswer, Zenon
<1>3. CASE r = InitialAccept(v, CurrentProposal(c), e)
  <2>1. PICK G : Answer(e.core, e.event, v, H, P, G)
    <3>1. FALSE \in BOOLEAN
      BY Zenon
    <3> QED BY <3>1, GetNextOK, Zenon
  <2>2. r.core = e.core /\ (r.event = e.event \/ r.event = NoEvent)
    <3>1. PICK f : f = e
      BY Zenon
    <3>2. r = InitialAccept(v, CurrentProposal(c), f)
      BY <1>3, <3>1, Zenon
    <3> HIDE DEF e
    <3>3. r.core = f.core /\ (r.event = f.event \/ r.event = NoEvent)
      BY <3>2 DEF InitialAccept
    <3> QED BY <3>1, <3>3, Zenon
  <2>3. NoEvent.kind = "None"
    BY Zenon DEF NoEvent
  <2> HIDE DEF e
  <2>4. Answer(r.core, r.event, v, H, P, G)
    BY <2>1, <2>2, <2>3, Zenon DEF Answer
  <2> QED BY <2>4, Zenon
<1> QED BY <1>1, <1>2, <1>3, Zenon

(* So do all events that next_event gives.                                 *)
LEMMA NextEventsOK ==
  ASSUME NEW s, NEW v \in Validator, NEW H, NEW P, WorldOK(H, P), LocalOK(s, v, H, P),
         NEW armed, NEW r \in NextEvents(v, s, armed)
  PROVE  \E G : Answer(r.core, r.event, v, H, P, G)
<1>1. PICK c \in CommitAll(s) : r = AfterCommits(v, c, armed \/ c.confirmed # s.confirmed)
  BY Zenon DEF NextEvents
<1>2. LocalOK(c, v, H, P) /\ SettledOK(c)
  BY CommitOK, Zenon DEF WorldOK
<1> QED BY <1>1, <1>2, AfterCommitsOK, Zenon

-----------------------------------------------------------------------------
(* The steps of the validators.                                            *)

(* A proposal that carries a threshold of accepts may be added.            *)
LEMMA AddProposal ==
  ASSUME NEW H, NEW P, WorldOK(H, P), NEW p, Backed(H, P, p), Len(p) <= MaxHeight
  PROVE  WorldOK(H, P \cup {p})
<1> DEFINE R == P \cup {p}
<1>1. p \in Names /\ p # <<>> /\ LastHash(p) \in P /\ Skips(p) \in 0 .. MaxSkips
  BY Zenon DEF Backed
<1>2. TreeOK(P)
  BY Zenon DEF WorldOK
<1>3. Len(p) \in Nat /\ Len(LastHash(p)) = Len(p) - 1 /\ p = Append(LastHash(p), Skips(p))
      /\ Skips(p) \in Nat /\ LastHash(p) \in Names
  BY <1>1, Parent, Zenon
<1>4. \A i \in 0 .. Len(p) : SubSeq(p, 1, i) \in R
  <2>1. SUFFICES ASSUME NEW i \in 0 .. Len(p) PROVE SubSeq(p, 1, i) \in R
    BY Zenon
  <2>2. CASE i = Len(p)
    BY <1>1, <2>2, Prefixes, Zenon
  <2>3. CASE i # Len(p)
    <3>1. i \in 0 .. Len(LastHash(p))
      BY <1>3, <2>3
    <3>2. SubSeq(p, 1, i) = SubSeq(LastHash(p), 1, i)
      BY <1>3, <3>1, BuiltOn
    <3> QED BY <1>1, <1>2, <3>1, <3>2, Zenon DEF TreeOK
  <2> QED BY <2>2, <2>3, Zenon
<1>5. TreeOK(R)
  BY <1>1, <1>2, <1>4, Zenon DEF TreeOK
<1>6. \A q \in R : q = <<>> \/ Backed(H, R, q)
  BY BackedGrows, Zenon DEF WorldOK
<1> QED BY <1>5, <1>6, Zenon DEF WorldOK

(* What the network has become.                                            *)
LEMMA ProposedIs ==
  ASSUME NEW G, G \subseteq Accepts, NEW e, e.kind = "Accept" => e.accept \in G,
         NEW S, S \subseteq Names, network \subseteq {[prop |-> p] : p \in Names} \cup G,
         network' = network \cup Sent(e) \cup {[prop |-> p] : p \in S}
  PROVE  /\ Proposed' = Proposed \cup S
         /\ network' \subseteq {[prop |-> p] : p \in Names} \cup G
<1>1. Sent(e) \subseteq G
  BY Zenon DEF Sent
<1>2. \A a \in G, p \in Names : a # [prop |-> p]
  <2>1. \A a \in G : "from" \in DOMAIN a
    BY Zenon DEF Accepts
  <2>2. \A p : "from" \notin DOMAIN [prop |-> p]
    BY Zenon
  <2> QED BY <2>1, <2>2, Zenon
<1>3. \A p, q : [prop |-> p] = [prop |-> q] => p = q
  <2>1. \A p : [prop |-> p].prop = p
    BY Zenon
  <2> QED BY <2>1, Zenon
<1>4. \A p \in Names : [prop |-> p] \in network' <=> [prop |-> p] \in network \/ p \in S
  BY <1>1, <1>2, <1>3, ZenonT(30)
<1>5. Proposed' = {<<>>} \cup {p \in Names : [prop |-> p] \in network'}
  BY Zenon DEF Proposed
<1>6. Proposed' = Proposed \cup S
  BY <1>4, <1>5, Zenon DEF Proposed
<1> QED BY <1>1, <1>6, Zenon

(* The queued proposals can be proposed.                                   *)
LEMMA QueueOK ==
  ASSUME NEW q \in Seq(Names), NEW e, NEW G, NEW P,
         \A i \in 1 .. Len(q) : Backed(G, P, q[i]),
         e.kind = "Propose" => Backed(G, P, e.prop),
         NEW t, t = Enqueue(q, e)
  PROVE  t \in Seq(Names) /\ \A i \in 1 .. Len(t) : Backed(G, P, t[i])
<1>1. CASE e.kind = "Propose"
  <2>1. t = Append(q, e.prop) /\ e.prop \in Names
    BY <1>1, Zenon DEF Enqueue, Backed
  <2>2. t \in Seq(Names) /\ Len(t) = Len(q) + 1
        /\ (\A i \in 1 .. Len(q) : t[i] = q[i]) /\ t[Len(q) + 1] = e.prop
    BY <2>1
  <2>3. \A i \in 1 .. Len(t) : i \in 1 .. Len(q) \/ i = Len(q) + 1
    BY <2>2
  <2> QED BY <1>1, <2>2, <2>3, Zenon
<1>2. CASE e.kind # "Propose"
  BY <1>2, Zenon DEF Enqueue
<1> QED BY <1>1, <1>2, Zenon

(* The messages that carry the proposals of S.                             *)
Messages(S) == {[prop |-> p] : p \in S}

(* A step of v with its answer, out of a queue whose events can be proposed. *)
LEMMA ApplyOK ==
  ASSUME NEW H, Invariant(H), NEW v \in Validator, NEW r, NEW S, S \subseteq Names, NEW G,
         Answer(r.core, r.event, v, H, Proposed \cup S, G),
         NEW q \in Seq(Names), \A i \in 1 .. Len(q) : Backed(H, Proposed, q[i]),
         Apply(v, r, q, Messages(S))
  PROVE  SolidInv'
<1>1. H \subseteq G /\ (\A a \in G \ H : a.from = v) /\ WorldOK(G, Proposed \cup S)
      /\ LocalOK(r.core, v, G, Proposed \cup S) /\ SettledOK(r.core)
      /\ (r.event.kind = "Propose" => Backed(G, Proposed \cup S, r.event.prop))
      /\ (r.event.kind = "Accept" => r.event.accept \in G)
  BY Zenon DEF Answer
<1>2. network \subseteq {[prop |-> p] : p \in Names} \cup G /\ G \subseteq Accepts
  BY <1>1, Zenon DEF Invariant, WorldOK
<1>3. network' = network \cup Sent(r.event) \cup {[prop |-> p] : p \in S}
      /\ core' = [core EXCEPT ![v] = r.core]
      /\ proposing' = [proposing EXCEPT ![v] = Enqueue(q, r.event)]
  BY Zenon DEF Apply, Messages
<1>4. Proposed' = Proposed \cup S /\ network' \subseteq {[prop |-> p] : p \in Names} \cup G
  BY <1>1, <1>2, <1>3, ProposedIs, Zenon
<1>5. /\ core = [w \in Validator |-> core[w]]
      /\ proposing = [w \in Validator |-> proposing[w]]
      /\ \A w \in Validator :
           /\ LocalOK(core[w], w, H, Proposed)
           /\ SettledOK(core[w])
           /\ proposing[w] \in Seq(Names)
           /\ \A i \in 1 .. Len(proposing[w]) : Backed(H, Proposed, proposing[w][i])
  BY Zenon DEF Invariant, NodesOK
<1>6. /\ core' = [w \in Validator |-> IF w = v THEN r.core ELSE core[w]]
      /\ proposing' = [w \in Validator |-> IF w = v THEN Enqueue(q, r.event) ELSE proposing[w]]
  BY <1>3, <1>5, Zenon
<1>0. PICK R : R = Proposed \cup S
  BY Zenon
<1>7. \A p : Backed(H, Proposed, p) => Backed(G, R, p)
  BY <1>0, <1>1, BackedGrows, Zenon
<1>8. ASSUME NEW w \in Validator
      PROVE  /\ LocalOK(core'[w], w, G, R)
             /\ SettledOK(core'[w])
             /\ proposing'[w] \in Seq(Names)
             /\ \A i \in 1 .. Len(proposing'[w]) : Backed(G, R, proposing'[w][i])
  <2>1. CASE w = v
    <3>1. core'[w] = r.core /\ proposing'[w] = Enqueue(q, r.event)
      BY <1>6, <2>1, Zenon
    <3>2. Enqueue(q, r.event) \in Seq(Names)
          /\ \A i \in 1 .. Len(Enqueue(q, r.event)) : Backed(G, R, Enqueue(q, r.event)[i])
      <4>1. \A i \in 1 .. Len(q) : Backed(G, R, q[i])
        BY <1>7, Zenon
      <4> QED BY <1>0, <1>1, <4>1, QueueOK, Zenon
    <3> QED BY <1>0, <1>1, <2>1, <3>1, <3>2, Zenon
  <2>2. CASE w # v
    <3>1. core'[w] = core[w] /\ proposing'[w] = proposing[w]
      BY <1>6, <2>2, Zenon
    <3>2. LocalOK(core[w], w, G, R)
      <4>1. \A a \in G \ H : a.from # w
        BY <1>1, <2>2, Zenon
      <4> QED BY <1>0, <1>1, <1>5, <4>1, LocalGrows, Zenon
    <3> QED BY <1>5, <1>7, <3>1, <3>2, Zenon
  <2> QED BY <2>1, <2>2, Zenon
<1>9. core' = [w \in Validator |-> core'[w]] /\ proposing' = [w \in Validator |-> proposing'[w]]
  BY <1>6, Zenon
<1>10. NodesOK(G, Proposed)'
  BY <1>0, <1>4, <1>8, <1>9, Zenon DEF NodesOK
<1>11. WorldOK(G, Proposed)'
  BY <1>0, <1>1, <1>4, Zenon
<1>12. Invariant(G)'
  BY <1>4, <1>10, <1>11, Zenon DEF Invariant
<1> QED BY <1>12, Zenon DEF SolidInv

(* Receiving a proposal keeps the invariant.                               *)
LEMMA ReceiveProposalOK ==
  ASSUME NEW H, Invariant(H), NEW v \in Validator, ReceiveProposal(v)
  PROVE  SolidInv'
<1>1. PICK m \in network : /\ "from" \notin DOMAIN m
                           /\ Acceptable(core[v], m.prop)
                           /\ \E r \in NextEvents(v, Insert(core[v], m.prop), timer[v]) :
                                Apply(v, r, proposing[v], {})
  BY Zenon DEF ReceiveProposal
<1>2. PICK r \in NextEvents(v, Insert(core[v], m.prop), timer[v]) : Apply(v, r, proposing[v], {})
  BY <1>1, Zenon
<1>3. WorldOK(H, Proposed) /\ LocalOK(core[v], v, H, Proposed) /\ H \subseteq Accepts
      /\ TreeOK(Proposed)
      /\ proposing[v] \in Seq(Names)
      /\ \A i \in 1 .. Len(proposing[v]) : Backed(H, Proposed, proposing[v][i])
  BY Zenon DEF Invariant, NodesOK, WorldOK
<1>4. PICK p \in Names : m = [prop |-> p]
  <2>1. m \notin H
    BY <1>1, <1>3, Zenon DEF Accepts
  <2> QED BY <1>1, <2>1, Zenon DEF Invariant
<1>5. m.prop = p /\ p \in Proposed
  BY <1>1, <1>4, Zenon DEF Proposed
<1>6. LocalOK(Insert(core[v], p), v, H, Proposed)
  BY <1>1, <1>3, <1>5, InsertOK, Zenon
<1>7. PICK G : Answer(r.core, r.event, v, H, Proposed, G)
  BY <1>2, <1>3, <1>5, <1>6, NextEventsOK, Zenon
<1>8. Proposed \cup {} = Proposed /\ Messages({}) = {} /\ {} \subseteq Names
  BY Zenon DEF Messages
<1>9. Apply(v, r, proposing[v], Messages({})) /\ Answer(r.core, r.event, v, H, Proposed \cup {}, G)
  BY <1>2, <1>7, <1>8, Zenon
<1> QED BY <1>3, <1>8, <1>9, ApplyOK, Zenon

(* Storing a changed core, with its event sent, keeps the invariant.       *)
LEMMA ApplyCoreOK ==
  ASSUME NEW H, Invariant(H), NEW v \in Validator, NEW e, NEW armed, ApplyCore(v, e, armed),
         \E G : Answer(e.core, e.event, v, H, Proposed, G)
  PROVE  SolidInv'
<1>1. PICK r : r = [core |-> e.core, timer |-> armed, event |-> e.event]
  BY Zenon
<1>2. PICK G : Answer(r.core, r.event, v, H, Proposed, G)
  BY <1>1, Zenon
<1>3. Apply(v, r, proposing[v], {})
  BY <1>1, Zenon DEF ApplyCore
<1>4. proposing[v] \in Seq(Names)
      /\ \A i \in 1 .. Len(proposing[v]) : Backed(H, Proposed, proposing[v][i])
  BY Zenon DEF Invariant, NodesOK
<1>5. Proposed \cup {} = Proposed /\ Messages({}) = {} /\ {} \subseteq Names
  BY Zenon DEF Messages
<1>6. Apply(v, r, proposing[v], Messages({})) /\ Answer(r.core, r.event, v, H, Proposed \cup {}, G)
  BY <1>2, <1>3, <1>5, Zenon
<1> QED BY <1>4, <1>5, <1>6, ApplyOK, Zenon

(* Receiving an accept keeps the invariant.                                *)
LEMMA ReceiveAcceptStep ==
  ASSUME NEW H, Invariant(H), NEW v \in Validator, ReceiveAccept(v)
  PROVE  SolidInv'
<1>1. PICK a \in network : /\ "from" \in DOMAIN a
                           /\ ApplyCore(v, CoreReceiveAccept(core[v], v, a), timer[v])
  BY Zenon DEF ReceiveAccept
<1>2. a \in H
  <2>1. \A p : "from" \notin DOMAIN [prop |-> p]
    BY Zenon
  <2> QED BY <1>1, <2>1, Zenon DEF Invariant
<1>3. WorldOK(H, Proposed) /\ LocalOK(core[v], v, H, Proposed) /\ SettledOK(core[v])
  BY Zenon DEF Invariant, NodesOK
<1>4. PICK e : e = CoreReceiveAccept(core[v], v, a)
  BY Zenon
<1>5. \E G : Answer(e.core, e.event, v, H, Proposed, G)
  BY <1>2, <1>3, <1>4, ReceiveAcceptOK, Zenon
<1> QED BY <1>1, <1>4, <1>5, ApplyCoreOK, Zenon

(* The skip timeout keeps the invariant.                                   *)
LEMMA SkipOK ==
  ASSUME NEW H, Invariant(H), NEW v \in Validator, Skip(v)
  PROVE  SolidInv'
<1>1. WorldOK(H, Proposed) /\ LocalOK(core[v], v, H, Proposed) /\ SettledOK(core[v])
  BY Zenon DEF Invariant, NodesOK
<1>2. PICK e : e = GetNextAcceptEvent(core[v], v, TRUE)
  BY Zenon
<1>3. NextAcceptSkip(core[v], CurrentProposal(core[v]), TRUE) <= MaxSkips
      /\ ApplyCore(v, e, TRUE)
  BY <1>2, Zenon DEF Skip
<1>4. \E G : Answer(e.core, e.event, v, H, Proposed, G)
  BY <1>1, <1>2, <1>3, GetNextOK, Zenon
<1> QED BY <1>3, <1>4, ApplyCoreOK, Zenon

(* Sending a queued proposal keeps the invariant.                          *)
LEMMA ProposeStep ==
  ASSUME NEW H, Invariant(H), NEW v \in Validator, Propose(v)
  PROVE  SolidInv'
<1>1. PICK p : p = Head(proposing[v])
  BY Zenon
<1>2. PICK q : q = Tail(proposing[v])
  BY Zenon
<1>3. /\ WorldOK(H, Proposed) /\ LocalOK(core[v], v, H, Proposed) /\ SettledOK(core[v])
      /\ proposing[v] \in Seq(Names)
      /\ \A i \in 1 .. Len(proposing[v]) : Backed(H, Proposed, proposing[v][i])
      /\ proposing[v] # <<>> /\ Len(p) <= MaxHeight
  BY <1>1, Zenon DEF Invariant, NodesOK, Propose
<1>4. Backed(H, Proposed, p) /\ p \in Names
  BY <1>1, <1>3 DEF Backed
<1>5. q \in Seq(Names) /\ \A i \in 1 .. Len(q) : Backed(H, Proposed, q[i])
  <2>1. q \in Seq(Names) /\ Len(q) = Len(proposing[v]) - 1
        /\ \A i \in 1 .. Len(q) : q[i] = proposing[v][i + 1]
    BY <1>2, <1>3
  <2>2. \A i \in 1 .. Len(q) : i + 1 \in 1 .. Len(proposing[v])
    BY <1>3, <2>1
  <2> QED BY <1>3, <2>1, <2>2, Zenon
<1>6. PICK R : R = Proposed \cup {p}
  BY Zenon
<1>7. WorldOK(H, R) /\ TreeOK(R)
  <2>1. WorldOK(H, R)
    BY <1>3, <1>4, <1>6, AddProposal, Zenon
  <2> QED BY <2>1, Zenon DEF WorldOK
<1>8. LocalOK(core[v], v, H, R)
  BY <1>3, <1>6, LocalGrows, Zenon
<1>9. PICK r \in IF Acceptable(core[v], p) THEN NextEvents(v, Insert(core[v], p), timer[v])
                 ELSE {[core |-> core[v], timer |-> timer[v], event |-> NoEvent]} :
        Apply(v, r, q, {[prop |-> p]})
  BY <1>1, <1>2, Zenon DEF Propose
<1>10. PICK G : Answer(r.core, r.event, v, H, R, G)
  <2>1. CASE Acceptable(core[v], p)
    <3>1. LocalOK(Insert(core[v], p), v, H, R)
      BY <1>6, <1>7, <1>8, <2>1, InsertOK, Zenon
    <3> QED BY <1>7, <1>9, <2>1, <3>1, NextEventsOK, Zenon
  <2>2. CASE ~ Acceptable(core[v], p)
    <3>1. r.core = core[v] /\ r.event = NoEvent
      BY <1>9, <2>2
    <3> QED BY <1>3, <1>7, <1>8, <3>1, NoAnswer, Zenon
  <2> QED BY <2>1, <2>2, Zenon
<1>11. Messages({p}) = {[prop |-> p]} /\ {p} \subseteq Names
  BY <1>4, Zenon DEF Messages
<1>12. Apply(v, r, q, Messages({p})) /\ Answer(r.core, r.event, v, H, Proposed \cup {p}, G)
  BY <1>6, <1>9, <1>10, <1>11, Zenon
<1> QED BY <1>5, <1>11, <1>12, ApplyOK, Zenon

(* Every step keeps the invariant.                                         *)
LEMMA SolidStep ==
  ASSUME SolidInv, [SolidNext]_solidVars
  PROVE  SolidInv'
<1>1. PICK H : Invariant(H)
  BY Zenon DEF SolidInv
<1>2. ASSUME NEW v \in Validator,
             ReceiveProposal(v) \/ ReceiveAccept(v) \/ Propose(v) \/ Skip(v)
      PROVE  SolidInv'
  BY <1>1, <1>2, ReceiveProposalOK, ReceiveAcceptStep, ProposeStep, SkipOK, Zenon
<1>3. CASE UNCHANGED solidVars
  <2>1. Invariant(H)'
    BY <1>1, <1>3, Zenon DEF Invariant, NodesOK, Proposed, solidVars
  <2> QED BY <2>1, Zenon DEF SolidInv
<1> QED BY <1>2, <1>3, Zenon DEF SolidNext

-----------------------------------------------------------------------------
(* The start.                                                              *)

(* Nothing is accepted or proposed at first.                               *)
LEMMA StartWorld == WorldOK({}, {<<>>})
<1>1. TreeOK({<<>>})
  <2>1. <<>> \in Names /\ Len(<<>>) = 0 /\ Skips(<<>>) = 0
    BY DEF Names, Skips
  <2>2. \A i \in 0 .. 0 : SubSeq(<<>>, 1, i) = <<>>
    BY <2>1, Prefixes
  <2> QED BY <2>1, <2>2, BoundAssumption DEF TreeOK
<1>2. LockOK({})
  BY Zenon DEF LockOK, Undecided, Voters
<1> QED BY <1>1, <1>2, Zenon DEF WorldOK

(* A new core is in order.                                                 *)
LEMMA StartLocal ==
  ASSUME NEW v, NEW s, s = WithLastConfirmed(<<>>)
  PROVE  LocalOK(s, v, {}, {<<>>}) /\ SettledOK(s)
<1>1. s = [confirmed |-> <<>>, sent |-> [q \in {<<>>} |-> NotSent], accepts |-> {},
           maxHeight |-> Len(<<>>)]
  BY Zenon DEF WithLastConfirmed
<1>2. IsCore(s) /\ s.confirmed = <<>> /\ DOMAIN s.sent = {<<>>} /\ s.sent[<<>>] = NotSent
      /\ s.accepts = {}
  BY <1>1 DEF IsCore
<1>3. LocalOK(s, v, {}, {<<>>})
  BY <1>2, Zenon DEF LocalOK, SentOK, VotesOK
<1>4. Pending(s) = {}
  BY <1>2 DEF Pending, Height
<1> QED BY <1>3, <1>4, Zenon DEF SettledOK

(* The first state satisfies the invariant.                                *)
LEMMA SolidStart ==
  ASSUME SolidInit
  PROVE  SolidInv
<1> DEFINE R == {<<>>}
<1>1. ASSUME NEW v \in Validator
      PROVE  \E G : Answer(Started[v].core, Started[v].event, v, {}, R, G)
  <2>1. Started[v] = AfterCommits(v, WithLastConfirmed(<<>>), FALSE)
    BY Zenon DEF Started
  <2> QED BY <2>1, StartWorld, StartLocal, AfterCommitsOK, Zenon
<1> DEFINE g == [v \in Validator |->
                   CHOOSE G : Answer(Started[v].core, Started[v].event, v, {}, R, G)]
           H == UNION {g[v] : v \in Validator}
<1>2. \A v \in Validator : Answer(Started[v].core, Started[v].event, v, {}, R, g[v])
  BY <1>1, Zenon
<1> HIDE DEF g
<1>3. \A v \in Validator :
        /\ \A a \in g[v] : a.from = v
        /\ WorldOK(g[v], R)
        /\ LocalOK(Started[v].core, v, g[v], R)
        /\ SettledOK(Started[v].core)
        /\ Started[v].event.kind = "Propose" => Backed(g[v], R, Started[v].event.prop)
        /\ Started[v].event.kind = "Accept" => Started[v].event.accept \in g[v]
  BY <1>2, Zenon DEF Answer
<1>4. H \subseteq Accepts /\ \A a \in H : a.prop \in R
  BY <1>3 DEF WorldOK
<1>5. LockOK(H)
  <2>1. SUFFICES ASSUME NEW p \in Names, NEW j \in Nat PROVE Voters(H, Append(p, j)) = {}
    BY Zenon DEF LockOK, Undecided
  <2>2. Append(p, j) # <<>>
    BY Built, Zenon
  <2>3. \A k, v : ProposalAccept(Append(p, j), k, v).prop = Append(p, j)
    BY Zenon DEF ProposalAccept
  <2> HIDE DEF H
  <2> QED BY <1>4, <2>2, <2>3, Zenon DEF Voters
<1>6. WorldOK(H, R)
  BY <1>4, <1>5, StartWorld, Zenon DEF WorldOK
<1>7. \A v \in Validator : g[v] \subseteq H /\ \A a \in H \ g[v] : a.from # v
  BY <1>3
<1> HIDE DEF H
<1>8. /\ core = [v \in Validator |-> Started[v].core]
      /\ proposing = [v \in Validator |-> Enqueue(<<>>, Started[v].event)]
      /\ network = UNION {Sent(Started[v].event) : v \in Validator}
  BY Zenon DEF SolidInit
<1>9. network \subseteq H
  BY <1>3, <1>7, <1>8 DEF Sent
<1>10. Proposed = R
  <2>1. \A a \in H : "from" \in DOMAIN a
    BY <1>4, Zenon DEF Accepts
  <2>2. \A p : "from" \notin DOMAIN [prop |-> p]
    BY Zenon
  <2> QED BY <1>9, <2>1, <2>2 DEF Proposed
<1>11. ASSUME NEW v \in Validator
       PROVE  /\ LocalOK(core[v], v, H, R)
              /\ SettledOK(core[v])
              /\ proposing[v] \in Seq(Names)
              /\ \A i \in 1 .. Len(proposing[v]) : Backed(H, R, proposing[v][i])
  <2>1. core[v] = Started[v].core /\ proposing[v] = Enqueue(<<>>, Started[v].event)
    BY <1>8
  <2>2. LocalOK(core[v], v, H, R)
    BY <1>3, <1>7, <2>1, LocalGrows
  <2>3. Started[v].event.kind = "Propose" => Backed(H, R, Started[v].event.prop)
    BY <1>3, <1>7, BackedGrows
  <2>4. <<>> \in Seq(Names) /\ Len(<<>>) = 0
    OBVIOUS
  <2>5. \A i \in 1 .. Len(<<>>) : Backed(H, R, <<>>[i])
    BY <2>4
  <2> QED BY <1>3, <2>1, <2>2, <2>3, <2>4, <2>5, QueueOK, Zenon
<1>12. core = [v \in Validator |-> core[v]] /\ proposing = [v \in Validator |-> proposing[v]]
  BY <1>8
<1>13. NodesOK(H, Proposed)
  BY <1>10, <1>11, <1>12, Zenon DEF NodesOK
<1> QED BY <1>6, <1>9, <1>10, <1>13, Zenon DEF SolidInv, Invariant

-----------------------------------------------------------------------------
(* Agreement.                                                              *)

(* A proposal that has a successor excludes those of more skips.           *)
LEMMA NoFork ==
  ASSUME NEW H, NEW P, WorldOK(H, P), NEW p \in Names, NEW j \in Nat, NEW k \in Nat, j < k,
         NEW x \in Nat, Append(Append(p, j), x) \in P, Append(p, k) \in P
  PROVE  FALSE
<1> DEFINE q == Append(p, j)
           A == Backers(H, q, x)
           K == Backers(H, p, k)
           V == Voters(H, q)
           B == Beyond(H, p, j)
<1>1. \A r \in P : r = <<>> \/ Certified(H, LastHash(r), Skips(r))
  BY Zenon DEF WorldOK, Backed
<1>2. q \in Names
  BY Built, Zenon
<1>3. Cardinality(A) >= Threshold /\ Cardinality(K) >= Threshold
  <2>1. Append(q, x) # <<>> /\ LastHash(Append(q, x)) = q /\ Skips(Append(q, x)) = x
    BY <1>2, Built, Zenon
  <2>2. Append(p, k) # <<>> /\ LastHash(Append(p, k)) = p /\ Skips(Append(p, k)) = k
    BY Built, Zenon
  <2> QED BY <1>1, <2>1, <2>2, Zenon DEF Certified
<1>4. V \subseteq Validator /\ B \subseteq Validator /\ A \subseteq V /\ K \subseteq B
  BY VoteSets DEF Backers, Beyond
<1>5. Cardinality(K) > Cardinality(Validator) - Threshold
  BY <1>3, <1>4, SubsetCard, ThresholdFacts
<1>6. CASE Locked(H, p, j)
  <2>1. PICK y \in Nat : Cardinality(Backers(H, q, y) \ B) >= Threshold
    BY <1>6, Zenon DEF Locked
  <2>2. (Backers(H, q, y) \ B) \cap K = {} /\ Backers(H, q, y) \ B \subseteq Validator
        /\ K \subseteq Validator
    BY <1>4, Zenon DEF Backers
  <2> QED BY <1>5, <2>1, <2>2, QuorumsMeet, Zenon
<1>7. CASE Abandoned(H, p, j)
  <2>1. A \cap (B \ V) = {} /\ A \subseteq Validator /\ B \ V \subseteq Validator
    BY <1>4, Zenon
  <2> QED BY <1>3, <1>7, <2>1, QuorumsMeet, Zenon DEF Abandoned
<1>8. CASE Undecided(H, p, j)
  <2>1. A \cap K = {} /\ A \subseteq Validator /\ K \subseteq Validator
    BY <1>4, <1>8, Zenon DEF Undecided
  <2> QED BY <1>3, <1>5, <2>1, QuorumsMeet, Zenon
<1> QED BY <1>6, <1>7, <1>8, Zenon DEF WorldOK, LockOK

(* Every ancestor of a confirmed proposal, and it, has a successor.        *)
BuiltUpon(P, q) == q = <<>> \/ \E k \in Nat : Append(q, k) \in P

Continues(P, q, i, p) == \E j, x \in Nat : /\ SubSeq(q, 1, i + 1) = Append(p, j)
                                           /\ Append(p, j) \in P
                                           /\ Append(Append(p, j), x) \in P

(* A proposal below a confirmed one has a successor on the way to it.      *)
LEMMA HasSuccessor ==
  ASSUME NEW P, TreeOK(P), NEW q, q \in P, BuiltUpon(P, q),
         NEW i \in Nat, i < Len(q), NEW p, p = SubSeq(q, 1, i)
  PROVE  Continues(P, q, i, p)
<1>1. q \in Names /\ Len(q) \in Nat /\ q # <<>>
  BY DEF TreeOK, Names
<1>2. PICK k \in Nat : Append(q, k) \in P
  BY <1>1, Zenon DEF BuiltUpon
<1>3. PICK r : r = Append(q, k)
  BY Zenon
<1>4. r \in P /\ r \in Names /\ Len(r) = Len(q) + 1
  BY <1>1, <1>2, <1>3, Built, Zenon
<1>5. \A l \in 0 .. Len(q) : SubSeq(r, 1, l) = SubSeq(q, 1, l)
  BY <1>1, <1>3, BuiltOn
<1>6. i \in 0 .. Len(q) /\ i + 1 \in 0 .. Len(q) /\ i + 1 \in 0 .. Len(r) /\ i + 2 \in 0 .. Len(r)
      /\ i \in 0 .. i + 1 /\ i + 1 \in 0 .. i + 2
  BY <1>1, <1>4
<1>7. PICK s : s = SubSeq(q, 1, i + 1)
  BY Zenon
<1>8. PICK t : t = SubSeq(r, 1, i + 2)
  BY Zenon
<1>9. s \in Names /\ Len(s) = i + 1 /\ SubSeq(s, 1, i) = p /\ s \in P
  BY <1>1, <1>6, <1>7, Prefixes DEF TreeOK
<1>10. t \in Names /\ Len(t) = i + 2 /\ SubSeq(t, 1, i + 1) = s /\ t \in P
  BY <1>4, <1>5, <1>6, <1>7, <1>8, Prefixes, SMTT(30) DEF TreeOK
<1>11. p \in Names /\ Len(p) = i
  BY <1>1, <1>6, Prefixes, Zenon
<1>12. Precedes(p, s) /\ Precedes(s, t) /\ Len(s) = Len(p) + 1 /\ Len(t) = Len(s) + 1
  BY <1>9, <1>10, <1>11 DEF Precedes
<1>13. s = Append(p, Skips(s)) /\ Skips(s) \in Nat /\ t = Append(s, Skips(t)) /\ Skips(t) \in Nat
  BY <1>9, <1>10, <1>11, <1>12, Successor, Zenon
<1> QED BY <1>7, <1>9, <1>10, <1>13, Zenon DEF Continues

(* The invariant implies agreement.                                        *)
LEMMA AgreementHolds ==
  ASSUME SolidInv
  PROVE  Agreement
<1>1. PICK H : Invariant(H)
  BY Zenon DEF SolidInv
<1> DEFINE P == Proposed
<1>2. WorldOK(H, P) /\ TreeOK(P) /\ P \subseteq Names
  BY <1>1, Zenon DEF Invariant, WorldOK, TreeOK
<1>3. \A v \in Validator :
        /\ core[v].confirmed \in DOMAIN core[v].sent
        /\ DOMAIN core[v].sent \subseteq P
        /\ core[v].confirmed \in P
        /\ BuiltUpon(P, core[v].confirmed)
        /\ SettledOK(core[v])
  BY <1>1, Zenon DEF Invariant, NodesOK, LocalOK, BuiltUpon
<1> HIDE DEF P
<1>4. ASSUME NEW v \in Validator, NEW w \in Validator,
             ~ Precedes(core[v].confirmed, core[w].confirmed),
             ~ Precedes(core[w].confirmed, core[v].confirmed)
      PROVE  FALSE
  <2>1. PICK q : q = core[v].confirmed
    BY Zenon
  <2>2. PICK r : r = core[w].confirmed
    BY Zenon
  <2>3. q \in P /\ r \in P /\ q \in Names /\ r \in Names
        /\ BuiltUpon(P, q) /\ BuiltUpon(P, r)
    BY <1>2, <1>3, <2>1, <2>2, Zenon
  <2>4. PICK i \in Nat : /\ i < Len(q) /\ i < Len(r)
                         /\ SubSeq(q, 1, i) = SubSeq(r, 1, i)
                         /\ SubSeq(q, 1, i + 1) # SubSeq(r, 1, i + 1)
    BY <1>4, <2>1, <2>2, <2>3, Fork, SMTT(30)
  <2>5. PICK p : p = SubSeq(q, 1, i)
    BY Zenon
  <2>6. p \in Names
    <3>1. Len(q) \in Nat /\ i \in 0 .. Len(q)
      BY <2>3, <2>4 DEF Names
    <3> QED BY <2>3, <2>5, <3>1, Prefixes, Zenon
  <2>7. PICK j, x \in Nat : /\ SubSeq(q, 1, i + 1) = Append(p, j)
                            /\ Append(p, j) \in P
                            /\ Append(Append(p, j), x) \in P
    <3>1. Continues(P, q, i, p)
      BY <1>2, <2>3, <2>4, <2>5, HasSuccessor, Zenon
    <3> QED BY <3>1, Zenon DEF Continues
  <2>8. PICK k, y \in Nat : /\ SubSeq(r, 1, i + 1) = Append(p, k)
                            /\ Append(p, k) \in P
                            /\ Append(Append(p, k), y) \in P
    <3>1. p = SubSeq(r, 1, i)
      BY <2>4, <2>5, Zenon
    <3>2. Continues(P, r, i, p)
      BY <1>2, <2>3, <2>4, <3>1, HasSuccessor, Zenon
    <3> QED BY <3>2, Zenon DEF Continues
  <2>9. j # k
    BY <2>4, <2>7, <2>8, Zenon
  <2>10. CASE j < k
    BY <1>2, <2>6, <2>7, <2>8, <2>10, NoFork, Zenon
  <2>11. CASE k < j
    BY <1>2, <2>6, <2>7, <2>8, <2>11, NoFork, Zenon
  <2> QED BY <2>9, <2>10, <2>11
<1>5. ASSUME NEW v \in Validator
      PROVE  Cardinality(MaxContinuousProposals(core[v])) <= 1
  <2> DEFINE M == MaxContinuousProposals(core[v])
  <2>1. \A p, q \in M : p = q
    BY <1>2, <1>3, OneHighest, Zenon
  <2> HIDE DEF M
  <2>2. CASE M = {}
    BY <2>2, FS_EmptySet DEF M
  <2>3. CASE M # {}
    <3>1. PICK p \in M : M = {p}
      BY <2>1, <2>3, Zenon
    <3>2. Cardinality(M) = 1
      BY <3>1, FS_Singleton, Zenon
    <3> QED BY <3>2 DEF M
  <2> QED BY <2>2, <2>3, Zenon
<1> QED BY <1>4, <1>5, Zenon DEF Agreement

(* No two validators commit different proposals at one height, and no      *)
(* cache has two highest pending proposals: next_event and receive_accept  *)
(* of core.rs, for every number of validators, both thresholds, every      *)
(* order of leaders and everything the network may do to messages.         *)
THEOREM SolidAgrees == SolidSpec => []Agreement
<1>1. SolidInit => SolidInv
  BY SolidStart, Zenon
<1>2. SolidInv /\ [SolidNext]_solidVars => SolidInv'
  BY SolidStep, Zenon
<1>3. SolidInv => Agreement
  BY AgreementHolds, Zenon
<1> QED BY <1>1, <1>2, <1>3, PTL DEF SolidSpec
==============================================================================
