----------------------------- MODULE FoldProofs ------------------------------
(***************************************************************************)
(* Induction along a left fold, for any operator op.                       *)
(*                                                                         *)
(* The ledger is computed by folds over transactions and outputs.  Proofs  *)
(* about them instantiate this module with the operator that is folded and *)
(* follow its partial results: FoldLeft(op, base, seq) is the last of the  *)
(* values v[0], v[1], ... with v[0] = base and v[k+1] = op(v[k], seq[k+1]).*)
(***************************************************************************)
EXTENDS SequencesExt, WellFoundedInduction, TLAPS

CONSTANT op(_, _)

\* Induction over the naturals, with a set in place of a predicate.
LEMMA NatSetInduction ==
  ASSUME NEW S, 0 \in S, \A n \in Nat : n \in S => n + 1 \in S
  PROVE  \A n \in Nat : n \in S
<1> DEFINE Less == OpToRel(<, Nat)
           T    == {n \in Nat : n \notin S}
<1> SUFFICES ASSUME T # {} PROVE FALSE
  OBVIOUS
<1>1. IsWellFoundedOn(Less, Nat)
  BY NatLessThanWellFounded
<1>2. \A x, y \in Nat : x < y => <<x, y>> \in Less
  BY DEF OpToRel
<1>3. PICK x \in T : \A y \in T : ~ (<<y, x>> \in Less)
  <2> HIDE DEF Less
  <2> QED
    BY <1>1, WFMin
<1>4. x # 0 /\ x - 1 \in Nat /\ (x - 1) + 1 = x /\ x - 1 < x
  OBVIOUS
<1>5. x - 1 \notin S
  BY <1>4
<1>6. <<x - 1, x>> \in Less
  <2> HIDE DEF Less
  <2> QED
    BY <1>2, <1>4
<1> QED
  BY <1>3, <1>4, <1>5, <1>6

\* The function that FoldLeft computes, on the subsets of the first n indices.
IsFold(g, base, seq, n) ==
  g = [s \in SUBSET (1 .. n) |->
         IF s = {} THEN base ELSE op(g[s \ {Max(s)}], seq[Max(s)])]

FoldTo(base, seq, n) == (CHOOSE g : IsFold(g, base, seq, n))[1 .. n]

\* Max of community modules is a CHOOSE: it is the maximum where there is one.
LEMMA MaxOfSubset ==
  ASSUME NEW n \in Nat, NEW s \in SUBSET (1 .. n), s # {}
  PROVE  Max(s) \in s /\ \A i \in s : i <= Max(s)
<1> DEFINE T == {k \in Nat : \A t \in SUBSET (1 .. k) :
                   t # {} => \E x \in t : \A i \in t : i <= x}
<1>1. 0 \in T
  <2>1. \A t \in SUBSET (1 .. 0) : t = {}
    OBVIOUS
  <2> QED
    BY <2>1
<1>2. ASSUME NEW k \in Nat, k \in T
      PROVE  k + 1 \in T
  <2> SUFFICES ASSUME NEW t \in SUBSET (1 .. k + 1), t # {}
               PROVE  \E x \in t : \A i \in t : i <= x
    OBVIOUS
  <2>1. CASE k + 1 \in t
    BY <2>1
  <2>2. CASE k + 1 \notin t
    <3>1. t \in SUBSET (1 .. k)
      BY <2>2
    <3> QED
      BY <1>2, <3>1
  <2> QED
    BY <2>1, <2>2
<1>3. \E x \in s : \A i \in s : i <= x
  <2> HIDE DEF T
  <2>1. n \in T
    BY <1>1, <1>2, NatSetInduction
  <2> QED
    BY <2>1 DEF T
<1> QED
  BY <1>3 DEF Max

LEMMA FoldExists ==
  ASSUME NEW base, NEW seq
  PROVE  \A n \in Nat : \E g : IsFold(g, base, seq, n)
<1> DEFINE T == {n \in Nat : \E g : IsFold(g, base, seq, n)}
<1>1. 0 \in T
  <2> DEFINE g == [s \in SUBSET (1 .. 0) |-> base]
  <2>1. IsFold(g, base, seq, 0)
    BY DEF IsFold
  <2> QED
    BY <2>1
<1>2. ASSUME NEW k \in Nat, k \in T
      PROVE  k + 1 \in T
  <2>1. PICK f : IsFold(f, base, seq, k)
    BY <1>2
  <2> DEFINE F(s) == IF s = {} THEN base ELSE op(f[s \ {Max(s)}], seq[Max(s)])
             g    == [s \in SUBSET (1 .. k + 1) |-> F(s)]
  <2>2. \A s \in SUBSET (1 .. k) : g[s] = f[s]
    <3>1. \A s \in SUBSET (1 .. k) : f[s] = F(s)
      BY <2>1 DEF IsFold
    <3>2. \A s \in SUBSET (1 .. k) : s \in SUBSET (1 .. k + 1)
      OBVIOUS
    <3> HIDE DEF F
    <3> QED
      BY <3>1, <3>2
  <2>3. \A s \in SUBSET (1 .. k + 1) : s # {} => s \ {Max(s)} \in SUBSET (1 .. k)
    <3> SUFFICES ASSUME NEW s \in SUBSET (1 .. k + 1), s # {}
                 PROVE  s \ {Max(s)} \in SUBSET (1 .. k)
      OBVIOUS
    <3>1. Max(s) \in s /\ \A i \in s : i <= Max(s)
      BY MaxOfSubset, k + 1 \in Nat
    <3>2. ASSUME NEW i \in s, i # Max(s)
          PROVE  i \in 1 .. k
      <4>1. i \in 1 .. k + 1 /\ Max(s) \in 1 .. k + 1 /\ i <= Max(s)
        BY <3>1
      <4> QED
        BY <3>2, <4>1
    <3> QED
      BY <3>2
  <2>4. \A s \in SUBSET (1 .. k + 1) : s # {} => g[s \ {Max(s)}] = f[s \ {Max(s)}]
    <3> HIDE DEF g
    <3> QED
      BY <2>2, <2>3
  <2>5. IsFold(g, base, seq, k + 1)
    BY <2>4 DEF IsFold
  <2> QED
    BY <2>5
<1> HIDE DEF T
<1>3. \A n \in Nat : n \in T
  BY <1>1, <1>2, NatSetInduction
<1> QED
  BY <1>3 DEF T

\* The partial results of a fold.
LEMMA FoldTrace ==
  ASSUME NEW base, NEW seq, NEW n \in Nat
  PROVE  \E v : /\ v[0] = base
                /\ \A k \in 0 .. n - 1 : v[k + 1] = op(v[k], seq[k + 1])
                /\ FoldTo(base, seq, n) = v[n]
<1> DEFINE g == CHOOSE f : IsFold(f, base, seq, n)
           v == [k \in 0 .. n |-> g[1 .. k]]
<1>1. IsFold(g, base, seq, n)
  BY FoldExists
<1>2. FoldTo(base, seq, n) = v[n]
  BY DEF FoldTo
<1> HIDE DEF g
<1>3. v[0] = base
  BY <1>1 DEF IsFold
<1>4. ASSUME NEW k \in 0 .. n - 1
      PROVE  v[k + 1] = op(v[k], seq[k + 1])
  <2>1. 1 .. k + 1 \in SUBSET (1 .. n) /\ 1 .. k + 1 # {} /\ k + 1 \in 1 .. k + 1
    OBVIOUS
  <2>2. Max(1 .. k + 1) = k + 1
    <3>1. /\ Max(1 .. k + 1) \in 1 .. k + 1
          /\ \A i \in 1 .. k + 1 : i <= Max(1 .. k + 1)
      BY <2>1, MaxOfSubset
    <3>2. k + 1 <= Max(1 .. k + 1)
      BY <2>1, <3>1
    <3> QED
      BY <3>1, <3>2
  <2>3. (1 .. k + 1) \ {k + 1} = 1 .. k
    OBVIOUS
  <2>4. g[1 .. k + 1] = op(g[1 .. k], seq[k + 1])
    <3> DEFINE s == 1 .. k + 1
    <3>1. s \in SUBSET (1 .. n) /\ s # {}
      BY <2>1
    <3>2. Max(s) = k + 1 /\ s \ {k + 1} = 1 .. k
      BY <2>2, <2>3
    <3> HIDE DEF s
    <3>3. g[s] = op(g[s \ {Max(s)}], seq[Max(s)])
      BY <1>1, <3>1 DEF IsFold
    <3>4. g[s] = op(g[1 .. k], seq[k + 1])
      BY <3>2, <3>3
    <3> QED
      BY <3>4 DEF s
  <2> QED
    BY <2>4
<1> QED
  BY <1>2, <1>3, <1>4

\* A set that the operator never leaves contains all partial results.
LEMMA FoldStaysIn ==
  ASSUME NEW I, NEW E, NEW base \in I, NEW seq, NEW n \in Nat,
         \A k \in 1 .. n : seq[k] \in E,
         \A x \in I, e \in E : op(x, e) \in I
  PROVE  FoldTo(base, seq, n) \in I
<1>1. PICK v : /\ v[0] = base
               /\ \A k \in 0 .. n - 1 : v[k + 1] = op(v[k], seq[k + 1])
               /\ FoldTo(base, seq, n) = v[n]
  BY FoldTrace
<1> DEFINE T == {k \in Nat : k <= n => v[k] \in I}
<1>2. 0 \in T
  BY <1>1
<1>3. ASSUME NEW k \in Nat, k \in T
      PROVE  k + 1 \in T
  <2> SUFFICES ASSUME k + 1 <= n PROVE v[k + 1] \in I
    OBVIOUS
  <2>1. v[k] \in I /\ seq[k + 1] \in E /\ v[k + 1] = op(v[k], seq[k + 1])
    BY <1>1, <1>3
  <2> QED
    BY <2>1
<1> HIDE DEF T
<1>4. n \in T
  BY <1>2, <1>3, NatSetInduction
<1> QED
  BY <1>1, <1>4 DEF T

\* One element more is one application of the operator more.
LEMMA FoldAppend ==
  ASSUME NEW base, NEW seq, NEW longer, NEW n \in Nat,
         \A k \in 1 .. n : longer[k] = seq[k]
  PROVE  FoldTo(base, longer, n + 1) = op(FoldTo(base, seq, n), longer[n + 1])
<1>1. PICK v : /\ v[0] = base
               /\ \A k \in 0 .. n - 1 : v[k + 1] = op(v[k], seq[k + 1])
               /\ FoldTo(base, seq, n) = v[n]
  BY FoldTrace
<1>2. PICK w : /\ w[0] = base
               /\ \A k \in 0 .. n : w[k + 1] = op(w[k], longer[k + 1])
               /\ FoldTo(base, longer, n + 1) = w[n + 1]
  <2>1. n + 1 \in Nat /\ (n + 1) - 1 = n
    OBVIOUS
  <2> QED
    BY <2>1, FoldTrace
<1> DEFINE T == {k \in Nat : k <= n => w[k] = v[k]}
<1>3. 0 \in T
  BY <1>1, <1>2
<1>4. ASSUME NEW k \in Nat, k \in T
      PROVE  k + 1 \in T
  <2> SUFFICES ASSUME k + 1 <= n PROVE w[k + 1] = v[k + 1]
    OBVIOUS
  <2>1. k \in 0 .. n - 1 /\ k \in 0 .. n /\ k + 1 \in 1 .. n /\ w[k] = v[k]
    BY <1>4
  <2> QED
    BY <1>1, <1>2, <2>1
<1> HIDE DEF T
<1>5. n \in T
  BY <1>3, <1>4, NatSetInduction
<1>6. w[n] = v[n]
  BY <1>5 DEF T
<1>7. w[n + 1] = op(w[n], longer[n + 1])
  BY <1>2
<1> QED
  BY <1>1, <1>2, <1>6, <1>7
=============================================================================
