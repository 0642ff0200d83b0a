------------------------- MODULE ProofSearchProofs --------------------------
(***************************************************************************)
(* Proofs about ProofSearch, for any width of the uint, any length of the  *)
(* rounds and any set of valid proofs: 2^32 and 2000 included.             *)
(***************************************************************************)
EXTENDS ProofSearch, TLAPS

LEMMA InitSearch == Init => TypeOK /\ SmallestProof
  BY ProofSearchAssumption DEF Init, TypeOK, SmallestProof

\* A round passes over losing values only.
LEMMA RoundKeeps ==
  ASSUME TypeOK, SmallestProof, FindProof
  PROVE  TypeOK' /\ SmallestProof'
<1> USE ProofSearchAssumption DEF TypeOK, SmallestProof, FindProof
<1>1. /\ winning \subseteq 0 .. UintRange - 1
      /\ pausePoint \in 0 .. UintRange - 1
  BY DEF pausePoint
<1>2. ASSUME NEW p \in winning, StopsAt(p), Proof' = p,
             announced' = announced \cup {p}
      PROVE  TypeOK' /\ SmallestProof'
  <2>1. Proof <= p /\ p < pausePoint
    BY <1>2 DEF StopsAt, Ahead
  <2>2. \A q \in winning : p <= q
    BY <1>1, <1>2, <2>1 DEF StopsAt, Ahead
  <2>3. announced \subseteq {p}
    BY <1>1, <2>1, <2>2
  <2> QED
    BY <1>1, <1>2, <2>2, <2>3
<1>3. ASSUME Ahead = {}, Proof < pausePoint
      PROVE  TypeOK' /\ SmallestProof'
  <2>1. \A q \in winning : pausePoint <= q
    BY <1>1, <1>3 DEF Ahead
  <2>2. announced = {}
    BY <1>1, <1>3, <2>1
  <2>3. Proof' = pausePoint /\ UNCHANGED <<winning, announced, searches>>
    BY <1>3 DEF StopsAt
  <2> QED
    BY <1>1, <2>1, <2>2, <2>3
<1>4. ASSUME Ahead = {}, ~ Proof < pausePoint
      PROVE  TypeOK' /\ SmallestProof'
  <2>1. UNCHANGED vars
    BY <1>4 DEF StopsAt, vars
  <2> QED
    BY <2>1 DEF vars
<1> QED
  BY <1>2, <1>3, <1>4 DEF StopsAt

\* What a miner announces for a block is the smallest valid proof, and no other
\* one ever after.
THEOREM SmallestProofFound == Spec => []SmallestProof
<1>1. TypeOK /\ SmallestProof /\ [Next]_vars => TypeOK' /\ SmallestProof'
  <2> SUFFICES ASSUME TypeOK, SmallestProof, [Next]_vars
               PROVE  TypeOK' /\ SmallestProof'
    OBVIOUS
  <2>1. CASE FindProof
    BY <2>1, RoundKeeps
  <2>2. CASE CutOver
    BY <2>2, ProofSearchAssumption DEF CutOver, StartNewSearch, TypeOK, SmallestProof
  <2>3. CASE UNCHANGED vars
    BY <2>3 DEF vars, TypeOK, SmallestProof
  <2> QED
    BY <2>1, <2>2, <2>3 DEF Next
<1> QED
  BY <1>1, InitSearch, PTL DEF Spec
=============================================================================
