---------------------------- MODULE LedgerProofs -----------------------------
(***************************************************************************)
(* Proofs about the ledger operators, for all ledgers and transactions.    *)
(*                                                                         *)
(* They fold over the transactions of a block and the outputs of a         *)
(* transaction: each fold is an instance of FoldProofs.                    *)
(***************************************************************************)
EXTENDS Ledger, SequenceTheorems, FiniteSetTheorems, TLAPS

\* What the ledger operators expect of a transaction.
WellFormed ==
  [from : Address, nonce : Nat, fee : Amount, signed : BOOLEAN,
   outputs : Seq(Output)]

\* The drafts made of transactions in Txs.
DraftType(Txs) ==
  [balances : [Address -> Amount], nextNonce : [Address -> Amount], txs : Seq(Txs)]

PlusOutput(sum, out) == Uint(sum + out.amount)

CreditOutput(bal, out) == [bal EXCEPT ![out.address] = Uint(@ + out.amount)]

Total   == INSTANCE FoldProofs WITH op <- PlusOutput
Credits == INSTANCE FoldProofs WITH op <- CreditOutput
Add     == INSTANCE FoldProofs WITH op <- AddTransaction

-----------------------------------------------------------------------------
(* Types: the operators stay within uint32 and keep their shape.           *)

LEMMA UintIsAmount ==
  ASSUME NEW i \in Int
  PROVE  Uint(i) \in Amount /\ (i \in Amount => Uint(i) = i)
  BY LedgerAssumption DEF Uint, Amount

LEMMA TotalOutputIsAmount ==
  ASSUME NEW tx \in WellFormed
  PROVE  TotalOutput(tx) \in Amount
<1> DEFINE n == Len(tx.outputs)
<1>1. /\ tx.fee \in Amount /\ tx.outputs \in Seq(Output)
      /\ n \in Nat /\ DOMAIN tx.outputs = 1 .. n
      /\ \A k \in 1 .. n : tx.outputs[k] \in Output
  BY DEF WellFormed
<1>2. ASSUME NEW sum \in Amount, NEW out \in Output
      PROVE  PlusOutput(sum, out) \in Amount
  <2>1. sum + out.amount \in Int
    BY LedgerAssumption DEF Amount, Output
  <2> QED
    BY <2>1, UintIsAmount DEF PlusOutput
<1>3. TotalOutput(tx) = Total!FoldTo(tx.fee, tx.outputs, n)
  BY <1>1 DEF TotalOutput, FoldLeft, MapThenFoldSet, Total!FoldTo, Total!IsFold,
              Max, Total!Max, PlusOutput
<1> HIDE DEF n
<1>4. Total!FoldTo(tx.fee, tx.outputs, n) \in Amount
  BY <1>1, <1>2, Total!FoldStaysIn
<1> QED
  BY <1>3, <1>4

LEMMA CreditsKeepBalances ==
  ASSUME NEW bal \in [Address -> Amount], NEW tx \in WellFormed
  PROVE  FoldLeft(CreditOutput, bal, tx.outputs) \in [Address -> Amount]
<1> DEFINE n == Len(tx.outputs)
<1>1. /\ tx.outputs \in Seq(Output)
      /\ n \in Nat /\ DOMAIN tx.outputs = 1 .. n
      /\ \A k \in 1 .. n : tx.outputs[k] \in Output
  BY DEF WellFormed
<1>2. ASSUME NEW b \in [Address -> Amount], NEW out \in Output
      PROVE  CreditOutput(b, out) \in [Address -> Amount]
  <2>1. out.address \in Address /\ b[out.address] + out.amount \in Int
    BY LedgerAssumption DEF Amount, Output
  <2> QED
    BY <2>1, UintIsAmount DEF CreditOutput
<1>3. FoldLeft(CreditOutput, bal, tx.outputs) = Credits!FoldTo(bal, tx.outputs, n)
  BY <1>1 DEF FoldLeft, MapThenFoldSet, Credits!FoldTo, Credits!IsFold,
              Max, Credits!Max
<1> HIDE DEF n
<1>4. Credits!FoldTo(bal, tx.outputs, n) \in [Address -> Amount]
  BY <1>1, <1>2, Credits!FoldStaysIn
<1> QED
  BY <1>3, <1>4

LEMMA ApplyKeepsType ==
  ASSUME NEW Txs, Txs \subseteq WellFormed,
         NEW draft \in DraftType(Txs), NEW tx \in Txs
  PROVE  ApplyTransaction(draft, tx) \in DraftType(Txs)
<1> DEFINE debited == [draft.balances EXCEPT ![tx.from] = Uint(@ - TotalOutput(tx))]
<1>1. /\ tx \in WellFormed /\ tx.from \in Address
      /\ TotalOutput(tx) \in Amount
  BY TotalOutputIsAmount DEF WellFormed
<1>2. debited \in [Address -> Amount]
  <2>1. draft.balances[tx.from] - TotalOutput(tx) \in Int
    BY <1>1, LedgerAssumption DEF DraftType, Amount
  <2> QED
    BY <1>1, <2>1, UintIsAmount DEF DraftType
<1>3. FoldLeft(CreditOutput, debited, tx.outputs) \in [Address -> Amount]
  BY <1>1, <1>2, CreditsKeepBalances
<1>4. [draft.nextNonce EXCEPT ![tx.from] = Uint(@ + 1)] \in [Address -> Amount]
  <2>1. draft.nextNonce[tx.from] + 1 \in Int
    BY <1>1, LedgerAssumption DEF DraftType, Amount
  <2> QED
    BY <1>1, <2>1, UintIsAmount DEF DraftType
<1>5. Append(draft.txs, tx) \in Seq(Txs)
  BY DEF DraftType
<1>6. ApplyTransaction(draft, tx) =
        [balances  |-> FoldLeft(CreditOutput, debited, tx.outputs),
         nextNonce |-> [draft.nextNonce EXCEPT ![tx.from] = Uint(@ + 1)],
         txs       |-> Append(draft.txs, tx)]
  BY DEF ApplyTransaction, CreditOutput
<1> HIDE DEF debited
<1> QED
  BY <1>3, <1>4, <1>5, <1>6 DEF DraftType

LEMMA AddKeepsType ==
  ASSUME NEW Txs, Txs \subseteq WellFormed,
         NEW draft \in DraftType(Txs), NEW tx \in Txs
  PROVE  AddTransaction(draft, tx) \in DraftType(Txs)
  BY ApplyKeepsType DEF AddTransaction

\* FoldLeft(AddTransaction, ...) is the fold of the instance Add.
LEMMA AddIsFold ==
  ASSUME NEW draft, NEW order, NEW n \in Nat, DOMAIN order = 1 .. n
  PROVE  FoldLeft(AddTransaction, draft, order) = Add!FoldTo(draft, order, n)
  BY DEF FoldLeft, MapThenFoldSet, Add!FoldTo, Add!IsFold, Max, Add!Max

\* FillBlock and Rerun make drafts of their transactions.
LEMMA EntriesKeepType ==
  ASSUME NEW Txs, Txs \subseteq WellFormed, NEW draft \in DraftType(Txs),
         NEW order \in Seq(Txs)
  PROVE  FoldLeft(AddTransaction, draft, order) \in DraftType(Txs)
<1> DEFINE n == Len(order)
<1>1. n \in Nat /\ DOMAIN order = 1 .. n /\ \A k \in 1 .. n : order[k] \in Txs
  OBVIOUS
<1>2. \A d \in DraftType(Txs), tx \in Txs : AddTransaction(d, tx) \in DraftType(Txs)
  BY AddKeepsType
<1>3. FoldLeft(AddTransaction, draft, order) = Add!FoldTo(draft, order, n)
  BY <1>1, AddIsFold
<1> HIDE DEF n
<1>4. Add!FoldTo(draft, order, n) \in DraftType(Txs)
  BY <1>1, <1>2, Add!FoldStaysIn
<1> QED
  BY <1>3, <1>4

\* The ledger of a block is one, whatever its transactions.
LEMMA RewardKeepsType ==
  ASSUME NEW parent, NEW ledger \in LedgerType
  PROVE  /\ PayReward(ledger, parent) \in LedgerType
         /\ PayReward(ledger, parent).nextNonce = ledger.nextNonce
<1> DEFINE a == parent.rewardAddr
<1>1. CASE a = NoAddress
  BY <1>1 DEF PayReward
<1>2. CASE a # NoAddress
  <2> DEFINE paid == [ledger.balances EXCEPT ![a] = Uint(@ + COINBASE_AMT_ALLOWED)]
  <2>1. PayReward(ledger, parent) = [ledger EXCEPT !.balances = paid]
    BY <1>2 DEF PayReward, LedgerType
  <2>2. paid \in [Address -> Amount]
    <3>1. CASE a \in Address
      <4>1. ledger.balances[a] + COINBASE_AMT_ALLOWED \in Int
        BY <3>1, LedgerAssumption DEF LedgerType, Amount
      <4> QED
        BY <4>1, UintIsAmount DEF LedgerType
    <3>2. CASE a \notin Address
      BY <3>2 DEF LedgerType
    <3> QED
      BY <3>1, <3>2
  <2> HIDE DEF paid
  <2> QED
    BY <2>1, <2>2 DEF LedgerType
<1> QED
  BY <1>1, <1>2

LEMMA NewDraftType ==
  ASSUME NEW Txs, NEW ledger \in LedgerType
  PROVE  NewDraft(ledger) \in DraftType(Txs)
  BY DEF NewDraft, DraftType, LedgerType

LEMMA RerunKeepsType ==
  ASSUME NEW parent, NEW ledger \in LedgerType, NEW txs \in Seq(WellFormed)
  PROVE  LedgerAfter(parent, ledger, txs) \in LedgerType
<1>1. NewDraft(PayReward(ledger, parent)) \in DraftType(WellFormed)
  BY RewardKeepsType, NewDraftType
<1>2. Rerun(parent, ledger, txs) \in DraftType(WellFormed)
  BY <1>1, EntriesKeepType DEF Rerun
<1> QED
  BY <1>2 DEF LedgerAfter, LedgerType, DraftType

-----------------------------------------------------------------------------
(* Finite sets *)

Finite(S) == IsFiniteSet(S)

LEMMA FiniteUnion ==
  /\ Finite({})
  /\ \A S, T : Finite(S) /\ Finite(T) => Finite(S \cup T)
  /\ \A S, x : Finite(S) => Finite(S \cup {x})
  BY FS_EmptySet, FS_Union, FS_AddElement DEF Finite

LEMMA FiniteImage ==
  ASSUME NEW S, Finite(S), NEW f, f = [x \in S |-> f[x]],
         NEW T, T \subseteq {f[x] : x \in S}
  PROVE  Finite(T)
<1> DEFINE R == {f[x] : x \in S}
<1>1. f \in Surjection(S, R)
  BY DEF Surjection
<1> HIDE DEF R
<1>2. IsFiniteSet(R)
  BY <1>1, FS_Surjection DEF Finite
<1> QED
  BY <1>2, FS_Subset DEF R, Finite

LEMMA FiniteInterval ==
  ASSUME NEW n \in Int
  PROVE  Finite(0 .. n)
  BY FS_Interval DEF Finite

LEMMA SmallerSet ==
  ASSUME NEW S, Finite(S), NEW x \in S
  PROVE  /\ Finite(S \ {x})
         /\ Cardinality(S) \in Nat \ {0}
         /\ Cardinality(S \ {x}) = Cardinality(S) - 1
<1>1. Cardinality(S) \in Nat /\ Cardinality(S) # 0
  BY FS_CardinalityType, FS_EmptySet DEF Finite
<1> QED
  BY <1>1, FS_RemoveElement DEF Finite

LEMMA SubsetFinite ==
  ASSUME NEW S, Finite(S), NEW T \in SUBSET S
  PROVE  Finite(T) /\ Cardinality(T) \in Nat /\ Cardinality(T) <= Cardinality(S)
  BY FS_Subset, FS_CardinalityType DEF Finite

\* The size of a set that grows.
CardOf(S) == Cardinality(S)

LEMMA LargerSet ==
  /\ CardOf({}) = 0
  /\ \A S, x : Finite(S) /\ x \notin S => /\ Finite(S \cup {x})
                                        /\ CardOf(S) \in Nat
                                        /\ CardOf(S \cup {x}) = CardOf(S) + 1
  BY FS_EmptySet, FS_AddElement, FS_CardinalityType DEF Finite, CardOf

\* An order of map iteration is a sequence: the pool is finite.
LEMMA OrderIsSequence ==
  ASSUME NEW Txs, NEW pool, pool \subseteq Txs, Finite(pool),
         NEW order \in SetToSeqs(pool)
  PROVE  order \in Seq(Txs)
<1>1. Cardinality(pool) \in Nat
  BY FS_CardinalityType DEF Finite
<1>2. order \in [1 .. Cardinality(pool) -> pool]
  BY DEF SetToSeqs
<1> QED
  BY <1>1, <1>2

-----------------------------------------------------------------------------
(* Nonces *)

\* In txs the nonces of each sender go from first[a] up to next[a], without a
\* gap, each once and in this order.
NoncesInOrder(first, next, txs) ==
  \A a \in Address :
    /\ first[a] <= next[a]
    /\ \A i \in DOMAIN txs : txs[i].from = a =>
         /\ first[a] <= txs[i].nonce
         /\ txs[i].nonce < next[a]
         /\ \A j \in DOMAIN txs :
              txs[j].from = a /\ i < j => txs[i].nonce < txs[j].nonce
    /\ \A k \in Nat : first[a] <= k /\ k < next[a] =>
         \E i \in DOMAIN txs : txs[i].from = a /\ txs[i].nonce = k

\* No sender reaches the nonce after which uint32 starts again from 0.
NoWrap(Txs) == \A tx \in Txs : tx.nonce < UintRange - 1

LEMMA AddKeepsNonces ==
  ASSUME NEW Txs, Txs \subseteq WellFormed, NoWrap(Txs),
         NEW first \in [Address -> Amount],
         NEW draft \in DraftType(Txs), NEW tx \in Txs,
         NoncesInOrder(first, draft.nextNonce, draft.txs)
  PROVE  LET new == AddTransaction(draft, tx)
         IN  NoncesInOrder(first, new.nextNonce, new.txs)
<1> DEFINE new  == AddTransaction(draft, tx)
           next == draft.nextNonce
           txs  == draft.txs
           len  == Len(txs)
<1>1. CASE ~ AcceptsTransaction(draft, tx)
  BY <1>1 DEF AddTransaction
<1>2. CASE AcceptsTransaction(draft, tx)
  <2>1. /\ tx.from \in Address /\ tx.nonce \in Nat /\ tx.nonce < UintRange - 1
        /\ tx.nonce = next[tx.from]
        /\ next \in [Address -> Amount] /\ txs \in Seq(Txs)
    BY <1>2 DEF AcceptsTransaction, WellFormed, DraftType, NoWrap
  <2>2. Uint(next[tx.from] + 1) = tx.nonce + 1
    BY <2>1, UintIsAmount, LedgerAssumption DEF Amount
  <2>3. /\ new.nextNonce = [next EXCEPT ![tx.from] = tx.nonce + 1]
        /\ new.txs = Append(txs, tx)
    BY <1>2, <2>2 DEF AddTransaction, ApplyTransaction
  <2>4. /\ len \in Nat /\ DOMAIN txs = 1 .. len
        /\ DOMAIN new.txs = 1 .. len + 1
        /\ \A i \in 1 .. len : new.txs[i] = txs[i] /\ txs[i] \in Txs
        /\ new.txs[len + 1] = tx
    BY <2>1, <2>3
  <2>5. \A a \in Address : first[a] \in Nat /\ next[a] \in Nat
    BY <2>1, LedgerAssumption DEF Amount
  <2>6. \A i \in 1 .. len : txs[i].nonce \in Nat
    BY <2>4 DEF WellFormed
  <2> SUFFICES ASSUME NEW a \in Address
               PROVE
        /\ first[a] <= new.nextNonce[a]
        /\ \A i \in DOMAIN new.txs : new.txs[i].from = a =>
             /\ first[a] <= new.txs[i].nonce
             /\ new.txs[i].nonce < new.nextNonce[a]
             /\ \A j \in DOMAIN new.txs :
                  new.txs[j].from = a /\ i < j => new.txs[i].nonce < new.txs[j].nonce
        /\ \A k \in Nat : first[a] <= k /\ k < new.nextNonce[a] =>
             \E i \in DOMAIN new.txs : new.txs[i].from = a /\ new.txs[i].nonce = k
    BY DEF NoncesInOrder
  <2>7. /\ first[a] <= next[a]
        /\ \A i \in 1 .. len : txs[i].from = a =>
             /\ first[a] <= txs[i].nonce
             /\ txs[i].nonce < next[a]
             /\ \A j \in 1 .. len :
                  txs[j].from = a /\ i < j => txs[i].nonce < txs[j].nonce
        /\ \A k \in Nat : first[a] <= k /\ k < next[a] =>
             \E i \in 1 .. len : txs[i].from = a /\ txs[i].nonce = k
    BY <2>4 DEF NoncesInOrder
  <2>8. new.nextNonce[a] = IF a = tx.from THEN next[a] + 1 ELSE next[a]
    BY <2>1, <2>3
  <2> HIDE DEF new, next, txs, len
  <2>9. first[a] <= new.nextNonce[a]
    BY <2>5, <2>7, <2>8
  <2>10. ASSUME NEW i \in DOMAIN new.txs, new.txs[i].from = a
         PROVE  /\ first[a] <= new.txs[i].nonce
                /\ new.txs[i].nonce < new.nextNonce[a]
                /\ \A j \in DOMAIN new.txs :
                     new.txs[j].from = a /\ i < j => new.txs[i].nonce < new.txs[j].nonce
    <3>1. CASE i = len + 1
      <4>1. new.txs[i] = tx /\ a = tx.from
        BY <2>4, <2>10, <3>1
      <4>2. \A j \in DOMAIN new.txs : ~ (i < j)
        BY <2>4, <3>1
      <4> QED
        BY <2>1, <2>5, <2>7, <2>8, <4>1, <4>2
    <3>2. CASE i \in 1 .. len
      <4>1. /\ new.txs[i] = txs[i] /\ txs[i].from = a
            /\ first[a] <= txs[i].nonce /\ txs[i].nonce < next[a]
        BY <2>4, <2>7, <2>10, <3>2
      <4>2. ASSUME NEW j \in DOMAIN new.txs, new.txs[j].from = a, i < j
            PROVE  new.txs[i].nonce < new.txs[j].nonce
        <5>1. CASE j = len + 1
          <6>1. new.txs[j] = tx /\ a = tx.from
            BY <2>4, <4>2, <5>1
          <6> QED
            BY <2>1, <4>1, <6>1
        <5>2. CASE j \in 1 .. len
          BY <2>4, <2>7, <3>2, <4>1, <4>2, <5>2
        <5> QED
          BY <2>4, <5>1, <5>2
      <4>3. txs[i].nonce < new.nextNonce[a]
        BY <2>5, <2>6, <2>8, <3>2, <4>1
      <4> QED
        BY <4>1, <4>2, <4>3
    <3> QED
      BY <2>4, <3>1, <3>2
  <2>11. ASSUME NEW k \in Nat, first[a] <= k, k < new.nextNonce[a]
         PROVE  \E i \in DOMAIN new.txs : new.txs[i].from = a /\ new.txs[i].nonce = k
    <3>1. CASE k < next[a]
      <4>1. PICK i \in 1 .. len : txs[i].from = a /\ txs[i].nonce = k
        BY <2>7, <2>11, <3>1
      <4> QED
        BY <2>4, <4>1
    <3>2. CASE ~ (k < next[a])
      <4>1. a = tx.from /\ k = tx.nonce
        BY <2>1, <2>5, <2>8, <2>11, <3>2
      <4> QED
        BY <2>4, <4>1
    <3> QED
      BY <3>1, <3>2
  <2> QED
    BY <2>9, <2>10, <2>11
<1> QED
  BY <1>1, <1>2

\* FillBlock and Rerun keep the nonces in order.
LEMMA EntriesKeepNonces ==
  ASSUME NEW Txs, Txs \subseteq WellFormed, NoWrap(Txs),
         NEW draft \in DraftType(Txs), draft.txs = <<>>,
         NEW order \in Seq(Txs)
  PROVE  LET new == FoldLeft(AddTransaction, draft, order)
         IN  NoncesInOrder(draft.nextNonce, new.nextNonce, new.txs)
<1> DEFINE n     == Len(order)
           first == draft.nextNonce
           I     == {d \in DraftType(Txs) : NoncesInOrder(first, d.nextNonce, d.txs)}
<1>1. n \in Nat /\ DOMAIN order = 1 .. n /\ \A k \in 1 .. n : order[k] \in Txs
  OBVIOUS
<1>2. first \in [Address -> Amount]
  BY DEF DraftType
<1>3. draft \in I
  <2>1. \A a \in Address : first[a] \in Nat
    BY <1>2, LedgerAssumption DEF Amount
  <2> QED
    BY <2>1 DEF NoncesInOrder
<1>4. \A d \in I, tx \in Txs : AddTransaction(d, tx) \in I
  BY <1>2, AddKeepsType, AddKeepsNonces
<1>5. FoldLeft(AddTransaction, draft, order) = Add!FoldTo(draft, order, n)
  BY <1>1, AddIsFold
<1> HIDE DEF n, I
<1>6. Add!FoldTo(draft, order, n) \in I
  BY <1>1, <1>3, <1>4, Add!FoldStaysIn
<1> QED
  BY <1>5, <1>6 DEF I

\* A block that Rerun accepts enters the nonces that follow its parent's.
LEMMA RerunKeepsNonces ==
  ASSUME NEW Txs, Txs \subseteq WellFormed, NoWrap(Txs),
         NEW parent, NEW ledger \in LedgerType, NEW txs \in Seq(Txs),
         RerunSucceeds(parent, ledger, txs)
  PROVE  NoncesInOrder(ledger.nextNonce,
                       LedgerAfter(parent, ledger, txs).nextNonce, txs)
<1> DEFINE draft == NewDraft(PayReward(ledger, parent))
<1>1. /\ draft \in DraftType(Txs) /\ draft.txs = <<>>
      /\ draft.nextNonce = ledger.nextNonce
  BY RewardKeepsType, NewDraftType DEF NewDraft
<1>2. /\ Rerun(parent, ledger, txs) = FoldLeft(AddTransaction, draft, txs)
      /\ Rerun(parent, ledger, txs).txs = txs
  BY DEF Rerun, RerunSucceeds
<1>3. LedgerAfter(parent, ledger, txs).nextNonce = Rerun(parent, ledger, txs).nextNonce
  BY DEF LedgerAfter
<1> HIDE DEF draft
<1> QED
  BY <1>1, <1>2, <1>3, EntriesKeepNonces

-----------------------------------------------------------------------------
(* The transactions on a chain, given the headers of the blocks and the    *)
(* ledgers one node keeps.                                                 *)

ChainOf(header) ==
  [h \in 0 .. header.len |-> IF h = header.len THEN header.id ELSE header.chain[h]]

\* What NoReplay says of the sender a and the chain of b.
ReplayFree(headers, ledgers, chain, b, a) ==
  LET next    == ledgers[b].nextNonce[a]
      heights == 0 .. headers[b].len
      Txs(h)  == headers[chain[h]].txs
      Own(h)  == {i \in DOMAIN Txs(h) : Txs(h)[i].from = a}
  IN  /\ \A k \in 0 .. next - 1 :
           \E h \in heights : \E i \in Own(h) : Txs(h)[i].nonce = k
      /\ \A h \in heights : \A i \in Own(h) :
           /\ Txs(h)[i].nonce \in 0 .. next - 1
           /\ \A g \in heights : \A j \in Own(g) :
                g < h \/ (g = h /\ j < i) => Txs(g)[j].nonce < Txs(h)[i].nonce

\* The block b, with transactions of S, has a ledger, and unless b is a genesis
\* block Rerun accepted it on top of its parent.
ReplayedOK(headers, ledgers, S, b) ==
  LET p == headers[b].prev
  IN  /\ headers[b].id = b
      /\ headers[b].len \in Nat
      /\ headers[b].txs \in Seq(S)
      /\ ledgers[b] \in LedgerType
      /\ headers[b].len = 0 =>
           /\ headers[b].txs = <<>>
           /\ \A a \in Address : ledgers[b].nextNonce[a] = 0
      /\ headers[b].len # 0 =>
           /\ p \in DOMAIN ledgers
           /\ headers[b].len = headers[p].len + 1
           /\ headers[b].chain = ChainOf(headers[p])
           /\ ledgers[b] = LedgerAfter(headers[p], ledgers[p], headers[b].txs)
           /\ RerunSucceeds(headers[p], ledgers[p], headers[b].txs)

LEMMA GenesisReplayFree ==
  ASSUME NEW S, NEW headers, NEW ledgers, NEW b, NEW a \in Address,
         ReplayedOK(headers, ledgers, S, b), headers[b].len = 0
  PROVE  ReplayFree(headers, ledgers, ChainOf(headers[b]), b, a)
<1>1. ChainOf(headers[b])[0] = b
  BY DEF ReplayedOK, ChainOf
<1>2. headers[b].txs = <<>> /\ ledgers[b].nextNonce[a] = 0
  BY DEF ReplayedOK
<1>3. \A h \in 0 .. headers[b].len : h = 0
  OBVIOUS
<1>4. \A h \in 0 .. headers[b].len : DOMAIN headers[ChainOf(headers[b])[h]].txs = {}
  BY <1>1, <1>2, <1>3
<1>5. 0 .. ledgers[b].nextNonce[a] - 1 = {}
  BY <1>2
<1> QED
  BY <1>4, <1>5 DEF ReplayFree

\* A block puts its own transactions behind those of its parent's chain.
LEMMA ChildReplayFree ==
  ASSUME NEW S, S \subseteq WellFormed, NoWrap(S),
         NEW headers, NEW ledgers, NEW b, NEW a \in Address,
         ReplayedOK(headers, ledgers, S, b), headers[b].len # 0,
         ReplayedOK(headers, ledgers, S, headers[b].prev),
         ReplayFree(headers, ledgers, ChainOf(headers[headers[b].prev]), headers[b].prev, a)
  PROVE  ReplayFree(headers, ledgers, ChainOf(headers[b]), b, a)
<1> DEFINE p       == headers[b].prev
           len     == headers[p].len
           first   == ledgers[p].nextNonce[a]
           next    == ledgers[b].nextNonce[a]
           Txs(h)  == headers[ChainOf(headers[b])[h]].txs
           Old(h)  == headers[ChainOf(headers[p])[h]].txs
           new     == headers[b].txs
<1>1. /\ len \in Nat /\ headers[b].len = len + 1
      /\ headers[b].id = b
      /\ headers[b].chain = ChainOf(headers[p])
  BY DEF ReplayedOK
<1>2. \A h \in 0 .. len : Txs(h) = Old(h)
  <2> SUFFICES ASSUME NEW h \in 0 .. len
               PROVE  ChainOf(headers[b])[h] = ChainOf(headers[p])[h]
    OBVIOUS
  <2>1. h \in 0 .. len + 1 /\ h # len + 1
    BY <1>1
  <2> QED
    BY <1>1, <2>1 DEF ChainOf
<1>3. Txs(len + 1) = new
  <2>1. len + 1 \in 0 .. headers[b].len /\ len + 1 = headers[b].len
    BY <1>1
  <2> QED
    BY <1>1, <2>1 DEF ChainOf
<1>4. NoncesInOrder(ledgers[p].nextNonce, ledgers[b].nextNonce, new)
  BY RerunKeepsNonces DEF ReplayedOK
<1>5. first \in Nat /\ next \in Nat
  <2>1. ledgers[p] \in LedgerType /\ ledgers[b] \in LedgerType
    BY DEF ReplayedOK
  <2>2. Amount \subseteq Nat
    BY LedgerAssumption DEF Amount
  <2> QED
    BY <2>1, <2>2 DEF LedgerType
<1> HIDE DEF first, next, new, len, Txs, Old
<1>6. /\ first <= next
      /\ \A i \in DOMAIN new : new[i].from = a =>
           /\ first <= new[i].nonce
           /\ new[i].nonce < next
           /\ \A j \in DOMAIN new :
                new[j].from = a /\ i < j => new[i].nonce < new[j].nonce
      /\ \A k \in Nat : first <= k /\ k < next =>
           \E i \in DOMAIN new : new[i].from = a /\ new[i].nonce = k
  BY <1>1, <1>4 DEF NoncesInOrder, first, next
<1>7. /\ \A k \in 0 .. first - 1 : \E h \in 0 .. len : \E i \in DOMAIN Old(h) :
           Old(h)[i].from = a /\ Old(h)[i].nonce = k
      /\ \A h \in 0 .. len : \A i \in DOMAIN Old(h) : Old(h)[i].from = a =>
           /\ Old(h)[i].nonce \in 0 .. first - 1
           /\ \A g \in 0 .. len : \A j \in DOMAIN Old(g) : Old(g)[j].from = a =>
                (g < h \/ (g = h /\ j < i) => Old(g)[j].nonce < Old(h)[i].nonce)
  BY DEF ReplayFree, first, len, Old
<1>8. ASSUME NEW k \in 0 .. next - 1
      PROVE  \E h \in 0 .. len + 1 : \E i \in DOMAIN Txs(h) :
               Txs(h)[i].from = a /\ Txs(h)[i].nonce = k
  <2>1. CASE k < first
    <3>1. PICK h \in 0 .. len : \E i \in DOMAIN Old(h) :
            Old(h)[i].from = a /\ Old(h)[i].nonce = k
      <4>1. k \in 0 .. first - 1
        BY <1>5, <2>1
      <4> QED
        BY <1>7, <4>1
    <3> QED
      BY <1>1, <1>2, <3>1
  <2>2. CASE first <= k
    <3>1. PICK i \in DOMAIN new : new[i].from = a /\ new[i].nonce = k
      BY <1>5, <1>6, <2>2
    <3>2. len + 1 \in 0 .. len + 1
      BY <1>1
    <3> QED
      BY <1>3, <3>1, <3>2
  <2> QED
    BY <1>5, <2>1, <2>2
<1>9. ASSUME NEW h \in 0 .. len + 1, NEW i \in DOMAIN Txs(h), Txs(h)[i].from = a
      PROVE  /\ Txs(h)[i].nonce \in 0 .. next - 1
             /\ \A g \in 0 .. len + 1 : \A j \in DOMAIN Txs(g) : Txs(g)[j].from = a =>
                  (g < h \/ (g = h /\ j < i) => Txs(g)[j].nonce < Txs(h)[i].nonce)
  <2>1. CASE h \in 0 .. len
    <3>1. Txs(h) = Old(h) /\ Txs(h)[i].nonce \in 0 .. first - 1
      BY <1>2, <1>7, <1>9, <2>1
    <3>2. ASSUME NEW g \in 0 .. len + 1, g < h \/ g = h
          PROVE  g \in 0 .. len /\ Txs(g) = Old(g)
      BY <1>1, <1>2, <2>1, <3>2
    <3>3. Txs(h)[i].nonce \in 0 .. next - 1
      BY <1>5, <1>6, <3>1
    <3> QED
      BY <1>7, <1>9, <2>1, <3>1, <3>2, <3>3
  <2>2. CASE h = len + 1
    <3>1. Txs(h) = new /\ Txs(h)[i].nonce \in first .. next - 1
      <4>1. i \in DOMAIN new /\ new[i].from = a
        BY <1>3, <1>9, <2>2
      <4>2. new[i].nonce \in Nat
        <5>1. new \in Seq(S)
          BY DEF ReplayedOK, new
        <5>2. new[i] \in S
          BY <4>1, <5>1
        <5> QED
          BY <5>2 DEF WellFormed
      <4> QED
        BY <1>3, <1>5, <1>6, <2>2, <4>1, <4>2
    <3>2. ASSUME NEW g \in 0 .. len + 1, NEW j \in DOMAIN Txs(g),
                 Txs(g)[j].from = a, g < h
          PROVE  Txs(g)[j].nonce < Txs(h)[i].nonce
      <4>1. g \in 0 .. len /\ Txs(g) = Old(g)
        BY <1>1, <1>2, <2>2, <3>2
      <4>2. Txs(g)[j].nonce \in 0 .. first - 1
        BY <1>7, <3>2, <4>1
      <4> QED
        BY <1>5, <3>1, <4>2
    <3>3. ASSUME NEW j \in DOMAIN Txs(h), Txs(h)[j].from = a, j < i
          PROVE  Txs(h)[j].nonce < Txs(h)[i].nonce
      BY <1>6, <1>9, <3>1, <3>3
    <3>4. Txs(h)[i].nonce \in 0 .. next - 1
      BY <1>5, <3>1
    <3> QED
      BY <3>2, <3>3, <3>4
  <2> QED
    BY <1>1, <2>1, <2>2
<1>10. 0 .. headers[b].len = 0 .. len + 1
  BY <1>1
<1> DEFINE Own(h) == {i \in DOMAIN Txs(h) : Txs(h)[i].from = a}
<1>11. \A k \in 0 .. next - 1 :
         \E h \in 0 .. headers[b].len : \E i \in Own(h) : Txs(h)[i].nonce = k
  BY <1>8, <1>10
<1>12. \A h \in 0 .. headers[b].len : \A i \in Own(h) :
         /\ Txs(h)[i].nonce \in 0 .. next - 1
         /\ \A g \in 0 .. headers[b].len : \A j \in Own(g) :
              g < h \/ (g = h /\ j < i) => Txs(g)[j].nonce < Txs(h)[i].nonce
  BY <1>9, <1>10
<1> QED
  BY <1>11, <1>12 DEF ReplayFree, next, Txs

\* A node that replayed all it knows has no chain with a replayed transaction.
LEMMA ReplayedIsReplayFree ==
  ASSUME NEW S, S \subseteq WellFormed, NoWrap(S), NEW headers, NEW ledgers,
         \A b \in DOMAIN ledgers : ReplayedOK(headers, ledgers, S, b)
  PROVE  \A b \in DOMAIN ledgers : \A a \in Address :
           ReplayFree(headers, ledgers, ChainOf(headers[b]), b, a)
<1> DEFINE T == {k \in Nat : \A b \in DOMAIN ledgers :
                   headers[b].len = k =>
                     \A a \in Address :
                       ReplayFree(headers, ledgers, ChainOf(headers[b]), b, a)}
<1>1. 0 \in T
  BY GenesisReplayFree
<1>2. ASSUME NEW k \in Nat, k \in T
      PROVE  k + 1 \in T
  <2> SUFFICES ASSUME NEW b \in DOMAIN ledgers, headers[b].len = k + 1,
                      NEW a \in Address
               PROVE  ReplayFree(headers, ledgers, ChainOf(headers[b]), b, a)
    OBVIOUS
  <2> DEFINE p == headers[b].prev
  <2>1. /\ ReplayedOK(headers, ledgers, S, b) /\ headers[b].len # 0
        /\ p \in DOMAIN ledgers /\ headers[b].len = headers[p].len + 1
    BY DEF ReplayedOK
  <2>2. ReplayedOK(headers, ledgers, S, p) /\ headers[p].len = k
    <3>1. ReplayedOK(headers, ledgers, S, p)
      BY <2>1
    <3>2. headers[p].len \in Nat
      BY <3>1 DEF ReplayedOK
    <3> QED
      BY <2>1, <3>1, <3>2
  <2>3. ReplayFree(headers, ledgers, ChainOf(headers[p]), p, a)
    BY <1>2, <2>1, <2>2
  <2> QED
    BY <2>1, <2>2, <2>3, ChildReplayFree
<1> HIDE DEF T
<1>3. \A k \in Nat : k \in T
  BY <1>1, <1>2, Add!NatSetInduction
<1>4. \A b \in DOMAIN ledgers : headers[b].len \in Nat
  BY DEF ReplayedOK
<1> QED
  BY <1>3, <1>4 DEF T

-----------------------------------------------------------------------------
(* Sums.  SumFunctionOnSet is a recursive function on sets; what it is in  *)
(* any order follows by induction on the size of the set.                  *)

OneOf(S) == CHOOSE x \in S : TRUE

\* The function that SumFunctionOnSet computes, on sets in D.
IsSum(g, f, D) ==
  g = [s \in D |-> IF s = {} THEN 0 ELSE f[OneOf(s)] + g[s \ {OneOf(s)}]]

IsSumOver(g, f, S) == IsSum(g, f, SUBSET S)

SumOver(f, S) == SumFunctionOnSet(f, S)

LEMMA SumExists ==
  ASSUME NEW f, NEW S, Finite(S)
  PROVE  \E g : IsSumOver(g, f, S)
<1> DEFINE Small(n) == {s \in SUBSET S : Cardinality(s) <= n}
           T        == {n \in Nat : \E g : IsSum(g, f, Small(n))}
<1>1. 0 \in T
  <2>1. \A s \in Small(0) : s = {}
    <3> SUFFICES ASSUME NEW s \in Small(0), NEW x \in s PROVE FALSE
      OBVIOUS
    <3>1. Finite(s) /\ Cardinality(s) <= 0
      BY SubsetFinite
    <3> HIDE DEF Small
    <3>2. Cardinality(s) \in Nat \ {0}
      BY <3>1, SmallerSet
    <3> QED
      BY <3>1, <3>2
  <2> DEFINE g == [s \in Small(0) |-> 0]
  <2> HIDE DEF Small
  <2>2. IsSum(g, f, Small(0))
    BY <2>1 DEF IsSum
  <2> QED
    BY <2>2
<1>2. ASSUME NEW k \in Nat, k \in T
      PROVE  k + 1 \in T
  <2>1. PICK g : IsSum(g, f, Small(k))
    BY <1>2
  <2> DEFINE F(s) == IF s = {} THEN 0 ELSE f[OneOf(s)] + g[s \ {OneOf(s)}]
             h    == [s \in Small(k + 1) |-> F(s)]
  <2>2. \A s \in Small(k) : s \in Small(k + 1)
    BY SubsetFinite
  <2>3. \A s \in Small(k + 1) : s # {} => s \ {OneOf(s)} \in Small(k)
    <3> SUFFICES ASSUME NEW s \in Small(k + 1), s # {}
                 PROVE  s \ {OneOf(s)} \in Small(k)
      OBVIOUS
    <3>1. OneOf(s) \in s
      BY DEF OneOf
    <3>2. Finite(s) /\ Cardinality(s) <= k + 1 /\ s \ {OneOf(s)} \in SUBSET S
      BY SubsetFinite
    <3>3. Cardinality(s \ {OneOf(s)}) = Cardinality(s) - 1 /\ Cardinality(s) \in Nat
      BY <3>1, <3>2, SmallerSet
    <3> QED
      BY <3>2, <3>3
  <2> HIDE DEF Small
  <2>4. \A s \in Small(k) : h[s] = g[s]
    <3>1. \A s \in Small(k) : g[s] = F(s)
      BY <2>1 DEF IsSum
    <3> HIDE DEF F
    <3> QED
      BY <2>2, <3>1
  <2>5. \A s \in Small(k + 1) : s # {} => h[s \ {OneOf(s)}] = g[s \ {OneOf(s)}]
    <3> HIDE DEF h
    <3> QED
      BY <2>3, <2>4
  <2>6. IsSum(h, f, Small(k + 1))
    BY <2>5 DEF IsSum
  <2> QED
    BY <2>6
<1>3. Cardinality(S) \in Nat
  BY FS_CardinalityType DEF Finite
<1>4. SUBSET S = Small(Cardinality(S))
  BY SubsetFinite
<1> HIDE DEF T, Small
<1>5. Cardinality(S) \in T
  BY <1>1, <1>2, <1>3, Add!NatSetInduction
<1> QED
  BY <1>4, <1>5 DEF T, IsSumOver

LEMMA SumUnique ==
  ASSUME NEW f, NEW S, Finite(S), NEW g, IsSumOver(g, f, S),
         NEW R, R \subseteq S, NEW h, IsSumOver(h, f, R)
  PROVE  h[R] = g[R]
<1> DEFINE T == {n \in Nat : \A s \in SUBSET R : Cardinality(s) = n => h[s] = g[s]}
<1>1. \A s \in SUBSET R : /\ Finite(s) /\ s \in SUBSET S
                          /\ Cardinality(s) \in Nat
  BY SubsetFinite
<1>2. ASSUME NEW s \in SUBSET R, s # {}
      PROVE  /\ h[s] = f[OneOf(s)] + h[s \ {OneOf(s)}]
             /\ g[s] = f[OneOf(s)] + g[s \ {OneOf(s)}]
             /\ s \ {OneOf(s)} \in SUBSET R
             /\ Cardinality(s) \in Nat \ {0}
             /\ Cardinality(s \ {OneOf(s)}) = Cardinality(s) - 1
  <2>1. OneOf(s) \in s
    BY <1>2 DEF OneOf
  <2>2. s \in SUBSET S
    OBVIOUS
  <2>3. h[s] = f[OneOf(s)] + h[s \ {OneOf(s)}]
    BY <1>2 DEF IsSum, IsSumOver
  <2>4. g[s] = f[OneOf(s)] + g[s \ {OneOf(s)}]
    BY <1>2, <2>2 DEF IsSum, IsSumOver
  <2> QED
    BY <1>1, <2>1, <2>3, <2>4, SmallerSet
<1>3. 0 \in T
  <2> SUFFICES ASSUME NEW s \in SUBSET R, Cardinality(s) = 0 PROVE h[s] = g[s]
    OBVIOUS
  <2>1. s = {}
    BY <1>2
  <2>2. {} \in SUBSET R /\ {} \in SUBSET S
    OBVIOUS
  <2>3. h[{}] = 0 /\ g[{}] = 0
    BY <2>2 DEF IsSum, IsSumOver
  <2> QED
    BY <2>1, <2>3
<1>4. ASSUME NEW k \in Nat, k \in T
      PROVE  k + 1 \in T
  <2> SUFFICES ASSUME NEW s \in SUBSET R, Cardinality(s) = k + 1
               PROVE  h[s] = g[s]
    OBVIOUS
  <2>1. s # {}
    BY <1>1, FS_EmptySet DEF Finite
  <2>2. h[s \ {OneOf(s)}] = g[s \ {OneOf(s)}]
    BY <1>2, <1>4, <2>1
  <2> QED
    BY <1>2, <2>1, <2>2
<1> HIDE DEF T
<1>5. Cardinality(R) \in T
  BY <1>1, <1>3, <1>4, Add!NatSetInduction
<1> QED
  BY <1>5 DEF T

\* SumFunctionOnSet takes one element after another, in an order of its own.
LEMMA SumTakesAny ==
  ASSUME NEW f, NEW S, Finite(S)
  PROVE  /\ SumOver(f, {}) = 0
         /\ S # {} => SumOver(f, S) = f[OneOf(S)] + SumOver(f, S \ {OneOf(S)})
<1> DEFINE sum(R) == CHOOSE g : IsSumOver(g, f, R)
<1>1. \A R : SumOver(f, R) = sum(R)[R]
  BY DEF SumOver, SumFunctionOnSet, FoldFunctionOnSet, MapThenFoldSet, IsSum, IsSumOver, OneOf
<1>2. ASSUME NEW R, Finite(R)
      PROVE  IsSumOver(sum(R), f, R)
  BY <1>2, SumExists
<1> HIDE DEF sum
<1>3. SumOver(f, {}) = 0
  <2>1. IsSumOver(sum({}), f, {})
    BY <1>2, FiniteUnion
  <2>2. {} \in SUBSET {}
    OBVIOUS
  <2>3. sum({})[{}] = 0
    BY <2>1, <2>2 DEF IsSum, IsSumOver
  <2> QED
    BY <1>1, <2>3
<1>4. ASSUME S # {}
      PROVE  SumOver(f, S) = f[OneOf(S)] + SumOver(f, S \ {OneOf(S)})
  <2> DEFINE R == S \ {OneOf(S)}
  <2>1. R \in SUBSET S /\ S \in SUBSET S /\ Finite(R)
    BY SubsetFinite
  <2>2. sum(S)[S] = f[OneOf(S)] + sum(S)[R]
    BY <1>2, <1>4, <2>1 DEF IsSum, IsSumOver
  <2>3. IsSumOver(sum(S), f, S) /\ IsSumOver(sum(R), f, R) /\ R \subseteq S
    BY <1>2, <2>1
  <2> HIDE DEF R
  <2>4. sum(R)[R] = sum(S)[R]
    BY <2>3, SumUnique
  <2> QED
    BY <1>1, <2>2, <2>3, <2>4 DEF R
<1> QED
  BY <1>3, <1>4

\* In any other order the sum is the same.
LEMMA SumTakesEach ==
  ASSUME NEW f, NEW S, Finite(S), \A x \in S : f[x] \in Nat
  PROVE  /\ SumOver(f, S) \in Nat
         /\ \A x \in S : /\ SumOver(f, S \ {x}) \in Nat
                        /\ SumOver(f, S) = f[x] + SumOver(f, S \ {x})
<1> DEFINE OK(R) == /\ SumOver(f, R) \in Nat
                    /\ \A x \in R : /\ SumOver(f, R \ {x}) \in Nat
                                   /\ SumOver(f, R) = f[x] + SumOver(f, R \ {x})
           T     == {n \in Nat : \A R \in SUBSET S : Cardinality(R) = n => OK(R)}
<1>1. \A R \in SUBSET S : Finite(R) /\ Cardinality(R) \in Nat
  BY SubsetFinite
<1>2. ASSUME NEW R \in SUBSET S, R # {}, NEW x \in R
      PROVE  /\ R \ {x} \in SUBSET S
             /\ Cardinality(R) \in Nat \ {0}
             /\ Cardinality(R \ {x}) = Cardinality(R) - 1
  BY <1>1, SmallerSet
<1>3. 0 \in T
  <2> SUFFICES ASSUME NEW R \in SUBSET S, Cardinality(R) = 0 PROVE OK(R)
    OBVIOUS
  <2>1. R = {}
    BY <1>2
  <2>2. SumOver(f, R) = 0
    BY <2>1, FiniteUnion, SumTakesAny
  <2> QED
    BY <2>1, <2>2
<1>4. ASSUME NEW k \in Nat, k \in T
      PROVE  k + 1 \in T
  <2> SUFFICES ASSUME NEW R \in SUBSET S, Cardinality(R) = k + 1
               PROVE  OK(R)
    OBVIOUS
  <2> DEFINE y == OneOf(R)
  <2>1. R # {}
    BY <1>1, FS_EmptySet DEF Finite
  <2>2. y \in R
    BY <2>1 DEF OneOf
  <2>3. SumOver(f, R) = f[y] + SumOver(f, R \ {y})
    BY <1>1, <2>1, SumTakesAny
  <2> HIDE DEF y, OK
  <2>4. \A x \in R : OK(R \ {x})
    BY <1>2, <1>4, <2>1
  <2>5. ASSUME NEW x \in R
        PROVE  /\ SumOver(f, R \ {x}) \in Nat
               /\ f[x] \in Nat
               /\ SumOver(f, R) = f[x] + SumOver(f, R \ {x})
    <3>1. SumOver(f, R \ {x}) \in Nat /\ f[x] \in Nat /\ f[y] \in Nat
      BY <2>2, <2>4 DEF OK
    <3>2. CASE x = y
      BY <2>3, <3>1, <3>2
    <3>3. CASE x # y
      <4>1. /\ SumOver(f, R \ {y}) = f[x] + SumOver(f, (R \ {y}) \ {x})
            /\ SumOver(f, (R \ {y}) \ {x}) \in Nat
        BY <2>2, <2>4, <3>3 DEF OK
      <4>2. SumOver(f, R \ {x}) = f[y] + SumOver(f, (R \ {x}) \ {y})
        BY <2>2, <2>4, <3>3 DEF OK
      <4>3. (R \ {x}) \ {y} = (R \ {y}) \ {x}
        OBVIOUS
      <4> QED
        BY <2>3, <3>1, <4>1, <4>2, <4>3
    <3> QED
      BY <3>1, <3>2, <3>3
  <2>6. SumOver(f, R) \in Nat
    <3>1. f[y] \in Nat /\ SumOver(f, R \ {y}) \in Nat
      BY <2>2, <2>5
    <3> QED
      BY <2>3, <3>1
  <2> QED
    BY <2>5, <2>6 DEF OK
<1> HIDE DEF T, OK
<1>5. Cardinality(S) \in T
  BY <1>1, <1>3, <1>4, Add!NatSetInduction
<1>6. OK(S)
  BY <1>5 DEF T
<1> QED
  BY <1>6 DEF OK

LEMMA SumDepends ==
  ASSUME NEW f, NEW g, NEW S, Finite(S), \A x \in S : f[x] = g[x]
  PROVE  SumOver(f, S) = SumOver(g, S)
<1> DEFINE T == {n \in Nat : \A R \in SUBSET S :
                   Cardinality(R) = n => SumOver(f, R) = SumOver(g, R)}
<1>1. \A R \in SUBSET S : Finite(R) /\ Cardinality(R) \in Nat
  BY SubsetFinite
<1>2. 0 \in T
  <2> SUFFICES ASSUME NEW R \in SUBSET S, Cardinality(R) = 0
               PROVE  SumOver(f, R) = SumOver(g, R)
    OBVIOUS
  <2>1. R = {}
    BY <1>1, SmallerSet
  <2> QED
    BY <2>1, FiniteUnion, SumTakesAny
<1>3. ASSUME NEW k \in Nat, k \in T
      PROVE  k + 1 \in T
  <2> SUFFICES ASSUME NEW R \in SUBSET S, Cardinality(R) = k + 1
               PROVE  SumOver(f, R) = SumOver(g, R)
    OBVIOUS
  <2> DEFINE y == OneOf(R)
  <2>1. R # {}
    BY <1>1, FS_EmptySet DEF Finite
  <2>2. y \in R
    BY <2>1 DEF OneOf
  <2>3. Cardinality(R \ {y}) = k /\ R \ {y} \in SUBSET S
    BY <1>1, <2>2, SmallerSet
  <2>4. /\ SumOver(f, R) = f[y] + SumOver(f, R \ {y})
        /\ SumOver(g, R) = g[y] + SumOver(g, R \ {y})
    BY <1>1, <2>1, SumTakesAny
  <2>5. SumOver(f, R \ {y}) = SumOver(g, R \ {y})
    BY <1>3, <2>3
  <2>6. f[y] = g[y]
    BY <2>2
  <2> HIDE DEF y
  <2> QED
    BY <2>4, <2>5, <2>6
<1> HIDE DEF T
<1>4. Cardinality(S) \in T
  BY <1>1, <1>2, <1>3, Add!NatSetInduction
<1> QED
  BY <1>4 DEF T

\* One value replaced.
LEMMA SumReplaces ==
  ASSUME NEW S, Finite(S), NEW f \in [S -> Nat], NEW g \in [S -> Nat], NEW a \in S,
         \A x \in S \ {a} : g[x] = f[x]
  PROVE  /\ SumOver(f, S) \in Nat
         /\ f[a] <= SumOver(f, S)
         /\ SumOver(g, S) = SumOver(f, S) - f[a] + g[a]
<1> DEFINE rest == S \ {a}
<1>1. Finite(rest)
  BY SubsetFinite
<1>2. SumOver(f, rest) = SumOver(g, rest)
  BY <1>1, SumDepends
<1>3. /\ SumOver(f, S) \in Nat /\ SumOver(f, rest) \in Nat
      /\ SumOver(f, S) = f[a] + SumOver(f, rest)
  BY SumTakesEach
<1>4. SumOver(g, S) = g[a] + SumOver(g, rest)
  BY SumTakesEach
<1>5. f[a] \in Nat /\ g[a] \in Nat
  OBVIOUS
<1> HIDE DEF rest
<1> QED
  BY <1>2, <1>3, <1>4, <1>5

\* Sums over the first values of a sequence.
LEMMA SumExtends ==
  ASSUME NEW i \in {0, 1}, NEW n \in Nat, NEW f, \A k \in i .. n + 1 : f[k] \in Nat
  PROVE  /\ SumOver(f, i .. n + 1) = SumOver(f, i .. n) + f[n + 1]
         /\ SumOver(f, i .. n) \in Nat
<1> DEFINE all == i .. n + 1
<1>1. Finite(all)
  BY FS_Interval DEF Finite
<1>2. all \ {n + 1} = i .. n /\ n + 1 \in all
  OBVIOUS
<1>3. \A k \in all : f[k] \in Nat
  OBVIOUS
<1> HIDE DEF all
<1>4. /\ SumOver(f, all \ {n + 1}) \in Nat
      /\ SumOver(f, all) = f[n + 1] + SumOver(f, all \ {n + 1})
  BY <1>1, <1>2, <1>3, SumTakesEach
<1>5. /\ SumOver(f, i .. n) \in Nat
      /\ SumOver(f, all) = f[n + 1] + SumOver(f, i .. n)
  BY <1>2, <1>4
<1>6. f[n + 1] \in Nat
  BY <1>2, <1>3
<1> QED
  BY <1>5, <1>6 DEF all

-----------------------------------------------------------------------------
(* Gold.  Where the gold of a ledger and what a transaction gives away fit  *)
(* into uint32, nothing wraps around: the operators compute exactly.        *)

\* What the transactions in Txs give away fits into uint32.
Fits(Txs) == \A tx \in Txs : ExactTotal(tx) < UintRange

\* The balances with gold added to one account.
Plus(bal, a, gold) == [bal EXCEPT ![a] = @ + gold]

\* The sum of the first k outputs of tx.
PaidBy(tx, k) ==
  SumOver([i \in DOMAIN tx.outputs |-> tx.outputs[i].amount], 1 .. k)

LEMMA AddressesFinite == Finite(Address)
  BY LedgerAssumption DEF Finite

LEMMA TotalIsSum ==
  ASSUME NEW bal \in [Address -> Amount]
  PROVE  /\ TotalOf(bal) = SumOver(bal, Address)
         /\ bal \in [Address -> Nat]
         /\ TotalOf(bal) \in Nat
         /\ \A a \in Address : bal[a] \in Nat /\ bal[a] <= TotalOf(bal)
<1>1. Amount \subseteq Nat
  BY LedgerAssumption DEF Amount
<1>2. bal \in [Address -> Nat]
  BY <1>1
<1>3. TotalOf(bal) = SumOver(bal, Address)
  BY DEF TotalOf, SumFunction, SumOver
<1>4. SumOver(bal, Address) \in Nat
  BY <1>2, AddressesFinite, SumTakesEach
<1>5. \A a \in Address : bal[a] <= SumOver(bal, Address)
  BY <1>2, AddressesFinite, SumReplaces
<1> QED
  BY <1>2, <1>3, <1>4, <1>5

LEMMA TotalReplaces ==
  ASSUME NEW bal \in [Address -> Amount], NEW new \in [Address -> Amount],
         NEW a \in Address, \A x \in Address \ {a} : new[x] = bal[x]
  PROVE  TotalOf(new) = TotalOf(bal) - bal[a] + new[a]
<1>1. bal \in [Address -> Nat] /\ new \in [Address -> Nat]
  BY TotalIsSum
<1>2. SumOver(new, Address) = SumOver(bal, Address) - bal[a] + new[a]
  BY <1>1, AddressesFinite, SumReplaces
<1> QED
  BY <1>2, TotalIsSum

\* Gold that fits can be added.
LEMMA PlusIsExact ==
  ASSUME NEW bal \in [Address -> Amount], NEW a \in Address, NEW gold \in Nat,
         TotalOf(bal) + gold < UintRange
  PROVE  /\ Plus(bal, a, gold) \in [Address -> Amount]
         /\ TotalOf(Plus(bal, a, gold)) = TotalOf(bal) + gold
         /\ Uint(bal[a] + gold) = bal[a] + gold
<1> DEFINE new == Plus(bal, a, gold)
<1>1. bal[a] \in Nat /\ bal[a] <= TotalOf(bal) /\ TotalOf(bal) \in Nat
  BY TotalIsSum
<1>2. bal[a] + gold \in Amount
  BY <1>1, LedgerAssumption DEF Amount
<1>3. /\ new \in [Address -> Amount] /\ new[a] = bal[a] + gold
      /\ \A x \in Address \ {a} : new[x] = bal[x]
  BY <1>2 DEF Plus
<1> HIDE DEF new
<1>4. TotalOf(new) = TotalOf(bal) - bal[a] + new[a]
  BY <1>3, TotalReplaces
<1>5. Uint(bal[a] + gold) = bal[a] + gold
  BY <1>1, <1>2, UintIsAmount
<1> QED
  BY <1>1, <1>3, <1>4, <1>5 DEF new

LEMMA OutputsAreAmounts ==
  ASSUME NEW tx \in WellFormed
  PROVE  /\ Len(tx.outputs) \in Nat
         /\ DOMAIN tx.outputs = 1 .. Len(tx.outputs)
         /\ \A k \in 1 .. Len(tx.outputs) :
              /\ tx.outputs[k].address \in Address
              /\ tx.outputs[k].amount \in Amount /\ tx.outputs[k].amount \in Nat
<1>1. tx.outputs \in Seq(Output)
  BY DEF WellFormed
<1>2. \A k \in 1 .. Len(tx.outputs) : tx.outputs[k] \in Output
  BY <1>1
<1> QED
  BY <1>1, <1>2, LedgerAssumption DEF Output, Amount

LEMMA PaymentGrows ==
  ASSUME NEW tx \in WellFormed
  PROVE  LET n == Len(tx.outputs)
         IN  /\ PaidBy(tx, 0) = 0
             /\ \A k \in 0 .. n : PaidBy(tx, k) \in Nat /\ PaidBy(tx, k) <= PaidBy(tx, n)
             /\ \A k \in 0 .. n - 1 :
                  PaidBy(tx, k + 1) = PaidBy(tx, k) + tx.outputs[k + 1].amount
             /\ ExactTotal(tx) = tx.fee + PaidBy(tx, n)
<1> DEFINE n    == Len(tx.outputs)
           f    == [i \in DOMAIN tx.outputs |-> tx.outputs[i].amount]
           P(k) == SumOver(f, 1 .. k)
<1>1. /\ n \in Nat /\ DOMAIN tx.outputs = 1 .. n
      /\ \A k \in 1 .. n : f[k] = tx.outputs[k].amount /\ f[k] \in Nat
  BY OutputsAreAmounts
<1>2. ExactTotal(tx) = tx.fee + P(n)
  BY <1>1 DEF ExactTotal, SumFunction, SumOver
<1>3. \A k : PaidBy(tx, k) = P(k)
  BY DEF PaidBy
<1> HIDE DEF n, f
<1>4. P(0) = 0
  <2>1. 1 .. 0 = {}
    OBVIOUS
  <2> QED
    BY <2>1, FiniteUnion, SumTakesAny
<1>5. ASSUME NEW k \in 0 .. n - 1
      PROVE  P(k + 1) = P(k) + f[k + 1] /\ P(k) \in Nat /\ f[k + 1] \in Nat
  <2>1. k \in Nat /\ \A i \in 1 .. k + 1 : f[i] \in Nat
    BY <1>1
  <2> QED
    BY <2>1, SumExtends
<1> HIDE DEF P
<1>6. ASSUME NEW k \in 0 .. n
      PROVE  P(k) \in Nat
  <2>1. CASE k = n
    <3>1. CASE n = 0
      BY <1>4, <2>1, <3>1
    <3>2. CASE n # 0
      <4>1. n - 1 \in 0 .. n - 1 /\ (n - 1) + 1 = n
        BY <1>1, <3>2
      <4> QED
        BY <1>5, <2>1, <4>1
    <3> QED
      BY <3>1, <3>2
  <2>2. CASE k # n
    <3>1. k \in 0 .. n - 1
      BY <1>1, <2>2
    <3> QED
      BY <1>5, <3>1
  <2> QED
    BY <2>1, <2>2
<1>7. \A k \in 0 .. n : P(k) <= P(n)
  <2> DEFINE T == {d \in Nat : \A k \in 0 .. n : k + d = n => P(k) <= P(n)}
  <2>1. 0 \in T
    BY <1>6
  <2>2. ASSUME NEW d \in Nat, d \in T
        PROVE  d + 1 \in T
    <3> SUFFICES ASSUME NEW k \in 0 .. n, k + (d + 1) = n
                 PROVE  P(k) <= P(n)
      OBVIOUS
    <3>1. k \in 0 .. n - 1 /\ k + 1 \in 0 .. n /\ (k + 1) + d = n
      BY <1>1
    <3>2. P(k + 1) <= P(n)
      BY <2>2, <3>1
    <3>3. P(k + 1) = P(k) + f[k + 1] /\ P(k) \in Nat /\ f[k + 1] \in Nat
      BY <1>5, <3>1
    <3>4. P(n) \in Nat
      BY <1>1, <1>6
    <3> QED
      BY <3>2, <3>3, <3>4
  <2> HIDE DEF T
  <2>3. \A d \in Nat : d \in T
    BY <2>1, <2>2, Add!NatSetInduction
  <2> SUFFICES ASSUME NEW k \in 0 .. n PROVE P(k) <= P(n)
    OBVIOUS
  <2>4. n - k \in T /\ k + (n - k) = n
    BY <1>1, <2>3
  <2> QED
    BY <2>4 DEF T
<1>8. \A k \in 0 .. n - 1 : f[k + 1] = tx.outputs[k + 1].amount
  BY <1>1
<1> QED
  BY <1>1, <1>2, <1>3, <1>4, <1>5, <1>6, <1>7, <1>8 DEF n

\* TotalOutput does not wrap around.
LEMMA TotalIsExact ==
  ASSUME NEW tx \in WellFormed, ExactTotal(tx) < UintRange
  PROVE  TotalOutput(tx) = ExactTotal(tx)
<1> DEFINE n    == Len(tx.outputs)
           P(k) == PaidBy(tx, k)
<1>1. /\ n \in Nat /\ DOMAIN tx.outputs = 1 .. n /\ tx.fee \in Nat
      /\ \A k \in 1 .. n : tx.outputs[k].amount \in Nat
  BY OutputsAreAmounts, LedgerAssumption DEF WellFormed, Amount
<1>2. /\ P(0) = 0
      /\ \A k \in 0 .. n : P(k) \in Nat /\ P(k) <= P(n)
      /\ \A k \in 0 .. n - 1 : P(k + 1) = P(k) + tx.outputs[k + 1].amount
      /\ ExactTotal(tx) = tx.fee + P(n)
  BY PaymentGrows
<1>3. TotalOutput(tx) = Total!FoldTo(tx.fee, tx.outputs, n)
  BY <1>1 DEF TotalOutput, FoldLeft, MapThenFoldSet, Total!FoldTo, Total!IsFold,
              Max, Total!Max, PlusOutput
<1> HIDE DEF n, P
<1>4. PICK v : /\ v[0] = tx.fee
               /\ \A k \in 0 .. n - 1 : v[k + 1] = PlusOutput(v[k], tx.outputs[k + 1])
               /\ Total!FoldTo(tx.fee, tx.outputs, n) = v[n]
  <2> DEFINE fee  == tx.fee
             outs == tx.outputs
  <2>1. n \in Nat
    BY <1>1
  <2> HIDE DEF fee, outs
  <2>2. \E v : /\ v[0] = fee
               /\ \A k \in 0 .. n - 1 : v[k + 1] = PlusOutput(v[k], outs[k + 1])
               /\ Total!FoldTo(fee, outs, n) = v[n]
    BY ONLY <2>1, Total!FoldTrace
  <2> QED
    BY <2>2 DEF fee, outs
<1> DEFINE T == {k \in Nat : k <= n => v[k] = tx.fee + P(k)}
<1>5. 0 \in T
  BY <1>1, <1>2, <1>4
<1>6. ASSUME NEW k \in Nat, k \in T
      PROVE  k + 1 \in T
  <2> SUFFICES ASSUME k + 1 <= n PROVE v[k + 1] = tx.fee + P(k + 1)
    OBVIOUS
  <2>1. /\ k \in 0 .. n - 1 /\ k + 1 \in 0 .. n /\ k + 1 \in 1 .. n
        /\ n \in 0 .. n
    BY <1>1
  <2>2. v[k] = tx.fee + P(k)
    BY <1>1, <1>6
  <2>3. v[k + 1] = Uint(v[k] + tx.outputs[k + 1].amount)
    BY <1>4, <2>1 DEF PlusOutput
  <2>4. v[k] + tx.outputs[k + 1].amount = tx.fee + P(k + 1)
    BY <1>1, <1>2, <2>1, <2>2
  <2>5. tx.fee + P(k + 1) \in Amount
    BY <1>1, <1>2, <2>1, LedgerAssumption DEF Amount
  <2> QED
    BY <2>3, <2>4, <2>5, UintIsAmount, LedgerAssumption DEF Amount
<1> HIDE DEF T
<1>7. n \in T
  BY <1>1, <1>5, <1>6, Add!NatSetInduction
<1> QED
  BY <1>1, <1>2, <1>3, <1>4, <1>7 DEF T

LEMMA PlusCommutes ==
  ASSUME NEW bal, bal = [x \in Address |-> bal[x]], \A x \in Address : bal[x] \in Nat,
         NEW a \in Address, NEW b \in Address, NEW g \in Nat, NEW h \in Nat
  PROVE  Plus(Plus(bal, a, g), b, h) = Plus(Plus(bal, b, h), a, g)
<1> DEFINE both == [x \in Address |-> bal[x] + (IF x = a THEN g ELSE 0)
                                            + (IF x = b THEN h ELSE 0)]
<1>1. ASSUME NEW p \in Address, NEW q \in Address, NEW i \in Nat, NEW j \in Nat,
             NEW x \in Address
      PROVE  Plus(Plus(bal, p, i), q, j)[x]
               = bal[x] + (IF x = p THEN i ELSE 0) + (IF x = q THEN j ELSE 0)
  <2>1. bal[x] \in Nat
    OBVIOUS
  <2>2. Plus(bal, p, i)[x] = bal[x] + (IF x = p THEN i ELSE 0)
    BY <2>1 DEF Plus
  <2>3. Plus(Plus(bal, p, i), q, j)[x]
          = Plus(bal, p, i)[x] + (IF x = q THEN j ELSE 0)
    BY <2>1, <2>2 DEF Plus
  <2> QED
    BY <2>2, <2>3
<1>2. ASSUME NEW p, NEW q, NEW i, NEW j
      PROVE  Plus(Plus(bal, p, i), q, j)
               = [x \in Address |-> Plus(Plus(bal, p, i), q, j)[x]]
  BY DEF Plus
<1>3. \A x \in Address : Plus(Plus(bal, a, g), b, h)[x] = both[x]
  BY <1>1
<1>4. \A x \in Address : Plus(Plus(bal, b, h), a, g)[x] = both[x]
  <2> SUFFICES ASSUME NEW x \in Address
               PROVE  Plus(Plus(bal, b, h), a, g)[x] = both[x]
    OBVIOUS
  <2>1. Plus(Plus(bal, b, h), a, g)[x]
          = bal[x] + (IF x = b THEN h ELSE 0) + (IF x = a THEN g ELSE 0)
    BY <1>1
  <2>2. bal[x] \in Nat
    OBVIOUS
  <2> QED
    BY <2>1, <2>2
<1> HIDE DEF both
<1> DEFINE L == Plus(Plus(bal, a, g), b, h)
           R == Plus(Plus(bal, b, h), a, g)
<1>5. L = [x \in Address |-> L[x]] /\ R = [x \in Address |-> R[x]]
  BY <1>2
<1>6. \A x \in Address : L[x] = R[x]
  BY <1>3, <1>4
<1> HIDE DEF L, R
<1>7. L = R
  BY <1>5, <1>6
<1> QED
  BY <1>7 DEF L, R

\* The credits of a transaction, one after another, without wrapping around.
IsCredited(v, bal, tx) ==
  LET n == Len(tx.outputs)
  IN  /\ v[0] = bal
      /\ \A k \in 0 .. n - 1 :
           v[k + 1] = Plus(v[k], tx.outputs[k + 1].address, tx.outputs[k + 1].amount)
      /\ \A k \in 0 .. n : /\ v[k] \in [Address -> Amount]
                           /\ TotalOf(v[k]) = TotalOf(bal) + PaidBy(tx, k)
      /\ FoldLeft(CreditOutput, bal, tx.outputs) = v[n]

LEMMA CreditsAreExact ==
  ASSUME NEW tx \in WellFormed, NEW bal \in [Address -> Amount],
         TotalOf(bal) + PaidBy(tx, Len(tx.outputs)) < UintRange
  PROVE  \E v : IsCredited(v, bal, tx)
<1> DEFINE n    == Len(tx.outputs)
           P(k) == PaidBy(tx, k)
           a(k) == tx.outputs[k].address
           g(k) == tx.outputs[k].amount
<1>1. /\ n \in Nat /\ DOMAIN tx.outputs = 1 .. n
      /\ \A k \in 1 .. n : a(k) \in Address /\ g(k) \in Nat
  BY OutputsAreAmounts
<1>2. /\ P(0) = 0
      /\ \A k \in 0 .. n : P(k) \in Nat /\ P(k) <= P(n)
      /\ \A k \in 0 .. n - 1 : P(k + 1) = P(k) + g(k + 1)
  BY PaymentGrows
<1>3. FoldLeft(CreditOutput, bal, tx.outputs) = Credits!FoldTo(bal, tx.outputs, n)
  BY <1>1 DEF FoldLeft, MapThenFoldSet, Credits!FoldTo, Credits!IsFold, Max, Credits!Max
<1> HIDE DEF n, P, a, g
<1>4. PICK v : /\ v[0] = bal
               /\ \A k \in 0 .. n - 1 : v[k + 1] = CreditOutput(v[k], tx.outputs[k + 1])
               /\ Credits!FoldTo(bal, tx.outputs, n) = v[n]
  <2>1. n \in Nat
    BY <1>1
  <2>2. ASSUME NEW base, NEW seq
        PROVE  \E v : /\ v[0] = base
                      /\ \A k \in 0 .. n - 1 : v[k + 1] = CreditOutput(v[k], seq[k + 1])
                      /\ Credits!FoldTo(base, seq, n) = v[n]
    BY ONLY <2>1, Credits!FoldTrace
  <2> QED
    BY ONLY <2>2
<1>5. ASSUME NEW k \in 0 .. n - 1
      PROVE  v[k + 1] = [v[k] EXCEPT ![a(k + 1)] = Uint(@ + g(k + 1))]
  BY <1>4 DEF CreditOutput, a, g
<1>6. TotalOf(bal) \in Nat /\ UintRange \in Nat
  BY TotalIsSum, LedgerAssumption
<1> DEFINE OK(k) == v[k] \in [Address -> Amount] /\ TotalOf(v[k]) = TotalOf(bal) + P(k)
           T     == {k \in Nat : k <= n => OK(k)}
<1>7. ASSUME NEW k \in 0 .. n - 1, OK(k)
      PROVE  v[k + 1] = Plus(v[k], a(k + 1), g(k + 1)) /\ OK(k + 1)
  <2>1. /\ k \in 0 .. n /\ k + 1 \in 0 .. n /\ k + 1 \in 1 .. n
    BY <1>1
  <2>2. /\ a(k + 1) \in Address /\ g(k + 1) \in Nat
        /\ P(k + 1) = P(k) + g(k + 1) /\ P(k) \in Nat
        /\ P(k + 1) <= P(n) /\ P(n) \in Nat
    BY <1>1, <1>2, <2>1
  <2>3. TotalOf(v[k]) + g(k + 1) < UintRange
    <3>1. TotalOf(bal) + P(n) < UintRange
      BY DEF P, n
    <3> QED
      BY <1>6, <1>7, <2>2, <3>1
  <2>4. /\ Plus(v[k], a(k + 1), g(k + 1)) \in [Address -> Amount]
        /\ TotalOf(Plus(v[k], a(k + 1), g(k + 1))) = TotalOf(v[k]) + g(k + 1)
        /\ Uint(v[k][a(k + 1)] + g(k + 1)) = v[k][a(k + 1)] + g(k + 1)
    BY <1>7, <2>2, <2>3, PlusIsExact
  <2>5. v[k + 1] = Plus(v[k], a(k + 1), g(k + 1))
    BY <1>5, <2>4 DEF Plus
  <2> QED
    BY <1>6, <1>7, <2>2, <2>4, <2>5
<1>8. 0 \in T
  BY <1>2, <1>4, <1>6
<1>9. ASSUME NEW k \in Nat, k \in T
      PROVE  k + 1 \in T
  <2> SUFFICES ASSUME k + 1 <= n PROVE OK(k + 1)
    OBVIOUS
  <2>1. k \in 0 .. n - 1 /\ k <= n
    BY <1>1
  <2>2. OK(k)
    BY <1>9, <2>1
  <2> HIDE DEF OK
  <2> QED
    BY <1>7, <2>1, <2>2
<1> HIDE DEF T, OK
<1>10. \A k \in 0 .. n : OK(k)
  <2>1. \A k \in Nat : k \in T
    BY <1>8, <1>9, Add!NatSetInduction
  <2> QED
    BY <1>1, <2>1 DEF T
<1>11. \A k \in 0 .. n - 1 : v[k + 1] = Plus(v[k], a(k + 1), g(k + 1))
  <2>1. \A k \in 0 .. n - 1 : OK(k)
    BY <1>1, <1>10
  <2> QED
    BY <1>7, <2>1
<1> QED
  BY <1>3, <1>4, <1>10, <1>11 DEF IsCredited, OK, n, P, a, g

\* Gold that an account had before is still there after the credits.
LEMMA CreditsCommute ==
  ASSUME NEW tx \in WellFormed, NEW bal \in [Address -> Amount],
         NEW a \in Address, NEW gold \in Nat,
         TotalOf(bal) + PaidBy(tx, Len(tx.outputs)) + gold < UintRange
  PROVE  FoldLeft(CreditOutput, Plus(bal, a, gold), tx.outputs)
           = Plus(FoldLeft(CreditOutput, bal, tx.outputs), a, gold)
<1> DEFINE n  == Len(tx.outputs)
           up == Plus(bal, a, gold)
<1>1. /\ n \in Nat
      /\ \A k \in 1 .. n : /\ tx.outputs[k].address \in Address
                           /\ tx.outputs[k].amount \in Nat
  BY OutputsAreAmounts
<1>2. PaidBy(tx, n) \in Nat /\ TotalOf(bal) \in Nat /\ UintRange \in Nat
  BY <1>1, PaymentGrows, TotalIsSum, LedgerAssumption
<1>3. TotalOf(bal) + gold < UintRange /\ TotalOf(bal) + PaidBy(tx, n) < UintRange
  BY <1>2
<1>4. up \in [Address -> Amount] /\ TotalOf(up) = TotalOf(bal) + gold
  BY <1>3, PlusIsExact
<1>5. TotalOf(up) + PaidBy(tx, n) < UintRange
  BY <1>2, <1>4
<1>6. PICK v : IsCredited(v, bal, tx)
  BY <1>3, CreditsAreExact
<1>7. PICK w : IsCredited(w, up, tx)
  <2> HIDE DEF up
  <2> QED
    BY <1>4, <1>5, CreditsAreExact
<1> DEFINE T == {k \in Nat : k <= n => w[k] = Plus(v[k], a, gold)}
<1>8. 0 \in T
  BY <1>6, <1>7 DEF IsCredited
<1>9. ASSUME NEW k \in Nat, k \in T
      PROVE  k + 1 \in T
  <2> SUFFICES ASSUME k + 1 <= n PROVE w[k + 1] = Plus(v[k + 1], a, gold)
    OBVIOUS
  <2> DEFINE b == tx.outputs[k + 1].address
             g == tx.outputs[k + 1].amount
  <2>1. k \in 0 .. n - 1 /\ k \in 0 .. n /\ k + 1 \in 1 .. n
    BY <1>1
  <2>2. /\ v[k] \in [Address -> Amount]
        /\ v[k + 1] = Plus(v[k], b, g) /\ w[k + 1] = Plus(w[k], b, g)
    BY <1>6, <1>7, <2>1 DEF IsCredited
  <2>3. w[k] = Plus(v[k], a, gold)
    BY <1>1, <1>9
  <2>4. b \in Address /\ g \in Nat
    BY <1>1, <2>1
  <2>5. \A x \in Address : v[k][x] \in Nat
    BY <2>2, TotalIsSum
  <2> HIDE DEF b, g
  <2>6. Plus(Plus(v[k], a, gold), b, g) = Plus(Plus(v[k], b, g), a, gold)
    BY <2>2, <2>4, <2>5, PlusCommutes
  <2> QED
    BY <2>2, <2>3, <2>6
<1> HIDE DEF T
<1>10. n \in T
  BY <1>1, <1>8, <1>9, Add!NatSetInduction
<1> QED
  BY <1>1, <1>6, <1>7, <1>10 DEF IsCredited, T

Debited(bal, tx) == [bal EXCEPT ![tx.from] = Uint(@ - TotalOutput(tx))]

\* A sender whose funds were checked is not debited below zero.
LEMMA DebitIsExact ==
  ASSUME NEW tx \in WellFormed, ExactTotal(tx) < UintRange,
         NEW bal \in [Address -> Amount], TotalOutput(tx) <= bal[tx.from]
  PROVE  /\ Debited(bal, tx) \in [Address -> Amount]
         /\ \A x \in Address : Debited(bal, tx)[x]
                            = IF x = tx.from THEN bal[x] - ExactTotal(tx) ELSE bal[x]
         /\ TotalOf(Debited(bal, tx)) = TotalOf(bal) - ExactTotal(tx)
<1> DEFINE a   == tx.from
           new == Debited(bal, tx)
<1>1. a \in Address /\ TotalOutput(tx) = ExactTotal(tx) /\ TotalOutput(tx) \in Nat
  BY TotalIsExact, TotalOutputIsAmount, LedgerAssumption DEF WellFormed, Amount
<1>2. bal[a] \in Amount /\ bal[a] \in Nat /\ bal[a] - TotalOutput(tx) \in Amount
  BY <1>1, LedgerAssumption DEF Amount
<1>3. Uint(bal[a] - TotalOutput(tx)) = bal[a] - TotalOutput(tx)
  BY <1>2, UintIsAmount, LedgerAssumption DEF Amount
<1>4. new = [bal EXCEPT ![a] = bal[a] - TotalOutput(tx)]
  BY <1>3 DEF Debited
<1>5. /\ new \in [Address -> Amount] /\ new[a] = bal[a] - TotalOutput(tx)
      /\ \A x \in Address \ {a} : new[x] = bal[x]
  BY <1>1, <1>2, <1>4
<1> HIDE DEF a, new
<1>6. TotalOf(new) = TotalOf(bal) - bal[a] + new[a]
  BY <1>1, <1>5, TotalReplaces
<1>7. TotalOf(bal) \in Nat
  BY TotalIsSum
<1>8. TotalOf(new) = TotalOf(bal) - ExactTotal(tx)
  BY <1>1, <1>2, <1>5, <1>6, <1>7
<1>9. \A x \in Address : new[x] = IF x = a THEN bal[x] - ExactTotal(tx) ELSE bal[x]
  BY <1>1, <1>5
<1> QED
  BY <1>5, <1>8, <1>9 DEF a, new

LEMMA DebitCommutes ==
  ASSUME NEW tx \in WellFormed, ExactTotal(tx) < UintRange,
         NEW bal \in [Address -> Amount], TotalOutput(tx) <= bal[tx.from],
         NEW a \in Address, NEW gold \in Nat, TotalOf(bal) + gold < UintRange
  PROVE  /\ TotalOutput(tx) <= Plus(bal, a, gold)[tx.from]
         /\ Debited(Plus(bal, a, gold), tx) = Plus(Debited(bal, tx), a, gold)
<1> DEFINE up    == Plus(bal, a, gold)
           left  == Debited(up, tx)
           lower == Debited(bal, tx)
           right == Plus(lower, a, gold)
           t     == ExactTotal(tx)
<1>1. /\ tx.from \in Address /\ TotalOutput(tx) = t /\ t \in Nat
      /\ \A x \in Address : bal[x] \in Nat
  BY TotalIsExact, TotalOutputIsAmount, TotalIsSum, LedgerAssumption
     DEF WellFormed, Amount
<1>2. /\ up \in [Address -> Amount]
      /\ \A x \in Address : up[x] = bal[x] + (IF x = a THEN gold ELSE 0)
  <2>1. up \in [Address -> Amount]
    BY PlusIsExact
  <2>2. \A x \in Address : up[x] = bal[x] + (IF x = a THEN gold ELSE 0)
    BY <1>1 DEF Plus
  <2> QED
    BY <2>1, <2>2
<1> HIDE DEF up, t
<1>3. TotalOutput(tx) <= up[tx.from]
  BY <1>1, <1>2
<1>4. /\ left \in [Address -> Amount]
      /\ \A x \in Address : left[x] = IF x = tx.from THEN up[x] - t ELSE up[x]
  BY <1>2, <1>3, DebitIsExact DEF t
<1>5. /\ lower \in [Address -> Amount]
      /\ \A x \in Address : lower[x] = IF x = tx.from THEN bal[x] - t ELSE bal[x]
  BY DebitIsExact DEF t
<1> HIDE DEF left, lower
<1>6. right = [x \in Address |-> right[x]]
  BY <1>5 DEF Plus
<1>7. \A x \in Address : right[x] = lower[x] + (IF x = a THEN gold ELSE 0)
  <2>1. \A x \in Address : lower[x] \in Nat
    BY <1>5, LedgerAssumption DEF Amount
  <2> QED
    BY <1>5, <2>1 DEF Plus
<1> HIDE DEF right
<1>8. \A x \in Address : left[x] = right[x]
  BY <1>1, <1>2, <1>4, <1>5, <1>7
<1>9. left = right
  BY <1>4, <1>6, <1>8
<1> QED
  BY <1>3, <1>9 DEF up, left, lower, right

\* A transaction that is entered destroys its fee and nothing else.
LEMMA ApplyKeepsGold ==
  ASSUME NEW Txs, Txs \subseteq WellFormed, Fits(Txs),
         NEW draft \in DraftType(Txs), NEW tx \in Txs,
         AcceptsTransaction(draft, tx), TotalOf(draft.balances) < UintRange
  PROVE  TotalOf(AddTransaction(draft, tx).balances) = TotalOf(draft.balances) - tx.fee
<1> DEFINE bal == draft.balances
           low == Debited(bal, tx)
           n   == Len(tx.outputs)
<1>1. /\ tx \in WellFormed /\ ExactTotal(tx) < UintRange /\ tx.fee \in Nat
      /\ bal \in [Address -> Amount] /\ TotalOutput(tx) <= bal[tx.from]
  BY LedgerAssumption DEF Fits, DraftType, AcceptsTransaction, WellFormed, Amount
<1>2. AddTransaction(draft, tx).balances = FoldLeft(CreditOutput, low, tx.outputs)
  BY DEF AddTransaction, ApplyTransaction, CreditOutput, Debited
<1>3. ExactTotal(tx) = tx.fee + PaidBy(tx, n) /\ PaidBy(tx, n) \in Nat /\ n \in Nat
  BY <1>1, PaymentGrows, OutputsAreAmounts
<1> HIDE DEF bal, low
<1>4. low \in [Address -> Amount] /\ TotalOf(low) = TotalOf(bal) - ExactTotal(tx)
  BY <1>1, DebitIsExact DEF low
<1>5. TotalOf(bal) \in Nat /\ TotalOf(bal) < UintRange /\ UintRange \in Nat
  BY <1>1, TotalIsSum, LedgerAssumption DEF bal
<1>6. TotalOf(low) + PaidBy(tx, n) < UintRange
  BY <1>1, <1>3, <1>4, <1>5
<1>7. PICK v : IsCredited(v, low, tx)
  BY <1>1, <1>4, <1>6, CreditsAreExact
<1>8. TotalOf(FoldLeft(CreditOutput, low, tx.outputs)) = TotalOf(low) + PaidBy(tx, n)
  BY <1>3, <1>7 DEF IsCredited
<1> QED
  BY <1>1, <1>2, <1>3, <1>4, <1>5, <1>8 DEF bal

Given(draft, a, gold) == [draft EXCEPT !.balances = Plus(@, a, gold)]

\* What AddTransaction makes of the fields of a draft that takes tx.
Entered(bal, nonces, txs, tx) ==
  [balances  |-> FoldLeft(CreditOutput, Debited(bal, tx), tx.outputs),
   nextNonce |-> [nonces EXCEPT ![tx.from] = Uint(@ + 1)],
   txs       |-> Append(txs, tx)]

LEMMA AddEnters ==
  ASSUME NEW draft, NEW tx, AcceptsTransaction(draft, tx)
  PROVE  AddTransaction(draft, tx)
           = Entered(draft.balances, draft.nextNonce, draft.txs, tx)
BY DEF AddTransaction, ApplyTransaction, CreditOutput, Debited, Entered

\* A transaction that is entered is entered as well where an account has more,
\* and the account still has that more afterwards.
LEMMA ApplyCommutes ==
  ASSUME NEW Txs, Txs \subseteq WellFormed, Fits(Txs),
         NEW draft \in DraftType(Txs), NEW tx \in Txs,
         AcceptsTransaction(draft, tx),
         NEW a \in Address, NEW gold \in Nat, TotalOf(draft.balances) + gold < UintRange
  PROVE  AddTransaction(Given(draft, a, gold), tx)
           = Given(AddTransaction(draft, tx), a, gold)
<1> DEFINE bal == draft.balances
           low == Debited(bal, tx)
           n   == Len(tx.outputs)
           up  == Given(draft, a, gold)
<1>1. /\ tx \in WellFormed /\ ExactTotal(tx) < UintRange /\ tx.fee \in Nat
      /\ bal \in [Address -> Amount] /\ TotalOutput(tx) <= bal[tx.from]
      /\ draft = [balances |-> bal, nextNonce |-> draft.nextNonce, txs |-> draft.txs]
  BY LedgerAssumption DEF Fits, DraftType, AcceptsTransaction, WellFormed, Amount
<1>2. /\ up.balances = Plus(bal, a, gold) /\ up.nextNonce = draft.nextNonce
      /\ up.txs = draft.txs
  BY <1>1 DEF Given
<1> HIDE DEF bal, up
<1>3. /\ TotalOutput(tx) <= Plus(bal, a, gold)[tx.from]
      /\ Debited(Plus(bal, a, gold), tx) = Plus(low, a, gold)
  BY <1>1, DebitCommutes DEF bal
<1> HIDE DEF low
<1>4. AcceptsTransaction(up, tx)
  BY <1>2, <1>3 DEF AcceptsTransaction
<1>5. AddTransaction(up, tx)
        = Entered(Plus(bal, a, gold), draft.nextNonce, draft.txs, tx)
  BY <1>2, <1>4, AddEnters
<1>6. AddTransaction(draft, tx) = Entered(bal, draft.nextNonce, draft.txs, tx)
  BY AddEnters DEF bal
<1>7. ExactTotal(tx) = tx.fee + PaidBy(tx, n) /\ PaidBy(tx, n) \in Nat /\ n \in Nat
  BY <1>1, PaymentGrows, OutputsAreAmounts
<1>8. low \in [Address -> Amount] /\ TotalOf(low) = TotalOf(bal) - ExactTotal(tx)
  BY <1>1, DebitIsExact DEF low
<1>9. /\ TotalOf(bal) \in Nat /\ TotalOf(bal) + gold < UintRange
      /\ UintRange \in Nat
  BY <1>1, TotalIsSum, LedgerAssumption DEF bal
<1>10. TotalOf(low) + PaidBy(tx, n) + gold < UintRange
  BY <1>1, <1>7, <1>8, <1>9
<1>11. FoldLeft(CreditOutput, Plus(low, a, gold), tx.outputs)
         = Plus(FoldLeft(CreditOutput, low, tx.outputs), a, gold)
  BY <1>1, <1>8, <1>10, CreditsCommute
<1>12. Entered(Plus(bal, a, gold), draft.nextNonce, draft.txs, tx)
         = Given(Entered(bal, draft.nextNonce, draft.txs, tx), a, gold)
  <2> DEFINE b == FoldLeft(CreditOutput, low, tx.outputs)
             c == [draft.nextNonce EXCEPT ![tx.from] = Uint(@ + 1)]
             s == Append(draft.txs, tx)
  <2>1. Entered(bal, draft.nextNonce, draft.txs, tx)
          = [balances |-> b, nextNonce |-> c, txs |-> s]
    BY DEF Entered, low
  <2>2. Entered(Plus(bal, a, gold), draft.nextNonce, draft.txs, tx)
          = [balances |-> Plus(b, a, gold), nextNonce |-> c, txs |-> s]
    BY <1>3, <1>11 DEF Entered
  <2> HIDE DEF b, c, s
  <2>3. Given([balances |-> b, nextNonce |-> c, txs |-> s], a, gold)
          = [balances |-> Plus(b, a, gold), nextNonce |-> c, txs |-> s]
    BY DEF Given
  <2> QED
    BY <2>1, <2>2, <2>3
<1> QED
  BY <1>5, <1>6, <1>12 DEF up

\* What the transactions entered so far left of a draft's gold, and their fees.
GoldIn(draft) == TotalOf(draft.balances) + FeesOf(draft.txs)

LEMMA FeesAreSum ==
  ASSUME NEW txs \in Seq(WellFormed)
  PROVE  FeesOf(txs) = SumOver([i \in DOMAIN txs |-> txs[i].fee], 1 .. Len(txs))
<1>1. DOMAIN txs = 1 .. Len(txs)
  OBVIOUS
<1> QED
  BY <1>1 DEF FeesOf, SumFunction, SumOver

LEMMA NoFees == FeesOf(<<>>) = 0
<1>1. <<>> \in Seq(WellFormed) /\ 1 .. Len(<<>>) = {}
  OBVIOUS
<1> QED
  BY <1>1, FeesAreSum, FiniteUnion, SumTakesAny

LEMMA FeesGrow ==
  ASSUME NEW txs \in Seq(WellFormed), NEW tx \in WellFormed
  PROVE  /\ FeesOf(txs) \in Nat
         /\ FeesOf(Append(txs, tx)) = FeesOf(txs) + tx.fee
<1> DEFINE n   == Len(txs)
           new == Append(txs, tx)
           f   == [i \in DOMAIN txs |-> txs[i].fee]
           g   == [i \in DOMAIN new |-> new[i].fee]
<1>1. /\ n \in Nat /\ DOMAIN txs = 1 .. n
      /\ new \in Seq(WellFormed) /\ Len(new) = n + 1 /\ DOMAIN new = 1 .. n + 1
      /\ \A i \in 1 .. n : new[i] = txs[i] /\ txs[i] \in WellFormed
      /\ new[n + 1] = tx
  OBVIOUS
<1>2. /\ FeesOf(txs) = SumOver(f, 1 .. n)
      /\ FeesOf(new) = SumOver(g, 1 .. n + 1)
  BY <1>1, FeesAreSum
<1>3. \A x \in WellFormed : x.fee \in Nat
  BY LedgerAssumption DEF WellFormed, Amount
<1>4. /\ \A i \in 1 .. n : f[i] = g[i]
      /\ \A i \in 1 .. n + 1 : g[i] \in Nat
      /\ g[n + 1] = tx.fee
  BY <1>1, <1>3
<1> HIDE DEF n, f, g, new
<1>5. SumOver(f, 1 .. n) = SumOver(g, 1 .. n)
  <2>1. Finite(1 .. n)
    BY <1>1, FS_Interval DEF Finite
  <2> QED
    BY <1>4, <2>1, SumDepends
<1>6. /\ SumOver(g, 1 .. n + 1) = SumOver(g, 1 .. n) + g[n + 1]
      /\ SumOver(g, 1 .. n) \in Nat
  BY <1>1, <1>4, SumExtends
<1> QED
  BY <1>2, <1>4, <1>5, <1>6 DEF new

LEMMA AddKeepsGold ==
  ASSUME NEW Txs, Txs \subseteq WellFormed, Fits(Txs),
         NEW draft \in DraftType(Txs), NEW tx \in Txs, GoldIn(draft) < UintRange
  PROVE  GoldIn(AddTransaction(draft, tx)) = GoldIn(draft)
<1> DEFINE new == AddTransaction(draft, tx)
<1>1. CASE ~ AcceptsTransaction(draft, tx)
  BY <1>1 DEF AddTransaction
<1>2. CASE AcceptsTransaction(draft, tx)
  <2>1. /\ draft.balances \in [Address -> Amount]
        /\ draft.txs \in Seq(WellFormed) /\ tx \in WellFormed
    BY DEF DraftType
  <2>2. /\ TotalOf(draft.balances) \in Nat /\ FeesOf(draft.txs) \in Nat
        /\ FeesOf(Append(draft.txs, tx)) = FeesOf(draft.txs) + tx.fee
    BY <2>1, TotalIsSum, FeesGrow
  <2>3. TotalOf(draft.balances) < UintRange /\ UintRange \in Nat /\ tx.fee \in Nat
    BY <2>1, <2>2, LedgerAssumption DEF GoldIn, WellFormed, Amount
  <2>4. new.txs = Append(draft.txs, tx)
    BY <1>2 DEF AddTransaction, ApplyTransaction
  <2>5. TotalOf(new.balances) = TotalOf(draft.balances) - tx.fee
    BY <1>2, <2>3, ApplyKeepsGold
  <2> HIDE DEF new
  <2>6. GoldIn(new) = GoldIn(draft)
    BY <2>2, <2>3, <2>4, <2>5 DEF GoldIn
  <2> QED
    BY <2>6 DEF new
<1> QED
  BY <1>1, <1>2

\* FillBlock and Rerun move the gold of a ledger into accounts and fees.
LEMMA EntriesKeepGold ==
  ASSUME NEW Txs, Txs \subseteq WellFormed, Fits(Txs),
         NEW draft \in DraftType(Txs), GoldIn(draft) < UintRange,
         NEW order \in Seq(Txs)
  PROVE  GoldIn(FoldLeft(AddTransaction, draft, order)) = GoldIn(draft)
<1> DEFINE n == Len(order)
           I == {d \in DraftType(Txs) : GoldIn(d) = GoldIn(draft)}
<1>1. n \in Nat /\ DOMAIN order = 1 .. n /\ \A k \in 1 .. n : order[k] \in Txs
  OBVIOUS
<1>2. \A d \in I, tx \in Txs : AddTransaction(d, tx) \in I
  BY AddKeepsType, AddKeepsGold
<1>3. FoldLeft(AddTransaction, draft, order) = Add!FoldTo(draft, order, n)
  BY <1>1, AddIsFold
<1>4. draft \in I
  OBVIOUS
<1> HIDE DEF n, I
<1>5. Add!FoldTo(draft, order, n) \in I
  BY <1>1, <1>2, <1>4, Add!FoldStaysIn
<1> QED
  BY <1>3, <1>5 DEF I

\* The draft that Rerun starts from: NewDraft, and the parent's reward.
Rewarded(draft, parent) ==
  IF parent.rewardAddr = NoAddress
  THEN draft
  ELSE Given(draft, parent.rewardAddr, COINBASE_AMT_ALLOWED)

RewardOf(parent) ==
  IF parent.rewardAddr = NoAddress THEN 0 ELSE COINBASE_AMT_ALLOWED

LEMMA RewardFits ==
  ASSUME NEW parent, parent.rewardAddr \in Address \cup {NoAddress},
         NEW ledger \in LedgerType,
         TotalOf(ledger.balances) + RewardOf(parent) < UintRange
  PROVE  /\ NewDraft(PayReward(ledger, parent)) = Rewarded(NewDraft(ledger), parent)
         /\ TotalOf(PayReward(ledger, parent).balances)
              = TotalOf(ledger.balances) + RewardOf(parent)
<1> DEFINE a == parent.rewardAddr
           paid == PayReward(ledger, parent)
<1>1. ledger.balances \in [Address -> Amount] /\ TotalOf(ledger.balances) \in Nat
  BY TotalIsSum DEF LedgerType
<1>2. CASE a = NoAddress
  BY <1>1, <1>2 DEF PayReward, Rewarded, RewardOf
<1>3. CASE a # NoAddress
  <2>1. a \in Address /\ RewardOf(parent) = COINBASE_AMT_ALLOWED
    BY <1>3 DEF RewardOf
  <2> DEFINE up == Plus(ledger.balances, a, COINBASE_AMT_ALLOWED)
  <2>2. /\ Uint(ledger.balances[a] + COINBASE_AMT_ALLOWED)
             = ledger.balances[a] + COINBASE_AMT_ALLOWED
        /\ TotalOf(up) = TotalOf(ledger.balances) + COINBASE_AMT_ALLOWED
    BY <1>1, <2>1, LedgerAssumption, PlusIsExact
  <2>3. up = [ledger.balances EXCEPT ![a] = Uint(@ + COINBASE_AMT_ALLOWED)]
    BY <2>2 DEF Plus
  <2>4. paid.balances = up /\ paid.nextNonce = ledger.nextNonce
    BY <1>3, <2>3 DEF PayReward, LedgerType
  <2>5. NewDraft(paid) = [balances |-> up, nextNonce |-> ledger.nextNonce, txs |-> <<>>]
    BY <2>4 DEF NewDraft
  <2>6. Rewarded(NewDraft(ledger), parent)
          = [balances |-> up, nextNonce |-> ledger.nextNonce, txs |-> <<>>]
    BY <1>3 DEF Rewarded, Given, NewDraft
  <2> HIDE DEF up, paid
  <2>7. TotalOf(paid.balances) = TotalOf(ledger.balances) + RewardOf(parent)
    BY <2>1, <2>2, <2>4
  <2> QED
    BY <2>5, <2>6, <2>7 DEF paid
<1> QED
  BY <1>2, <1>3

\* A block that Rerun accepts creates the reward of its parent and destroys
\* its fees.
LEMMA RerunKeepsGold ==
  ASSUME NEW Txs, Txs \subseteq WellFormed, Fits(Txs),
         NEW parent, parent.rewardAddr \in Address \cup {NoAddress},
         NEW ledger \in LedgerType, NEW txs \in Seq(Txs),
         TotalOf(ledger.balances) + RewardOf(parent) < UintRange,
         RerunSucceeds(parent, ledger, txs)
  PROVE  /\ TotalOf(LedgerAfter(parent, ledger, txs).balances) + FeesOf(txs)
              = TotalOf(ledger.balances) + RewardOf(parent)
         /\ FeesOf(txs) \in Nat
<1> DEFINE paid  == PayReward(ledger, parent)
           draft == NewDraft(paid)
           done  == Rerun(parent, ledger, txs)
<1>1. draft \in DraftType(Txs) /\ draft.balances = paid.balances /\ draft.txs = <<>>
  BY RewardKeepsType, NewDraftType DEF NewDraft
<1>2. TotalOf(paid.balances) = TotalOf(ledger.balances) + RewardOf(parent)
  BY RewardFits
<1>3. /\ done = FoldLeft(AddTransaction, draft, txs) /\ done.txs = txs
      /\ LedgerAfter(parent, ledger, txs).balances = done.balances
  BY DEF Rerun, RerunSucceeds, LedgerAfter
<1> HIDE DEF paid, draft, done
<1>4. TotalOf(paid.balances) \in Int
  <2>1. ledger.balances \in [Address -> Amount]
    BY DEF LedgerType
  <2> QED
    BY <1>2, <2>1, TotalIsSum, LedgerAssumption DEF RewardOf
<1>5. GoldIn(draft) = TotalOf(paid.balances)
  BY <1>1, <1>4, NoFees DEF GoldIn
<1>6. GoldIn(done) = TotalOf(ledger.balances) + RewardOf(parent)
  BY <1>1, <1>2, <1>3, <1>5, EntriesKeepGold
<1>7. FeesOf(txs) \in Nat
  <2>1. txs \in Seq(WellFormed)
    OBVIOUS
  <2>2. FeesOf(txs) = SumOver([i \in DOMAIN txs |-> txs[i].fee], 1 .. Len(txs))
    BY <2>1, FeesAreSum
  <2> DEFINE f == [i \in DOMAIN txs |-> txs[i].fee]
             s == 1 .. Len(txs)
  <2>3. \A i \in s : f[i] \in Nat
    <3>1. \A x \in WellFormed : x.fee \in Nat
      BY LedgerAssumption DEF WellFormed, Amount
    <3>2. \A i \in s : txs[i] \in WellFormed
      BY <2>1
    <3> QED
      BY <3>1, <3>2
  <2>4. Finite(s)
    BY <2>1, FS_Interval DEF Finite
  <2> HIDE DEF f, s
  <2>5. SumOver(f, s) \in Nat
    BY <2>3, <2>4, SumTakesEach
  <2> QED
    BY <2>2, <2>5 DEF f, s
<1> QED
  BY <1>3, <1>6, <1>7 DEF GoldIn

LEMMA RewardCommutes ==
  ASSUME NEW Txs, Txs \subseteq WellFormed, Fits(Txs),
         NEW draft \in DraftType(Txs), NEW tx \in Txs,
         AcceptsTransaction(draft, tx),
         NEW parent, parent.rewardAddr \in Address \cup {NoAddress},
         TotalOf(draft.balances) + RewardOf(parent) < UintRange
  PROVE  /\ AddTransaction(Rewarded(draft, parent), tx)
              = Rewarded(AddTransaction(draft, tx), parent)
         /\ AddTransaction(draft, tx).txs = Append(draft.txs, tx)
         /\ TotalOf(AddTransaction(draft, tx).balances) + RewardOf(parent) < UintRange
<1>1. AddTransaction(Rewarded(draft, parent), tx)
        = Rewarded(AddTransaction(draft, tx), parent)
  <2>1. CASE parent.rewardAddr = NoAddress
    BY <2>1 DEF Rewarded
  <2>2. CASE parent.rewardAddr # NoAddress
    <3>1. /\ parent.rewardAddr \in Address /\ COINBASE_AMT_ALLOWED \in Nat
          /\ TotalOf(draft.balances) + COINBASE_AMT_ALLOWED < UintRange
      BY <2>2, LedgerAssumption DEF RewardOf
    <3>2. AddTransaction(Given(draft, parent.rewardAddr, COINBASE_AMT_ALLOWED), tx)
            = Given(AddTransaction(draft, tx), parent.rewardAddr, COINBASE_AMT_ALLOWED)
      BY <3>1, ApplyCommutes
    <3> QED
      BY <2>2, <3>2 DEF Rewarded
  <2> QED
    BY <2>1, <2>2
<1>2. AddTransaction(draft, tx).txs = Append(draft.txs, tx)
  BY DEF AddTransaction, ApplyTransaction
<1>3. /\ TotalOf(draft.balances) \in Nat /\ RewardOf(parent) \in Nat
      /\ UintRange \in Nat /\ tx.fee \in Nat
  BY TotalIsSum, LedgerAssumption DEF DraftType, RewardOf, WellFormed, Amount
<1>4. TotalOf(AddTransaction(draft, tx).balances) = TotalOf(draft.balances) - tx.fee
  BY <1>3, ApplyKeepsGold
<1> QED
  BY <1>1, <1>2, <1>3, <1>4

\* The drafts of a block that Rerun, which pays the parent's reward first,
\* computes again, the reward aside.
Replays(parent, ledger, draft) ==
  Rerun(parent, ledger, draft.txs) = Rewarded(draft, parent)

LEMMA AddKeepsReplays ==
  ASSUME NEW Txs, Txs \subseteq WellFormed, Fits(Txs),
         NEW draft \in DraftType(Txs), NEW tx \in Txs,
         NEW parent, parent.rewardAddr \in Address \cup {NoAddress},
         TotalOf(draft.balances) + RewardOf(parent) < UintRange,
         NEW ledger, Replays(parent, ledger, draft)
  PROVE  LET new == AddTransaction(draft, tx)
         IN  /\ TotalOf(new.balances) + RewardOf(parent) < UintRange
             /\ Replays(parent, ledger, new)
<1> DEFINE new == AddTransaction(draft, tx)
           base == NewDraft(PayReward(ledger, parent))
           n == Len(draft.txs)
<1>1. CASE ~ AcceptsTransaction(draft, tx)
  BY <1>1 DEF AddTransaction
<1>2. CASE AcceptsTransaction(draft, tx)
  <2>1. /\ AddTransaction(Rewarded(draft, parent), tx) = Rewarded(new, parent)
        /\ new.txs = Append(draft.txs, tx)
        /\ TotalOf(new.balances) + RewardOf(parent) < UintRange
    BY <1>2, RewardCommutes
  <2> HIDE DEF new, base
  <2>2. /\ n \in Nat /\ DOMAIN draft.txs = 1 .. n
        /\ DOMAIN new.txs = 1 .. n + 1 /\ new.txs[n + 1] = tx
        /\ \A k \in 1 .. n : new.txs[k] = draft.txs[k]
    BY <2>1 DEF DraftType
  <2>3. /\ FoldLeft(AddTransaction, base, draft.txs) = Add!FoldTo(base, draft.txs, n)
        /\ FoldLeft(AddTransaction, base, new.txs) = Add!FoldTo(base, new.txs, n + 1)
    BY <2>2, AddIsFold
  <2>4. Add!FoldTo(base, new.txs, n + 1)
          = AddTransaction(Add!FoldTo(base, draft.txs, n), tx)
    <3> DEFINE old == draft.txs
               all == new.txs
    <3>1. all[n + 1] = tx /\ n \in Nat /\ \A k \in 1 .. n : all[k] = old[k]
      BY <2>2
    <3> HIDE DEF n, old, all
    <3>2. Add!FoldTo(base, all, n + 1)
            = AddTransaction(Add!FoldTo(base, old, n), all[n + 1])
      BY <3>1, Add!FoldAppend
    <3> QED
      BY <3>1, <3>2 DEF old, all
  <2>5. FoldLeft(AddTransaction, base, draft.txs) = Rewarded(draft, parent)
    BY DEF Replays, Rerun, base
  <2>6. FoldLeft(AddTransaction, base, new.txs) = Rewarded(new, parent)
    BY <2>1, <2>3, <2>4, <2>5
  <2> QED
    BY <2>1, <2>6 DEF Replays, Rerun, base, new
<1> QED
  BY <1>1, <1>2

\* The block that a miner fills on a ledger, Rerun accepts: it enters all the
\* transactions again, although it pays the parent's reward first.
LEMMA FilledReplays ==
  ASSUME NEW Txs, Txs \subseteq WellFormed, Fits(Txs),
         NEW parent, parent.rewardAddr \in Address \cup {NoAddress},
         NEW ledger \in LedgerType,
         TotalOf(ledger.balances) + RewardOf(parent) < UintRange,
         NEW order \in Seq(Txs)
  PROVE  RerunSucceeds(parent, ledger, FillBlock(ledger, order).txs)
<1> DEFINE n    == Len(order)
           base == NewDraft(ledger)
           I    == {d \in DraftType(Txs) :
                      /\ TotalOf(d.balances) + RewardOf(parent) < UintRange
                      /\ Replays(parent, ledger, d)}
<1>1. n \in Nat /\ DOMAIN order = 1 .. n /\ \A k \in 1 .. n : order[k] \in Txs
  OBVIOUS
<1>2. base \in I
  <2>1. /\ base \in DraftType(Txs) /\ base.balances = ledger.balances
        /\ base.txs = <<>>
    BY NewDraftType DEF NewDraft
  <2>2. NewDraft(PayReward(ledger, parent)) = Rewarded(base, parent)
    BY RewardFits
  <2>3. Rerun(parent, ledger, <<>>) = NewDraft(PayReward(ledger, parent))
    <3> DEFINE start == NewDraft(PayReward(ledger, parent))
    <3>1. DOMAIN <<>> = 1 .. 0 /\ 0 \in Nat
      OBVIOUS
    <3> HIDE DEF start
    <3>2. FoldLeft(AddTransaction, start, <<>>) = Add!FoldTo(start, <<>>, 0)
      BY <3>1, AddIsFold
    <3>3. Add!FoldTo(start, <<>>, 0) = start
      BY <3>1, Add!FoldTrace
    <3> QED
      BY <3>2, <3>3 DEF Rerun, start
  <2> HIDE DEF base
  <2>4. Replays(parent, ledger, base)
    BY <2>1, <2>2, <2>3 DEF Replays
  <2> QED
    BY <2>1, <2>4
<1>3. \A d \in I, tx \in Txs : AddTransaction(d, tx) \in I
  BY AddKeepsType, AddKeepsReplays
<1>4. FillBlock(ledger, order) = Add!FoldTo(base, order, n)
  BY <1>1, AddIsFold DEF FillBlock
<1> HIDE DEF n, I, base
<1>5. Add!FoldTo(base, order, n) \in I
  BY <1>1, <1>2, <1>3, Add!FoldStaysIn
<1>6. Replays(parent, ledger, FillBlock(ledger, order))
  BY <1>4, <1>5 DEF I
<1>7. \A d \in I : Rewarded(d, parent).txs = d.txs
  BY DEF Rewarded, Given, I, DraftType
<1> QED
  BY <1>4, <1>5, <1>6, <1>7 DEF Replays, RerunSucceeds

-----------------------------------------------------------------------------
(* What a sender spends.  Rerun takes no more from an account than the     *)
(* transactions of its owner give away, each counted once.                 *)

Payments == [tx \in WellFormed |-> TotalOutput(tx)]

\* The sum that AvailableGold takes is this sum.
LEMMA PaymentsAreSummed ==
  ASSUME NEW P \in SUBSET WellFormed, Finite(P)
  PROVE  MapThenSumSet(TotalOutput, P) = SumOver(Payments, P)
<1> DEFINE IsSpent(g) ==
             g = [s \in SUBSET P |-> IF s = {} THEN 0
                                     ELSE TotalOutput(OneOf(s)) + g[s \ {OneOf(s)}]]
           spent == CHOOSE g : IsSpent(g)
           sum   == CHOOSE g : IsSumOver(g, Payments, P)
<1>1. MapThenSumSet(TotalOutput, P) = spent[P]
  BY DEF MapThenSumSet, MapThenFoldSet, OneOf
<1>2. SumOver(Payments, P) = sum[P]
  BY DEF SumOver, SumFunctionOnSet, FoldFunctionOnSet, MapThenFoldSet, IsSum, IsSumOver, OneOf
<1>3. \A s \in SUBSET P : s # {} => Payments[OneOf(s)] = TotalOutput(OneOf(s))
  BY DEF OneOf, Payments
<1>4. \A g : IsSpent(g) <=> IsSumOver(g, Payments, P)
  BY <1>3 DEF IsSumOver, IsSum
<1>5. IsSumOver(sum, Payments, P)
  BY SumExists
<1>6. IsSpent(spent)
  BY <1>4, <1>5
<1> HIDE DEF spent, sum, IsSpent
<1>7. spent[P] = sum[P]
  BY <1>4, <1>5, <1>6, SumUnique
<1> QED
  BY <1>1, <1>2, <1>7

\* The transactions of a in txs, and the gold they give away.
OwnOf(a, txs) == {tx \in ToSet(txs) : tx.from = a}

SpentBy(a, txs) == SumOver(Payments, OwnOf(a, txs))

\* A sum over two parts.
LEMMA SumSplits ==
  ASSUME NEW f, NEW S, Finite(S), \A x \in S : f[x] \in Nat, NEW R \in SUBSET S
  PROVE  /\ SumOver(f, R) \in Nat /\ SumOver(f, S \ R) \in Nat
         /\ SumOver(f, S) = SumOver(f, R) + SumOver(f, S \ R)
<1> DEFINE rest == S \ R
           T    == {k \in Nat : \A Q \in SUBSET R : Cardinality(Q) = k =>
                      SumOver(f, rest \cup Q) = SumOver(f, Q) + SumOver(f, rest)}
<1>1. /\ rest \in SUBSET S /\ rest \cap R = {}
      /\ \A Q \in SUBSET R : Q \in SUBSET S /\ rest \cup Q \in SUBSET S
  OBVIOUS
<1> HIDE DEF rest
<1>2. \A Q \in SUBSET S : /\ Finite(Q) /\ Cardinality(Q) \in Nat
                          /\ SumOver(f, Q) \in Nat
  BY SubsetFinite, SumTakesEach
<1>3. 0 \in T
  <2> SUFFICES ASSUME NEW Q \in SUBSET R, Cardinality(Q) = 0
               PROVE  SumOver(f, rest \cup Q) = SumOver(f, Q) + SumOver(f, rest)
    OBVIOUS
  <2>1. Q = {}
    BY <1>1, <1>2, SmallerSet
  <2>2. rest \cup Q = rest /\ SumOver(f, Q) = 0 /\ SumOver(f, rest) \in Nat
    BY <1>1, <1>2, <2>1, FiniteUnion, SumTakesAny
  <2> DEFINE restSum == SumOver(f, rest)
  <2>3. SumOver(f, rest \cup Q) = restSum /\ restSum \in Nat
    BY <2>2
  <2> HIDE DEF restSum
  <2>4. restSum = 0 + restSum
    BY <2>3
  <2> QED
    BY <2>2, <2>3, <2>4 DEF restSum
<1>4. ASSUME NEW k \in Nat, k \in T
      PROVE  k + 1 \in T
  <2> SUFFICES ASSUME NEW Q \in SUBSET R, Cardinality(Q) = k + 1
               PROVE  SumOver(f, rest \cup Q) = SumOver(f, Q) + SumOver(f, rest)
    OBVIOUS
  <2>1. Finite(Q) /\ Q # {}
    BY <1>1, <1>2, FS_EmptySet DEF Finite
  <2>2. PICK y : y \in Q
    BY <2>1
  <2> DEFINE less == Q \ {y}
  <2>3. Cardinality(less) = k /\ less \in SUBSET R
    BY <2>1, <2>2, SmallerSet
  <2>4. (rest \cup Q) \ {y} = rest \cup less
    BY <1>1, <2>2
  <2>5. SumOver(f, Q) = f[y] + SumOver(f, less)
    BY <1>1, <2>1, <2>2, SumTakesEach
  <2>6. SumOver(f, rest \cup Q) = f[y] + SumOver(f, (rest \cup Q) \ {y})
    BY <1>1, <1>2, <2>2, SumTakesEach
  <2> HIDE DEF less
  <2>7. SumOver(f, rest \cup less) = SumOver(f, less) + SumOver(f, rest)
    BY <1>4, <2>3
  <2>8. f[y] \in Nat /\ SumOver(f, less) \in Nat /\ SumOver(f, rest) \in Nat
    BY <1>1, <1>2, <2>2, <2>3
  <2> DEFINE lessSum == SumOver(f, less)
             restSum == SumOver(f, rest)
             this    == f[y]
  <2>9. /\ SumOver(f, rest \cup Q) = this + (lessSum + restSum)
        /\ SumOver(f, Q) = this + lessSum
        /\ this \in Nat /\ lessSum \in Nat /\ restSum \in Nat
    BY <2>4, <2>5, <2>6, <2>7, <2>8 DEF less
  <2> HIDE DEF lessSum, restSum, this
  <2>10. this + (lessSum + restSum) = (this + lessSum) + restSum
    BY <2>9
  <2> QED
    BY <2>9, <2>10 DEF restSum
<1> HIDE DEF T
<1>5. Cardinality(R) \in T
  BY <1>2, <1>3, <1>4, Add!NatSetInduction
<1>6. SumOver(f, rest \cup R) = SumOver(f, R) + SumOver(f, rest)
  BY <1>5 DEF T
<1>7. rest \cup R = S
  BY DEF rest
<1> QED
  BY <1>1, <1>2, <1>6, <1>7 DEF rest

LEMMA PaymentsSplit ==
  ASSUME NEW S, Finite(S), \A x \in S : Payments[x] \in Nat, NEW R \in SUBSET S
  PROVE  /\ SumOver(Payments, R) \in Nat /\ SumOver(Payments, S \ R) \in Nat
         /\ SumOver(Payments, S) = SumOver(Payments, R) + SumOver(Payments, S \ R)
  BY SumSplits

LEMMA OwnAreFinite ==
  ASSUME NEW a, NEW txs \in Seq(WellFormed)
  PROVE  /\ Finite(OwnOf(a, txs)) /\ OwnOf(a, txs) \subseteq WellFormed
         /\ \A x \in OwnOf(a, txs) : Payments[x] \in Nat
         /\ SpentBy(a, txs) \in Nat
<1>1. DOMAIN txs = 1 .. Len(txs) /\ Len(txs) \in Nat /\ txs = [i \in DOMAIN txs |-> txs[i]]
  OBVIOUS
<1>2. Finite(DOMAIN txs)
  <2>1. \A k \in Nat : Finite(1 .. k)
    BY FS_Interval DEF Finite
  <2> QED
    BY <1>1, <2>1
<1>3. OwnOf(a, txs) \subseteq {txs[i] : i \in DOMAIN txs}
  BY DEF OwnOf, ToSet
<1>4. Finite(OwnOf(a, txs))
  BY <1>1, <1>2, <1>3, FiniteImage
<1>5. OwnOf(a, txs) \subseteq WellFormed
  BY <1>3
<1>6. \A x \in WellFormed : Payments[x] \in Nat
  BY TotalOutputIsAmount, LedgerAssumption DEF Payments, Amount
<1>7. \A x \in OwnOf(a, txs) : Payments[x] \in Nat
  BY <1>5, <1>6
<1>8. SpentBy(a, txs) \in Nat
  BY <1>4, <1>7, SumTakesEach DEF SpentBy
<1> QED
  BY <1>4, <1>5, <1>7, <1>8

\* Credits take nothing from any account.
LEMMA CreditsGive ==
  ASSUME NEW tx \in WellFormed, NEW bal \in [Address -> Amount],
         TotalOf(bal) + PaidBy(tx, Len(tx.outputs)) < UintRange, NEW a \in Address
  PROVE  bal[a] <= FoldLeft(CreditOutput, bal, tx.outputs)[a]
<1> DEFINE n == Len(tx.outputs)
<1>1. n \in Nat /\ \A k \in 1 .. n : /\ tx.outputs[k].address \in Address
                                     /\ tx.outputs[k].amount \in Nat
  BY OutputsAreAmounts
<1>2. PICK v : IsCredited(v, bal, tx)
  BY CreditsAreExact
<1>3. /\ v[0] = bal /\ FoldLeft(CreditOutput, bal, tx.outputs) = v[n]
      /\ \A k \in 0 .. n - 1 :
           v[k + 1] = Plus(v[k], tx.outputs[k + 1].address, tx.outputs[k + 1].amount)
      /\ \A k \in 0 .. n : v[k] \in [Address -> Amount]
  BY <1>2 DEF IsCredited
<1> HIDE DEF n
<1>4. \A k \in 0 .. n : \A x \in Address : v[k][x] \in Nat
  BY <1>3, LedgerAssumption DEF Amount
<1> DEFINE T == {k \in Nat : k <= n => bal[a] <= v[k][a]}
<1>5. 0 \in T
  <2>1. bal[a] \in Nat
    BY <1>1, <1>3, <1>4
  <2> QED
    BY <1>3, <2>1
<1>6. ASSUME NEW k \in Nat, k \in T
      PROVE  k + 1 \in T
  <2> SUFFICES ASSUME k + 1 <= n PROVE bal[a] <= v[k + 1][a]
    OBVIOUS
  <2>1. /\ k \in 0 .. n - 1 /\ k \in 0 .. n /\ k + 1 \in 1 .. n /\ k + 1 \in 0 .. n
        /\ 0 \in 0 .. n
    BY <1>1
  <2> DEFINE x == tx.outputs[k + 1].address
             g == tx.outputs[k + 1].amount
  <2>2. x \in Address /\ g \in Nat /\ v[k + 1] = Plus(v[k], x, g)
    BY <1>1, <1>3, <2>1
  <2>3. v[k][a] \in Nat /\ bal[a] \in Nat /\ bal[a] <= v[k][a]
    BY <1>3, <1>4, <1>6, <2>1
  <2> HIDE DEF x, g
  <2>4. v[k + 1][a] = v[k][a] + (IF a = x THEN g ELSE 0)
    BY <1>3, <2>1, <2>2, <2>3 DEF Plus
  <2> QED
    BY <2>2, <2>3, <2>4
<1> HIDE DEF T
<1>7. n \in T
  BY <1>1, <1>5, <1>6, Add!NatSetInduction
<1> QED
  BY <1>3, <1>7 DEF T

\* The account a had at least first before the transactions of draft.
Spends(draft, a, first) == first <= draft.balances[a] + SpentBy(a, draft.txs)

LEMMA AddSpends ==
  ASSUME NEW Txs, Txs \subseteq WellFormed, Fits(Txs),
         NEW draft \in DraftType(Txs), NEW tx \in Txs, GoldIn(draft) < UintRange,
         NEW a \in Address, NEW first \in Nat, Spends(draft, a, first)
  PROVE  Spends(AddTransaction(draft, tx), a, first)
<1> DEFINE new == AddTransaction(draft, tx)
           bal == draft.balances
           low == Debited(bal, tx)
           n   == Len(tx.outputs)
<1>1. CASE ~ AcceptsTransaction(draft, tx)
  BY <1>1 DEF AddTransaction
<1>2. CASE AcceptsTransaction(draft, tx)
  <2>1. /\ tx \in WellFormed /\ ExactTotal(tx) < UintRange /\ tx.fee \in Nat
        /\ bal \in [Address -> Amount] /\ TotalOutput(tx) <= bal[tx.from]
        /\ draft.txs \in Seq(WellFormed)
        /\ ~ Contains(draft.txs, tx)
    <3>1. tx \in WellFormed /\ ExactTotal(tx) < UintRange
      BY DEF Fits
    <3>2. tx.fee \in Nat
      BY <3>1, LedgerAssumption DEF WellFormed, Amount
    <3>3. bal \in [Address -> Amount] /\ draft.txs \in Seq(Txs)
      BY DEF DraftType
    <3>4. TotalOutput(tx) <= bal[tx.from] /\ ~ Contains(draft.txs, tx)
      BY <1>2 DEF AcceptsTransaction
    <3> HIDE DEF bal
    <3>5. draft.txs \in Seq(WellFormed)
      BY <3>3
    <3> QED
      BY <3>1, <3>2, <3>3, <3>4, <3>5
  <2>2. /\ new.balances = FoldLeft(CreditOutput, low, tx.outputs)
        /\ new.txs = Append(draft.txs, tx)
    BY <1>2 DEF AddTransaction, ApplyTransaction, CreditOutput, Debited
  <2>3. ExactTotal(tx) = tx.fee + PaidBy(tx, n) /\ PaidBy(tx, n) \in Nat /\ n \in Nat
    BY <2>1, PaymentGrows, OutputsAreAmounts
  <2>4. /\ TotalOf(bal) \in Nat /\ FeesOf(draft.txs) \in Nat /\ UintRange \in Nat
        /\ TotalOf(bal) < UintRange
    <3>1. TotalOf(bal) \in Nat /\ FeesOf(draft.txs) \in Nat /\ UintRange \in Nat
      BY <2>1, TotalIsSum, FeesGrow, LedgerAssumption
    <3> QED
      BY <3>1 DEF GoldIn
  <2> HIDE DEF new, bal, low, n
  <2>5. /\ low \in [Address -> Amount] /\ TotalOf(low) = TotalOf(bal) - ExactTotal(tx)
        /\ low[a] = IF a = tx.from THEN bal[a] - ExactTotal(tx) ELSE bal[a]
    BY <2>1, DebitIsExact DEF low
  <2>6. low[a] <= new.balances[a]
    <3>1. TotalOf(low) + PaidBy(tx, n) < UintRange
      BY <2>1, <2>3, <2>4, <2>5
    <3> QED
      BY <2>1, <2>2, <2>5, <3>1, CreditsGive DEF n
  <2>7. SpentBy(a, new.txs) = SpentBy(a, draft.txs)
                                + (IF a = tx.from THEN ExactTotal(tx) ELSE 0)
    <3>1. /\ tx \notin OwnOf(a, draft.txs)
          /\ OwnOf(a, new.txs) = IF a = tx.from THEN OwnOf(a, draft.txs) \cup {tx}
                                 ELSE OwnOf(a, draft.txs)
      <4>1. ToSet(new.txs) = ToSet(draft.txs) \cup {tx}
        <5> DEFINE old == draft.txs
                   m   == Len(old)
        <5>1. /\ old \in Seq(WellFormed) /\ new.txs = Append(old, tx) /\ m \in Nat
              /\ DOMAIN old = 1 .. m /\ tx \in WellFormed
          BY <2>1, <2>2
        <5> HIDE DEF old
        <5>2. /\ DOMAIN Append(old, tx) = 1 .. m + 1
              /\ \A i \in 1 .. m : Append(old, tx)[i] = old[i]
              /\ Append(old, tx)[m + 1] = tx
          BY <5>1
        <5> HIDE DEF m
        <5>3. 1 .. m + 1 = (1 .. m) \cup {m + 1}
          BY <5>1
        <5>4. ToSet(Append(old, tx)) = ToSet(old) \cup {tx}
          BY <5>1, <5>2, <5>3 DEF ToSet
        <5> QED
          BY <5>1, <5>4 DEF old
      <4>2. tx \notin ToSet(draft.txs)
        BY <2>1 DEF ToSet, Contains
      <4> QED
        BY <4>1, <4>2 DEF OwnOf
    <3>2. SpentBy(a, draft.txs) \in Nat
      BY <2>1, OwnAreFinite
    <3>3. CASE a # tx.from
      BY <3>1, <3>2, <3>3 DEF SpentBy
    <3>4. CASE a = tx.from
      <4> DEFINE own == OwnOf(a, draft.txs) \cup {tx}
      <4>1. Payments[tx] = ExactTotal(tx) /\ Payments[tx] \in Nat
        BY <2>1, TotalIsExact, TotalOutputIsAmount, LedgerAssumption DEF Payments, Amount
      <4>2. Finite(own) /\ \A x \in own : Payments[x] \in Nat
        BY <2>1, <4>1, OwnAreFinite, FiniteUnion
      <4>3. own \ {tx} = OwnOf(a, draft.txs) /\ tx \in own
        BY <3>1
      <4> HIDE DEF own
      <4>4. SumOver(Payments, own) = Payments[tx] + SumOver(Payments, own \ {tx})
        BY <4>2, <4>3, SumTakesEach
      <4> QED
        BY <3>1, <3>2, <3>4, <4>1, <4>3, <4>4 DEF SpentBy, own
    <3> QED
      BY <3>3, <3>4
  <2>8. /\ SpentBy(a, draft.txs) \in Nat /\ bal[a] \in Nat /\ ExactTotal(tx) \in Nat
        /\ low[a] \in Nat
    BY <2>1, <2>3, <2>5, OwnAreFinite, LedgerAssumption DEF Amount
  <2>9. new.balances[a] \in Nat
    <3>1. new \in DraftType(Txs)
      BY AddKeepsType DEF new
    <3> QED
      BY <3>1, LedgerAssumption DEF DraftType, Amount
  <2>10. first <= bal[a] + SpentBy(a, draft.txs)
    BY DEF Spends, bal
  <2>11. first <= new.balances[a] + SpentBy(a, new.txs)
    BY <2>5, <2>6, <2>7, <2>8, <2>9, <2>10
  <2> QED
    BY <2>11 DEF Spends, new
<1> QED
  BY <1>1, <1>2

\* A block that Rerun accepts leaves to its senders what they had, less what
\* they give away in it.
LEMMA RerunSpends ==
  ASSUME NEW Txs, Txs \subseteq WellFormed, Fits(Txs),
         NEW parent, parent.rewardAddr \in Address \cup {NoAddress},
         NEW ledger \in LedgerType, NEW txs \in Seq(Txs),
         TotalOf(ledger.balances) + RewardOf(parent) < UintRange,
         RerunSucceeds(parent, ledger, txs), NEW a \in Address
  PROVE  ledger.balances[a]
           <= LedgerAfter(parent, ledger, txs).balances[a] + SpentBy(a, txs)
<1> DEFINE paid  == PayReward(ledger, parent)
           draft == NewDraft(paid)
           done  == Rerun(parent, ledger, txs)
           first == ledger.balances[a]
           n     == Len(txs)
           I     == {d \in DraftType(Txs) : GoldIn(d) = GoldIn(draft) /\ Spends(d, a, first)}
<1>1. /\ draft \in DraftType(Txs) /\ draft.balances = paid.balances /\ draft.txs = <<>>
      /\ paid.balances \in [Address -> Amount]
  BY RewardKeepsType, NewDraftType DEF NewDraft, LedgerType
<1>2. /\ ledger.balances \in [Address -> Amount] /\ first \in Nat
      /\ TotalOf(ledger.balances) \in Nat
  BY TotalIsSum DEF LedgerType
<1>3. TotalOf(paid.balances) = TotalOf(ledger.balances) + RewardOf(parent)
  BY RewardFits
<1>4. first <= paid.balances[a]
  <2>1. CASE parent.rewardAddr = NoAddress
    BY <1>2, <2>1 DEF PayReward
  <2>2. CASE parent.rewardAddr # NoAddress
    <3>1. /\ parent.rewardAddr \in Address /\ COINBASE_AMT_ALLOWED \in Nat
          /\ TotalOf(ledger.balances) + COINBASE_AMT_ALLOWED < UintRange
      BY <2>2, LedgerAssumption DEF RewardOf
    <3>2. Uint(ledger.balances[parent.rewardAddr] + COINBASE_AMT_ALLOWED)
            = ledger.balances[parent.rewardAddr] + COINBASE_AMT_ALLOWED
      BY <1>2, <3>1, PlusIsExact
    <3>3. paid.balances = [ledger.balances EXCEPT ![parent.rewardAddr] =
                             ledger.balances[parent.rewardAddr] + COINBASE_AMT_ALLOWED]
      BY <2>2, <3>2 DEF PayReward, LedgerType
    <3> HIDE DEF paid
    <3>4. \A x \in Address : ledger.balances[x] \in Nat
      BY <1>2, TotalIsSum
    <3> QED
      BY <1>2, <3>1, <3>3, <3>4
  <2> QED
    BY <2>1, <2>2
<1>5. /\ done = FoldLeft(AddTransaction, draft, txs) /\ done.txs = txs
      /\ LedgerAfter(parent, ledger, txs).balances = done.balances
  BY DEF Rerun, RerunSucceeds, LedgerAfter
<1>6. n \in Nat /\ DOMAIN txs = 1 .. n /\ \A k \in 1 .. n : txs[k] \in Txs
  OBVIOUS
<1> HIDE DEF paid, draft, done, first, n
<1>7. GoldIn(draft) < UintRange
  <2>1. TotalOf(paid.balances) \in Nat
    BY <1>1, TotalIsSum
  <2> QED
    BY <1>1, <1>3, <2>1, NoFees DEF GoldIn
<1>8. draft \in I
  <2>1. SpentBy(a, draft.txs) \in Nat /\ paid.balances[a] \in Nat
    <3>1. <<>> \in Seq(WellFormed)
      OBVIOUS
    <3> QED
      BY <1>1, <3>1, OwnAreFinite, TotalIsSum
  <2> QED
    BY <1>1, <1>2, <1>4, <2>1 DEF Spends
<1>9. \A d \in I, tx \in Txs : AddTransaction(d, tx) \in I
  BY <1>2, <1>7, AddKeepsType, AddKeepsGold, AddSpends
<1>10. FoldLeft(AddTransaction, draft, txs) = Add!FoldTo(draft, txs, n)
  BY <1>6, AddIsFold
<1> HIDE DEF I
<1>11. Add!FoldTo(draft, txs, n) \in I
  BY <1>6, <1>8, <1>9, Add!FoldStaysIn
<1> QED
  BY <1>5, <1>10, <1>11 DEF I, Spends, first
=============================================================================
