------------------------- MODULE BlockFillingProofs -------------------------
(***************************************************************************)
(* Proofs about the lists of block.go: on every chain, and for every pool, *)
(* they are the functions of Ledger, and what is proved about the ledger   *)
(* holds of them.                                                          *)
(***************************************************************************)
EXTENDS BlockFilling, LedgerProofs

Listing   == INSTANCE FoldProofs WITH op <- Credit
Filling   == INSTANCE FoldProofs WITH op <- AddTransactionToLists
Rerunning == INSTANCE FoldProofs WITH op <- Reenter

-----------------------------------------------------------------------------
(* Lists *)

Entry == [id : Address, value : Amount]

\* A list with at most one entry for each account.
Listed(list) == list \in Seq(Entry) /\ OneEntryEach(list)

IdsOf(list) == {list[i].id : i \in DOMAIN list}

LEMMA OneEntryMeans ==
  ASSUME NEW list
  PROVE  OneEntryEach(list) <=>
           \A i, j \in DOMAIN list : list[i].id = list[j].id => i = j
  BY DEF OneEntryEach, IsInjective

LEMMA EntryFound ==
  ASSUME NEW list, Listed(list), NEW a, NEW i \in DOMAIN list, list[i].id = a
  PROVE  FindIndex(list, a) = i /\ ValueOf(list, a) = list[i].value
<1> DEFINE I == {k \in 1 .. Len(list) : list[k].id = a}
<1>1. DOMAIN list = 1 .. Len(list) /\ i # 0 /\ i \in Nat
  BY DEF Listed
<1>2. I = {i}
  BY <1>1, OneEntryMeans DEF Listed
<1>3. FindIndex(list, a) = IF I # {} THEN Min(I) ELSE 0
  BY DEF FindIndex, SelectInSeq
<1> HIDE DEF I
<1>4. Min(I) = i
  BY <1>1, <1>2 DEF Min
<1> QED
  BY <1>1, <1>2, <1>3, <1>4 DEF ValueOf

LEMMA NoEntryFound ==
  ASSUME NEW list, Listed(list), NEW a, a \notin IdsOf(list)
  PROVE  FindIndex(list, a) = 0 /\ ValueOf(list, a) = 0
<1> DEFINE I == {k \in 1 .. Len(list) : list[k].id = a}
<1>1. DOMAIN list = 1 .. Len(list)
  BY DEF Listed
<1>2. I = {}
  BY <1>1 DEF IdsOf
<1>3. FindIndex(list, a) = IF I # {} THEN Min(I) ELSE 0
  BY DEF FindIndex, SelectInSeq
<1> QED
  BY <1>2, <1>3 DEF ValueOf

LEMMA ValuesAreAmounts ==
  ASSUME NEW list, Listed(list), NEW a
  PROVE  /\ ValueOf(list, a) \in Amount
         /\ FindIndex(list, a) = 0 <=> a \notin IdsOf(list)
<1>1. CASE a \notin IdsOf(list)
  BY <1>1, NoEntryFound, LedgerAssumption DEF Amount
<1>2. CASE a \in IdsOf(list)
  <2>1. PICK i \in DOMAIN list : list[i].id = a
    BY <1>2 DEF IdsOf
  <2>2. list[i] \in Entry /\ i # 0
    BY DEF Listed
  <2> QED
    BY <1>2, <2>1, <2>2, EntryFound DEF Entry
<1> QED
  BY <1>1, <1>2

\* What a list becomes, and what that means for the accounts.
Appended(list, a, v) == Append(list, [id |-> a, value |-> v])

Changed(list, i, v) == [list EXCEPT ![i].value = v]

SetTo(new, list, a, v) ==
  /\ Listed(new)
  /\ IdsOf(new) = IdsOf(list) \cup {a}
  /\ \A b : ValueOf(new, b) = IF b = a THEN v ELSE ValueOf(list, b)

LEMMA EntryAppended ==
  ASSUME NEW list, Listed(list), NEW a \in Address, a \notin IdsOf(list), NEW v \in Amount
  PROVE  SetTo(Appended(list, a, v), list, a, v)
<1> DEFINE new == Appended(list, a, v)
           e == [id |-> a, value |-> v]
           n == Len(list)
<1>1. list \in Seq(Entry) /\ e \in Entry /\ n \in Nat /\ DOMAIN list = 1 .. n
  BY DEF Listed, Entry
<1>2. e.id = a /\ e.value = v
  OBVIOUS
<1> HIDE DEF e
<1>3. /\ new \in Seq(Entry) /\ DOMAIN new = 1 .. n + 1
      /\ \A i \in 1 .. n : new[i] = list[i]
      /\ new[n + 1] = e
  <2>1. new = Append(list, e)
    BY DEF Appended, e
  <2> HIDE DEF new
  <2> QED
    BY <1>1, <2>1
<1> HIDE DEF new
<1>4. Listed(new)
  <2>1. \A i \in 1 .. n : list[i].id # a
    BY <1>1 DEF IdsOf
  <2>2. \A i, j \in 1 .. n : list[i].id = list[j].id => i = j
    BY <1>1, OneEntryMeans DEF Listed
  <2>3. \A i \in 1 .. n + 1 : i \in 1 .. n \/ i = n + 1
    BY <1>1
  <2>4. \A i, j \in DOMAIN new : new[i].id = new[j].id => i = j
    BY <1>2, <1>3, <2>1, <2>2, <2>3
  <2> QED
    BY <1>3, <2>4, OneEntryMeans DEF Listed
<1>5. IdsOf(new) = IdsOf(list) \cup {a}
  <2>1. 1 .. n + 1 = (1 .. n) \cup {n + 1}
    BY <1>1
  <2> QED
    BY <1>1, <1>2, <1>3, <2>1 DEF IdsOf
<1>6. ASSUME NEW b
      PROVE  ValueOf(new, b) = IF b = a THEN v ELSE ValueOf(list, b)
  <2>1. CASE b = a
    <3>1. n + 1 \in DOMAIN new /\ new[n + 1].id = b /\ new[n + 1].value = v
      BY <1>1, <1>2, <1>3, <2>1
    <3>2. ValueOf(new, b) = new[n + 1].value
      BY <1>4, <3>1, EntryFound
    <3> QED
      BY <2>1, <3>1, <3>2
  <2>2. CASE b # a /\ b \in IdsOf(list)
    <3>1. PICK i \in 1 .. n : list[i].id = b
      BY <1>1, <2>2 DEF IdsOf
    <3>2. i \in DOMAIN new /\ new[i] = list[i] /\ i \in DOMAIN list
      BY <1>1, <1>3
    <3>3. ValueOf(new, b) = new[i].value
      BY <1>4, <3>1, <3>2, EntryFound
    <3>4. ValueOf(list, b) = list[i].value
      BY <3>1, <3>2, EntryFound
    <3> QED
      BY <2>2, <3>2, <3>3, <3>4
  <2>3. CASE b # a /\ b \notin IdsOf(list)
    BY <1>4, <1>5, <2>3, NoEntryFound
  <2> QED
    BY <2>1, <2>2, <2>3
<1> QED
  BY <1>4, <1>5, <1>6 DEF SetTo, new

LEMMA EntryChanged ==
  ASSUME NEW list, Listed(list), NEW i \in DOMAIN list, NEW v \in Amount
  PROVE  SetTo(Changed(list, i, v), list, list[i].id, v)
<1> DEFINE new == Changed(list, i, v)
           n == Len(list)
<1>1. /\ list \in Seq(Entry) /\ n \in Nat /\ DOMAIN list = 1 .. n
      /\ \A j \in 1 .. n : list[j] \in Entry
  BY DEF Listed
<1>2. /\ DOMAIN new = 1 .. n /\ new = [j \in 1 .. n |-> new[j]]
      /\ \A j \in 1 .. n : new[j] = IF j = i THEN [list[i] EXCEPT !.value = v] ELSE list[j]
  BY <1>1 DEF Changed
<1> HIDE DEF new
<1>3. /\ [list[i] EXCEPT !.value = v] \in Entry
      /\ [list[i] EXCEPT !.value = v].id = list[i].id
      /\ [list[i] EXCEPT !.value = v].value = v
  BY <1>1 DEF Entry
<1>4. \A j \in 1 .. n : /\ new[j] \in Entry /\ new[j].id = list[j].id
                        /\ new[j].value = IF j = i THEN v ELSE list[j].value
  BY <1>1, <1>2, <1>3
<1>5. new \in Seq(Entry)
  <2>1. \A m \in Nat : \A f : f = [j \in 1 .. m |-> f[j]] /\ (\A j \in 1 .. m : f[j] \in Entry)
          => f \in Seq(Entry)
    OBVIOUS
  <2> QED
    BY <1>1, <1>2, <1>4, <2>1
<1>6. Listed(new)
  <2>1. \A j, k \in 1 .. n : list[j].id = list[k].id => j = k
    BY <1>1, OneEntryMeans DEF Listed
  <2>2. \A j, k \in DOMAIN new : new[j].id = new[k].id => j = k
    BY <1>2, <1>4, <2>1
  <2> QED
    BY <1>5, <2>2, OneEntryMeans DEF Listed
<1>7. IdsOf(new) = IdsOf(list) /\ list[i].id \in IdsOf(list)
  BY <1>1, <1>2, <1>4 DEF IdsOf
<1>8. ASSUME NEW b
      PROVE  ValueOf(new, b) = IF b = list[i].id THEN v ELSE ValueOf(list, b)
  <2>1. CASE b \in IdsOf(list)
    <3>1. PICK j \in 1 .. n : list[j].id = b
      BY <1>1, <2>1 DEF IdsOf
    <3>2. ValueOf(new, b) = new[j].value /\ ValueOf(list, b) = list[j].value
      <4>1. j \in DOMAIN new /\ j \in DOMAIN list /\ new[j].id = b
        BY <1>1, <1>2, <1>4, <3>1
      <4>2. ValueOf(new, b) = new[j].value
        BY <1>6, <4>1, EntryFound
      <4>3. ValueOf(list, b) = list[j].value
        BY <3>1, <4>1, EntryFound
      <4> QED
        BY <4>2, <4>3
    <3>3. j = i <=> b = list[i].id
      BY <1>1, <3>1, OneEntryMeans DEF Listed
    <3> QED
      BY <1>4, <3>2, <3>3
  <2>2. CASE b \notin IdsOf(list)
    <3>1. b # list[i].id
      BY <2>2 DEF IdsOf
    <3> QED
      BY <1>6, <1>7, <2>2, <3>1, NoEntryFound
  <2> QED
    BY <2>1, <2>2
<1> QED
  BY <1>6, <1>7, <1>8 DEF SetTo, new

LEMMA BalanceSet ==
  ASSUME NEW list, Listed(list), NEW a \in Address, NEW v \in Amount
  PROVE  SetTo(SetBalance(list, a, v), list, a, v)
<1>1. CASE a \notin IdsOf(list)
  <2>1. SetBalance(list, a, v) = Appended(list, a, v)
    BY <1>1, NoEntryFound DEF SetBalance, Appended
  <2> QED
    BY <1>1, <2>1, EntryAppended
<1>2. CASE a \in IdsOf(list)
  <2>1. PICK i \in DOMAIN list : list[i].id = a
    BY <1>2 DEF IdsOf
  <2>2. FindIndex(list, a) = i /\ i # 0
    BY <2>1, EntryFound DEF Listed
  <2>3. SetBalance(list, a, v) = Changed(list, i, v)
    BY <2>2 DEF SetBalance, Changed
  <2> QED
    BY <2>1, <2>3, EntryChanged
<1> QED
  BY <1>1, <1>2

-----------------------------------------------------------------------------
(* Blocks under construction.  What AddTransaction does to a block is what *)
(* it does to the draft that the block stands for, unless it panics.       *)

Building ==
  [balances : Seq(Entry), nextNonce : Seq(Entry), txs : Seq(Transactions),
   refused : BOOLEAN, panicked : BOOLEAN]

WellBuilt ==
  {blk \in Building : OneEntryEach(blk.balances) /\ OneEntryEach(blk.nextNonce)}

LEMMA DraftOfBlock ==
  ASSUME NEW blk \in WellBuilt
  PROVE  /\ Listed(blk.balances) /\ Listed(blk.nextNonce)
         /\ AsDraft(blk) \in DraftType(Transactions)
         /\ AsLedger(blk) \in LedgerType
<1>1. Listed(blk.balances) /\ Listed(blk.nextNonce) /\ blk.txs \in Seq(Transactions)
  BY DEF WellBuilt, Building, Listed
<1>2. \A a : ValueOf(blk.balances, a) \in Amount /\ ValueOf(blk.nextNonce, a) \in Amount
  BY <1>1, ValuesAreAmounts
<1> QED
  BY <1>1, <1>2 DEF AsDraft, AsLedger, DraftType, LedgerType

\* Only the balances changed.
Credited(new, blk) ==
  /\ new \in WellBuilt
  /\ new.nextNonce = blk.nextNonce /\ new.txs = blk.txs
  /\ new.refused = blk.refused /\ new.panicked = blk.panicked

LEMMA CreditEntry ==
  ASSUME NEW blk \in WellBuilt, NEW out \in Output
  PROVE  /\ Credited(Credit(blk, out), blk)
         /\ IdsOf(Credit(blk, out).balances) = IdsOf(blk.balances) \cup {out.address}
         /\ AsLedger(Credit(blk, out)).balances
              = CreditOutput(AsLedger(blk).balances, out)
<1> DEFINE a    == out.address
           v    == Uint(BalanceOf(blk, a) + out.amount)
           list == SetBalance(blk.balances, a, v)
           new  == Credit(blk, out)
<1>1. a \in Address /\ out.amount \in Nat /\ Listed(blk.balances)
  BY DraftOfBlock, LedgerAssumption DEF Output, Amount
<1>2. v \in Amount
  <2>1. BalanceOf(blk, a) \in Nat
    BY <1>1, ValuesAreAmounts, LedgerAssumption DEF BalanceOf, Amount
  <2>2. BalanceOf(blk, a) + out.amount \in Int
    BY <1>1, <2>1
  <2> QED
    BY <2>2, UintIsAmount
<1>3. SetTo(list, blk.balances, a, v)
  BY <1>1, <1>2, BalanceSet
<1>4. new = [blk EXCEPT !.balances = list]
  BY DEF Credit
<1> HIDE DEF list, v, new
<1>5. /\ new.balances = list /\ new.nextNonce = blk.nextNonce /\ new.txs = blk.txs
      /\ new.refused = blk.refused /\ new.panicked = blk.panicked
      /\ new \in WellBuilt
  BY <1>3, <1>4 DEF WellBuilt, Building, SetTo, Listed
<1>6. AsLedger(new).balances = CreditOutput(AsLedger(blk).balances, out)
  <2>1. \A b \in Address : ValueOf(list, b) = IF b = a THEN v ELSE ValueOf(blk.balances, b)
    BY <1>3 DEF SetTo
  <2>2. AsLedger(new).balances = [b \in Address |-> ValueOf(list, b)]
    BY <1>5 DEF AsLedger
  <2>3. CreditOutput(AsLedger(blk).balances, out)
          = [b \in Address |-> IF b = a THEN v ELSE ValueOf(blk.balances, b)]
    BY <1>1 DEF AsLedger, CreditOutput, v, BalanceOf
  <2> QED
    BY <2>1, <2>2, <2>3
<1> QED
  BY <1>3, <1>5, <1>6 DEF Credited, SetTo, new

\* Who tx pays.
PaidIn(tx) == {tx.outputs[k].address : k \in DOMAIN tx.outputs}

LEMMA CreditEntries ==
  ASSUME NEW blk \in WellBuilt, NEW tx \in WellFormed
  PROVE  LET new == FoldLeft(Credit, blk, tx.outputs)
         IN  /\ Credited(new, blk)
             /\ IdsOf(new.balances) = IdsOf(blk.balances) \cup PaidIn(tx)
             /\ AsLedger(new).balances
                  = FoldLeft(CreditOutput, AsLedger(blk).balances, tx.outputs)
<1> DEFINE n   == Len(tx.outputs)
           new == FoldLeft(Credit, blk, tx.outputs)
           bal == AsLedger(blk).balances
<1>1. n \in Nat /\ DOMAIN tx.outputs = 1 .. n /\ \A k \in 1 .. n : tx.outputs[k] \in Output
  BY DEF WellFormed
<1>2. /\ new = Listing!FoldTo(blk, tx.outputs, n)
      /\ FoldLeft(CreditOutput, bal, tx.outputs) = Credits!FoldTo(bal, tx.outputs, n)
  BY <1>1 DEF FoldLeft, MapThenFoldSet, Listing!FoldTo, Listing!IsFold, Listing!Max,
              Credits!FoldTo, Credits!IsFold, Credits!Max, Max
<1> HIDE DEF n, new, bal
<1>3. PICK v : /\ v[0] = blk
               /\ \A k \in 0 .. n - 1 : v[k + 1] = Credit(v[k], tx.outputs[k + 1])
               /\ Listing!FoldTo(blk, tx.outputs, n) = v[n]
  <2>1. ASSUME NEW base, NEW seq
        PROVE  \E u : /\ u[0] = base
                      /\ \A k \in 0 .. n - 1 : u[k + 1] = Credit(u[k], seq[k + 1])
                      /\ Listing!FoldTo(base, seq, n) = u[n]
    BY ONLY <1>1, Listing!FoldTrace
  <2> QED
    BY ONLY <2>1
<1>4. PICK w : /\ w[0] = bal
               /\ \A k \in 0 .. n - 1 : w[k + 1] = CreditOutput(w[k], tx.outputs[k + 1])
               /\ Credits!FoldTo(bal, tx.outputs, n) = w[n]
  <2>1. ASSUME NEW base, NEW seq
        PROVE  \E u : /\ u[0] = base
                      /\ \A k \in 0 .. n - 1 : u[k + 1] = CreditOutput(u[k], seq[k + 1])
                      /\ Credits!FoldTo(base, seq, n) = u[n]
    BY ONLY <1>1, Credits!FoldTrace
  <2> QED
    BY ONLY <2>1
<1> DEFINE Paid(k) == {tx.outputs[j].address : j \in 1 .. k}
           T == {k \in Nat : k <= n =>
                   /\ Credited(v[k], blk)
                   /\ IdsOf(v[k].balances) = IdsOf(blk.balances) \cup Paid(k)
                   /\ AsLedger(v[k]).balances = w[k]}
<1>5. 0 \in T
  <2>1. Paid(0) = {}
    OBVIOUS
  <2> QED
    BY <1>3, <1>4, <2>1 DEF Credited, bal
<1>6. ASSUME NEW k \in Nat, k \in T
      PROVE  k + 1 \in T
  <2> SUFFICES ASSUME k + 1 <= n PROVE k + 1 \in T
    OBVIOUS
  <2> DEFINE out == tx.outputs[k + 1]
  <2>1. k \in 0 .. n - 1 /\ k <= n /\ k + 1 \in 1 .. n
    BY <1>1
  <2>2. out \in Output /\ v[k + 1] = Credit(v[k], out) /\ w[k + 1] = CreditOutput(w[k], out)
    BY <1>1, <1>3, <1>4, <2>1
  <2>3. /\ Credited(v[k], blk)
        /\ IdsOf(v[k].balances) = IdsOf(blk.balances) \cup Paid(k)
        /\ AsLedger(v[k]).balances = w[k]
    BY <1>6, <2>1
  <2>4. Paid(k + 1) = Paid(k) \cup {out.address}
    <3>1. 1 .. k + 1 = (1 .. k) \cup {k + 1}
      OBVIOUS
    <3> QED
      BY <3>1
  <2> HIDE DEF Paid, out
  <2>5. v[k] \in WellBuilt
    BY <2>3 DEF Credited
  <2>6. /\ Credited(v[k + 1], v[k])
        /\ IdsOf(v[k + 1].balances) = IdsOf(v[k].balances) \cup {out.address}
        /\ AsLedger(v[k + 1]).balances = CreditOutput(AsLedger(v[k]).balances, out)
    BY <2>2, <2>5, CreditEntry
  <2>7. Credited(v[k + 1], blk)
    BY <2>3, <2>6 DEF Credited
  <2>8. IdsOf(v[k + 1].balances) = IdsOf(blk.balances) \cup Paid(k + 1)
    BY <2>3, <2>4, <2>6
  <2>9. AsLedger(v[k + 1]).balances = w[k + 1]
    BY <2>2, <2>3, <2>6
  <2> QED
    BY <2>7, <2>8, <2>9
<1> HIDE DEF T
<1>7. n \in T
  BY <1>1, <1>5, <1>6, Add!NatSetInduction
<1>8. Paid(n) = PaidIn(tx)
  BY <1>1 DEF PaidIn
<1> HIDE DEF Paid
<1>9. /\ Credited(v[n], blk)
      /\ IdsOf(v[n].balances) = IdsOf(blk.balances) \cup PaidIn(tx)
      /\ AsLedger(v[n]).balances = w[n]
  BY <1>1, <1>7, <1>8 DEF T
<1> QED
  BY <1>2, <1>3, <1>4, <1>9 DEF new, bal

\* The nonce entry is there before anything else is looked at.
LEMMA NonceEntry ==
  ASSUME NEW blk \in WellBuilt, NEW a \in Address
  PROVE  LET new == WithNonceEntry(blk, a)
         IN  /\ new \in WellBuilt /\ a \in IdsOf(new.nextNonce)
             /\ new.balances = blk.balances /\ new.txs = blk.txs
             /\ new.refused = blk.refused /\ new.panicked = blk.panicked
             /\ AsDraft(new) = AsDraft(blk)
<1> DEFINE new  == WithNonceEntry(blk, a)
           list == blk.nextNonce
<1>1. Listed(list) /\ 0 \in Amount
  BY DraftOfBlock, LedgerAssumption DEF Amount
<1>2. CASE a \in IdsOf(list)
  BY <1>1, <1>2, ValuesAreAmounts DEF WithNonceEntry
<1>3. CASE a \notin IdsOf(list)
  <2>1. new = [blk EXCEPT !.nextNonce = Appended(list, a, 0)]
    BY <1>1, <1>3, NoEntryFound DEF WithNonceEntry, Appended
  <2>2. SetTo(Appended(list, a, 0), list, a, 0)
    BY <1>1, <1>3, EntryAppended
  <2> HIDE DEF new
  <2>3. /\ new \in WellBuilt /\ new.nextNonce = Appended(list, a, 0)
        /\ new.balances = blk.balances /\ new.txs = blk.txs
        /\ new.refused = blk.refused /\ new.panicked = blk.panicked
    BY <2>1, <2>2 DEF WellBuilt, Building, SetTo, Listed
  <2>4. a \in IdsOf(new.nextNonce)
    BY <2>2, <2>3 DEF SetTo
  <2>5. \A b : ValueOf(new.nextNonce, b) = ValueOf(list, b)
    BY <1>1, <1>3, <2>2, <2>3, NoEntryFound DEF SetTo
  <2>6. AsDraft(new) = AsDraft(blk)
    BY <2>3, <2>5 DEF AsDraft, AsLedger
  <2> QED
    BY <2>3, <2>4, <2>6 DEF new
<1> QED
  BY <1>2, <1>3

\* EnterTransaction before it looks at the balance of the sender.
Noted(blk, tx) ==
  [blk EXCEPT !.nextNonce =
                Changed(@, FindIndex(@, tx.from), Uint(ValueOf(@, tx.from) + 1)),
              !.txs = Append(@, tx)]

LEMMA NonceNoted ==
  ASSUME NEW blk \in WellBuilt, NEW tx \in Transactions, tx.from \in IdsOf(blk.nextNonce)
  PROVE  LET new == Noted(blk, tx)
         IN  /\ new \in WellBuilt
             /\ new.balances = blk.balances /\ new.txs = Append(blk.txs, tx)
             /\ new.refused = blk.refused /\ new.panicked = blk.panicked
             /\ AsLedger(new).nextNonce
                  = [AsLedger(blk).nextNonce EXCEPT ![tx.from] = Uint(@ + 1)]
<1> DEFINE a    == tx.from
           list == blk.nextNonce
           at   == FindIndex(list, a)
           v    == Uint(ValueOf(list, a) + 1)
           new  == Noted(blk, tx)
<1>1. Listed(list) /\ a \in Address
  BY DraftOfBlock, FillingAssumption
<1>2. at \in DOMAIN list /\ list[at].id = a
  <2>1. PICK i \in DOMAIN list : list[i].id = a
    BY DEF IdsOf
  <2> QED
    BY <1>1, <2>1, EntryFound
<1>3. v \in Amount
  <2>1. ValueOf(list, a) \in Nat
    BY <1>1, ValuesAreAmounts, LedgerAssumption DEF Amount
  <2>2. ValueOf(list, a) + 1 \in Int
    BY <2>1
  <2> QED
    BY <2>2, UintIsAmount
<1>4. SetTo(Changed(list, at, v), list, a, v)
  BY <1>1, <1>2, <1>3, EntryChanged
<1>5. new = [blk EXCEPT !.nextNonce = Changed(list, at, v), !.txs = Append(blk.txs, tx)]
  BY DEF Noted, WellBuilt, Building
<1> HIDE DEF at, v, new
<1>6. Append(blk.txs, tx) \in Seq(Transactions)
  BY DEF WellBuilt, Building
<1>7. /\ new.nextNonce = Changed(list, at, v)
      /\ new.balances = blk.balances /\ new.txs = Append(blk.txs, tx)
      /\ new.refused = blk.refused /\ new.panicked = blk.panicked
      /\ new \in WellBuilt
  BY <1>4, <1>5, <1>6 DEF WellBuilt, Building, SetTo, Listed
<1>8. AsLedger(new).nextNonce = [AsLedger(blk).nextNonce EXCEPT ![a] = Uint(@ + 1)]
  <2>1. \A b \in Address : ValueOf(new.nextNonce, b) = IF b = a THEN v ELSE ValueOf(list, b)
    BY <1>4, <1>7 DEF SetTo
  <2>2. AsLedger(new).nextNonce = [b \in Address |-> ValueOf(new.nextNonce, b)]
    BY DEF AsLedger
  <2>3. [AsLedger(blk).nextNonce EXCEPT ![a] = Uint(@ + 1)]
          = [b \in Address |-> IF b = a THEN v ELSE ValueOf(list, b)]
    BY <1>1 DEF AsLedger, v
  <2> QED
    BY <2>1, <2>2, <2>3
<1> QED
  BY <1>7, <1>8 DEF new

\* The sender is debited, if it has an entry.
Debiting(blk, tx) ==
  [blk EXCEPT !.balances =
     Changed(@, FindIndex(@, tx.from), Uint(ValueOf(@, tx.from) - TotalOutput(tx)))]

LEMMA SenderDebited ==
  ASSUME NEW blk \in WellBuilt, NEW tx \in Transactions, tx.from \in IdsOf(blk.balances)
  PROVE  LET new == Debiting(blk, tx)
         IN  /\ Credited(new, blk) /\ IdsOf(new.balances) = IdsOf(blk.balances)
             /\ AsLedger(new).balances = Debited(AsLedger(blk).balances, tx)
<1> DEFINE a    == tx.from
           list == blk.balances
           at   == FindIndex(list, a)
           v    == Uint(ValueOf(list, a) - TotalOutput(tx))
           new  == Debiting(blk, tx)
<1>1. Listed(list) /\ a \in Address /\ tx \in WellFormed
  BY DraftOfBlock, FillingAssumption DEF WellFormed
<1>2. at \in DOMAIN list /\ list[at].id = a
  <2>1. PICK i \in DOMAIN list : list[i].id = a
    BY DEF IdsOf
  <2> QED
    BY <1>1, <2>1, EntryFound
<1>3. v \in Amount
  <2>1. ValueOf(list, a) \in Nat /\ TotalOutput(tx) \in Nat
    BY <1>1, ValuesAreAmounts, TotalOutputIsAmount, LedgerAssumption DEF Amount
  <2>2. ValueOf(list, a) - TotalOutput(tx) \in Int
    BY <2>1
  <2> QED
    BY <2>2, UintIsAmount
<1>4. SetTo(Changed(list, at, v), list, a, v)
  BY <1>1, <1>2, <1>3, EntryChanged
<1>5. new = [blk EXCEPT !.balances = Changed(list, at, v)]
  BY DEF Debiting, WellBuilt, Building
<1> HIDE DEF at, v, new
<1>6. new.balances = Changed(list, at, v) /\ Credited(new, blk)
  BY <1>4, <1>5 DEF WellBuilt, Building, SetTo, Listed, Credited
<1>7. IdsOf(new.balances) = IdsOf(blk.balances)
  BY <1>4, <1>6 DEF SetTo
<1>8. AsLedger(new).balances = Debited(AsLedger(blk).balances, tx)
  <2>1. \A b \in Address : ValueOf(new.balances, b) = IF b = a THEN v ELSE ValueOf(list, b)
    BY <1>4, <1>6 DEF SetTo
  <2>2. AsLedger(new).balances = [b \in Address |-> ValueOf(new.balances, b)]
    BY DEF AsLedger
  <2>3. Debited(AsLedger(blk).balances, tx)
          = [b \in Address |-> IF b = a THEN v ELSE ValueOf(list, b)]
    BY <1>1 DEF AsLedger, v, Debited
  <2> QED
    BY <2>1, <2>2, <2>3
<1> QED
  BY <1>6, <1>7, <1>8 DEF new

LEMMA EnterIs ==
  ASSUME NEW blk \in WellBuilt, NEW tx \in Transactions, tx.from \in IdsOf(blk.nextNonce)
  PROVE  EnterTransaction(blk, tx) =
           IF tx.from \in IdsOf(blk.balances)
           THEN FoldLeft(Credit, Debiting(Noted(blk, tx), tx), tx.outputs)
           ELSE [Noted(blk, tx) EXCEPT !.panicked = TRUE]
<1> DEFINE a  == tx.from
           i  == FindIndex(blk.nextNonce, a)
           j  == FindIndex(blk.balances, a)
           entered == [blk EXCEPT !.nextNonce[i].value = Uint(@ + 1),
                                  !.txs = Append(@, tx)]
           debited == [entered EXCEPT !.balances[j].value = Uint(@ - TotalOutput(tx))]
<1>1. Listed(blk.balances) /\ Listed(blk.nextNonce) /\ blk \in Building
  BY DraftOfBlock DEF WellBuilt
<1>2. i \in DOMAIN blk.nextNonce /\ ValueOf(blk.nextNonce, a) = blk.nextNonce[i].value
  <2>1. PICK k \in DOMAIN blk.nextNonce : blk.nextNonce[k].id = a
    BY DEF IdsOf
  <2> QED
    BY <1>1, <2>1, EntryFound
<1>3. entered = Noted(blk, tx)
  BY <1>1, <1>2 DEF Noted, Changed, Building
<1>4. j = 0 <=> a \notin IdsOf(blk.balances)
  BY <1>1, ValuesAreAmounts
<1>5. EnterTransaction(blk, tx) =
        IF j = 0 THEN [entered EXCEPT !.panicked = TRUE]
        ELSE FoldLeft(Credit, debited, tx.outputs)
  BY DEF EnterTransaction
<1>6. ASSUME a \in IdsOf(blk.balances)
      PROVE  debited = Debiting(Noted(blk, tx), tx)
  <2>1. Noted(blk, tx).balances = blk.balances /\ Noted(blk, tx) \in WellBuilt
    BY NonceNoted
  <2>2. PICK k \in DOMAIN blk.balances : blk.balances[k].id = a
    BY <1>6 DEF IdsOf
  <2>3. ValueOf(blk.balances, a) = blk.balances[j].value
    BY <1>1, <2>2, EntryFound
  <2> DEFINE noted == Noted(blk, tx)
  <2>4. debited = [noted EXCEPT !.balances[j].value = Uint(@ - TotalOutput(tx))]
    BY <1>3
  <2>5. noted \in Building
    BY <2>1 DEF WellBuilt
  <2> HIDE DEF debited, noted
  <2>6. debited = [noted EXCEPT !.balances =
                     Changed(@, j, Uint(noted.balances[j].value - TotalOutput(tx)))]
    BY <2>4, <2>5 DEF Changed
  <2>7. Debiting(noted, tx) = [noted EXCEPT !.balances =
                     Changed(@, FindIndex(noted.balances, a),
                             Uint(ValueOf(noted.balances, a) - TotalOutput(tx)))]
    BY <2>5 DEF Debiting, Building
  <2> QED
    BY <2>1, <2>3, <2>6, <2>7 DEF noted
<1> HIDE DEF entered, debited, i, j
<1> QED
  BY <1>3, <1>4, <1>5, <1>6

\* The three things AddTransaction can do.
Skips(new, blk) ==
  /\ new \in WellBuilt /\ ~ new.panicked /\ new.refused
  /\ AsDraft(new) = AsDraft(blk) /\ new.balances = blk.balances

EntersInto(new, blk, tx) ==
  /\ new \in WellBuilt /\ ~ new.panicked /\ new.refused = blk.refused
  /\ AsDraft(new) = ApplyTransaction(AsDraft(blk), tx)
  /\ IdsOf(new.balances) = IdsOf(blk.balances) \cup PaidIn(tx)

PanicsOn(new, blk, tx) ==
  /\ new \in WellBuilt /\ new.panicked
  /\ new.balances = blk.balances /\ new.txs = Append(blk.txs, tx)
  /\ TotalOutput(tx) = 0 /\ tx.from \notin IdsOf(blk.balances)

LEMMA EnterDoes ==
  ASSUME NEW blk \in WellBuilt, NEW tx \in Transactions, ~ blk.panicked,
         tx.from \in IdsOf(blk.nextNonce), TotalOutput(tx) <= BalanceOf(blk, tx.from)
  PROVE  IF tx.from \in IdsOf(blk.balances)
         THEN EntersInto(EnterTransaction(blk, tx), blk, tx)
         ELSE PanicsOn(EnterTransaction(blk, tx), blk, tx)
<1> DEFINE new     == EnterTransaction(blk, tx)
           noted   == Noted(blk, tx)
           debited == Debiting(noted, tx)
           bal     == AsLedger(blk).balances
<1>1. /\ noted \in WellBuilt
      /\ noted.balances = blk.balances /\ noted.txs = Append(blk.txs, tx)
      /\ noted.refused = blk.refused /\ noted.panicked = blk.panicked
      /\ AsLedger(noted).nextNonce = [AsLedger(blk).nextNonce EXCEPT ![tx.from] = Uint(@ + 1)]
  BY NonceNoted
<1>2. tx \in WellFormed
  BY FillingAssumption DEF WellFormed
<1>3. new = IF tx.from \in IdsOf(blk.balances)
            THEN FoldLeft(Credit, debited, tx.outputs)
            ELSE [noted EXCEPT !.panicked = TRUE]
  BY EnterIs
<1>4. CASE tx.from \in IdsOf(blk.balances)
  <2> HIDE DEF noted
  <2>1. /\ Credited(debited, noted) /\ IdsOf(debited.balances) = IdsOf(blk.balances)
        /\ AsLedger(debited).balances = Debited(AsLedger(noted).balances, tx)
    BY <1>1, <1>4, SenderDebited
  <2>2. AsLedger(noted).balances = bal
    BY <1>1 DEF AsLedger
  <2> HIDE DEF new, debited, bal
  <2>3. debited \in WellBuilt
    BY <2>1 DEF Credited
  <2>4. /\ Credited(new, debited)
        /\ IdsOf(new.balances) = IdsOf(debited.balances) \cup PaidIn(tx)
        /\ AsLedger(new).balances = FoldLeft(CreditOutput, AsLedger(debited).balances, tx.outputs)
    BY <1>2, <1>3, <1>4, <2>3, CreditEntries
  <2>5. /\ new \in WellBuilt /\ new.nextNonce = noted.nextNonce
        /\ new.txs = Append(blk.txs, tx)
        /\ new.refused = blk.refused /\ ~ new.panicked
    BY <1>1, <2>1, <2>4 DEF Credited
  <2>6. AsLedger(new).nextNonce = [AsLedger(blk).nextNonce EXCEPT ![tx.from] = Uint(@ + 1)]
    BY <1>1, <2>5 DEF AsLedger
  <2>7. AsLedger(new).balances = FoldLeft(CreditOutput, Debited(bal, tx), tx.outputs)
    BY <2>1, <2>2, <2>4
  <2>8. AsDraft(new) = [balances  |-> FoldLeft(CreditOutput, Debited(bal, tx), tx.outputs),
                        nextNonce |-> [AsLedger(blk).nextNonce EXCEPT ![tx.from] = Uint(@ + 1)],
                        txs       |-> Append(blk.txs, tx)]
    BY <2>5, <2>6, <2>7 DEF AsDraft
  <2>9. /\ AsDraft(blk).balances = bal /\ AsDraft(blk).nextNonce = AsLedger(blk).nextNonce
        /\ AsDraft(blk).txs = blk.txs
    BY DEF AsDraft, bal
  <2>10. ApplyTransaction(AsDraft(blk), tx)
           = [balances  |-> FoldLeft(CreditOutput, Debited(AsDraft(blk).balances, tx), tx.outputs),
              nextNonce |-> [AsDraft(blk).nextNonce EXCEPT ![tx.from] = Uint(@ + 1)],
              txs       |-> Append(AsDraft(blk).txs, tx)]
    BY DEF ApplyTransaction, CreditOutput, Debited
  <2>11. AsDraft(new) = ApplyTransaction(AsDraft(blk), tx)
    BY <2>8, <2>9, <2>10
  <2> QED
    BY <1>4, <2>1, <2>4, <2>5, <2>11 DEF EntersInto, new
<1>5. CASE tx.from \notin IdsOf(blk.balances)
  <2>1. new = [noted EXCEPT !.panicked = TRUE]
    BY <1>3, <1>5
  <2>2. TotalOutput(tx) = 0
    <3>1. BalanceOf(blk, tx.from) = 0
      BY <1>5, DraftOfBlock, NoEntryFound DEF BalanceOf
    <3>2. TotalOutput(tx) \in Nat
      BY <1>2, TotalOutputIsAmount, LedgerAssumption DEF Amount
    <3> QED
      BY <3>1, <3>2
  <2> HIDE DEF noted, new
  <2>3. /\ new \in WellBuilt /\ new.panicked
        /\ new.balances = blk.balances /\ new.txs = Append(blk.txs, tx)
    BY <1>1, <2>1 DEF WellBuilt, Building
  <2> QED
    BY <1>5, <2>2, <2>3 DEF PanicsOn, new
<1> QED
  BY <1>4, <1>5

LEMMA AddDoes ==
  ASSUME NEW blk \in WellBuilt, NEW tx \in Transactions
  PROVE  LET new == AddTransactionToLists(blk, tx)
         IN  /\ blk.panicked => new = blk
             /\ ~ blk.panicked /\ ~ AcceptsTransaction(AsDraft(blk), tx) => Skips(new, blk)
             /\ ~ blk.panicked /\ AcceptsTransaction(AsDraft(blk), tx) =>
                  IF tx.from \in IdsOf(blk.balances) THEN EntersInto(new, blk, tx)
                  ELSE PanicsOn(new, blk, tx)
<1> DEFINE new   == AddTransactionToLists(blk, tx)
           a     == tx.from
           noted == WithNonceEntry(blk, a)
           draft == AsDraft(blk)
<1>1. a \in Address
  BY FillingAssumption
<1>2. /\ noted \in WellBuilt /\ a \in IdsOf(noted.nextNonce)
      /\ noted.balances = blk.balances /\ noted.txs = blk.txs
      /\ noted.refused = blk.refused /\ noted.panicked = blk.panicked
      /\ AsDraft(noted) = draft
  BY <1>1, NonceEntry
<1>3. /\ draft.txs = blk.txs /\ draft.balances[a] = BalanceOf(blk, a)
      /\ draft.nextNonce[a] = ValueOf(noted.nextNonce, a)
  <2>1. draft.balances[a] = ValueOf(blk.balances, a)
    BY <1>1 DEF AsDraft, AsLedger
  <2>2. AsDraft(noted).nextNonce[a] = ValueOf(noted.nextNonce, a)
    BY <1>1 DEF AsDraft, AsLedger
  <2> QED
    BY <1>2, <2>1, <2>2 DEF AsDraft, BalanceOf
<1>4. CASE blk.panicked
  BY <1>4 DEF AddTransactionToLists
<1>5. CASE ~ blk.panicked /\ RefusedAtOnce(blk, tx)
  <2>1. new = [blk EXCEPT !.refused = TRUE]
    BY <1>5 DEF AddTransactionToLists
  <2>2. ~ AcceptsTransaction(draft, tx)
    BY <1>3, <1>5 DEF AcceptsTransaction, RefusedAtOnce, SufficientFund
  <2> HIDE DEF new
  <2>3. /\ new \in WellBuilt /\ ~ new.panicked /\ new.refused
        /\ new.balances = blk.balances /\ new.nextNonce = blk.nextNonce /\ new.txs = blk.txs
    BY <1>5, <2>1 DEF WellBuilt, Building
  <2>4. Skips(new, blk)
    BY <2>3 DEF Skips, AsDraft, AsLedger
  <2> QED
    BY <1>5, <2>2, <2>4 DEF new
<1>6. CASE ~ blk.panicked /\ ~ RefusedAtOnce(blk, tx)
  <2>1. new = EnterInOrder(noted, tx)
    BY <1>6 DEF AddTransactionToLists
  <2>2. TotalOutput(tx) <= BalanceOf(noted, a) /\ BalanceOf(noted, a) = BalanceOf(blk, a)
    BY <1>2, <1>6 DEF RefusedAtOnce, SufficientFund, BalanceOf
  <2>3. AcceptsTransaction(draft, tx) <=> ValueOf(noted.nextNonce, a) = tx.nonce
    BY <1>3, <1>6 DEF AcceptsTransaction, RefusedAtOnce, SufficientFund
  <2>4. CASE ValueOf(noted.nextNonce, a) = tx.nonce
    <3> HIDE DEF noted, new
    <3>1. new = EnterTransaction(noted, tx)
      BY <2>1, <2>4 DEF EnterInOrder
    <3>2. IF a \in IdsOf(noted.balances) THEN EntersInto(new, noted, tx)
          ELSE PanicsOn(new, noted, tx)
      BY <1>2, <1>6, <2>2, <3>1, EnterDoes
    <3>3. IF a \in IdsOf(blk.balances) THEN EntersInto(new, blk, tx)
          ELSE PanicsOn(new, blk, tx)
      BY <1>2, <3>2 DEF EntersInto, PanicsOn
    <3> QED
      BY <1>6, <2>3, <2>4, <3>3 DEF new
  <2>5. CASE ValueOf(noted.nextNonce, a) # tx.nonce
    <3>1. new = [noted EXCEPT !.refused = TRUE]
      BY <2>1, <2>5 DEF EnterInOrder
    <3> HIDE DEF noted, new
    <3>2. /\ new \in WellBuilt /\ ~ new.panicked /\ new.refused
          /\ new.balances = noted.balances /\ new.nextNonce = noted.nextNonce
          /\ new.txs = noted.txs
      BY <1>2, <1>6, <3>1 DEF WellBuilt, Building
    <3>3. AsDraft(new) = AsDraft(noted)
      BY <3>2 DEF AsDraft, AsLedger
    <3> QED
      BY <1>2, <1>6, <2>3, <2>5, <3>2, <3>3 DEF Skips, new
  <2> QED
    BY <2>4, <2>5
<1> QED
  BY <1>4, <1>5, <1>6

\* Whatever it does, the lists stay lists of one entry each.
LEMMA AddKeepsBuilt ==
  ASSUME NEW blk \in WellBuilt, NEW tx \in Transactions
  PROVE  AddTransactionToLists(blk, tx) \in WellBuilt /\ Reenter(blk, tx) \in WellBuilt
<1>1. AddTransactionToLists(blk, tx) \in WellBuilt
  BY AddDoes DEF Skips, EntersInto, PanicsOn
<1> QED
  BY <1>1 DEF Reenter

-----------------------------------------------------------------------------
(* Blocks on a parent: what NewBlock and Rerun start from.                 *)

Lists ==
  {p \in [balances : Seq(Entry), nextNonce : Seq(Entry)] :
     OneEntryEach(p.balances) /\ OneEntryEach(p.nextNonce)}

LEMMA CopyIsBuilt ==
  ASSUME NEW p \in Lists
  PROVE  /\ CopyOf(p) \in WellBuilt
         /\ ~ CopyOf(p).refused /\ ~ CopyOf(p).panicked /\ CopyOf(p).txs = <<>>
         /\ CopyOf(p).balances = p.balances
         /\ AsLedger(p) \in LedgerType
         /\ AsDraft(CopyOf(p)) = NewDraft(AsLedger(p))
<1> DEFINE new == CopyOf(p)
<1>1. /\ new.balances = p.balances /\ new.nextNonce = p.nextNonce
      /\ new.txs = <<>> /\ new.refused = FALSE /\ new.panicked = FALSE
      /\ new \in WellBuilt
  BY DEF CopyOf, WellBuilt, Building, Lists
<1> HIDE DEF new
<1>2. AsLedger(new) = AsLedger(p)
  BY <1>1 DEF AsLedger
<1>3. AsDraft(new) = NewDraft(AsLedger(p))
  BY <1>1, <1>2 DEF AsDraft, NewDraft
<1>4. AsLedger(p) \in LedgerType
  BY <1>1, <1>2, DraftOfBlock
<1> QED
  BY <1>1, <1>3, <1>4 DEF new

\* The block whose lists, read as functions, are those of the parent with its
\* reward.
LEMMA MinerIsPaid ==
  ASSUME NEW p \in Lists, NEW r \in Address \cup {NoAddress}
  PROVE  LET new == PayMiner(p, r)
         IN  /\ new \in WellBuilt
             /\ ~ new.refused /\ ~ new.panicked /\ new.txs = <<>>
             /\ AsDraft(new) = NewDraft(PayReward(AsLedger(p), [rewardAddr |-> r]))
             /\ IdsOf(p.balances) \subseteq IdsOf(new.balances)
<1> DEFINE copy == CopyOf(p)
           new  == PayMiner(p, r)
           v    == Uint(BalanceOf(p, r) + COINBASE_AMT_ALLOWED)
           list == SetBalance(p.balances, r, v)
           par  == [rewardAddr |-> r]
           led  == AsLedger(p)
<1>1. /\ copy \in WellBuilt /\ ~ copy.refused /\ ~ copy.panicked /\ copy.txs = <<>>
      /\ copy.balances = p.balances /\ AsDraft(copy) = NewDraft(led)
      /\ led \in LedgerType
  BY CopyIsBuilt
<1>2. CASE r = NoAddress
  <2>1. new = copy /\ PayReward(led, par) = led
    BY <1>2 DEF PayMiner, PayReward
  <2> QED
    BY <1>1, <2>1
<1>3. CASE r # NoAddress
  <2>1. r \in Address /\ Listed(p.balances)
    BY <1>3 DEF Lists, Listed
  <2>2. v \in Amount
    <3>1. BalanceOf(p, r) \in Nat
      BY <2>1, ValuesAreAmounts, LedgerAssumption DEF BalanceOf, Amount
    <3>2. BalanceOf(p, r) + COINBASE_AMT_ALLOWED \in Int
      BY <3>1, LedgerAssumption
    <3> QED
      BY <3>2, UintIsAmount
  <2>3. SetTo(list, p.balances, r, v)
    BY <2>1, <2>2, BalanceSet
  <2>4. new = [copy EXCEPT !.balances = list]
    BY <1>1, <1>3 DEF PayMiner, WellBuilt, Building
  <2> HIDE DEF copy, new, list
  <2>5. /\ new \in WellBuilt /\ new.balances = list /\ new.nextNonce = copy.nextNonce
        /\ ~ new.refused /\ ~ new.panicked /\ new.txs = <<>>
    BY <1>1, <2>3, <2>4 DEF WellBuilt, Building, SetTo, Listed
  <2>6. AsLedger(new).balances = [led.balances EXCEPT ![r] = Uint(@ + COINBASE_AMT_ALLOWED)]
    <3>1. \A b \in Address : ValueOf(list, b) = IF b = r THEN v ELSE ValueOf(p.balances, b)
      BY <2>3 DEF SetTo
    <3>2. AsLedger(new).balances = [b \in Address |-> ValueOf(list, b)]
      BY <2>5 DEF AsLedger
    <3>3. [led.balances EXCEPT ![r] = Uint(@ + COINBASE_AMT_ALLOWED)]
            = [b \in Address |-> IF b = r THEN v ELSE ValueOf(p.balances, b)]
      BY <2>1 DEF AsLedger, BalanceOf
    <3> QED
      BY <3>1, <3>2, <3>3
  <2>7. AsLedger(new).nextNonce = led.nextNonce
    <3>1. AsLedger(new).nextNonce = AsDraft(copy).nextNonce
      BY <2>5 DEF AsLedger, AsDraft
    <3> QED
      BY <1>1, <3>1 DEF NewDraft
  <2>8. /\ PayReward(led, par).balances
             = [led.balances EXCEPT ![r] = Uint(@ + COINBASE_AMT_ALLOWED)]
        /\ PayReward(led, par).nextNonce = led.nextNonce
    BY <1>1, <1>3 DEF PayReward, LedgerType
  <2> HIDE DEF led
  <2>9. AsDraft(new) = NewDraft(PayReward(led, par))
    BY <2>5, <2>6, <2>7, <2>8 DEF AsDraft, NewDraft
  <2> QED
    BY <2>3, <2>5, <2>9 DEF SetTo, new, led
<1> QED
  BY <1>2, <1>3

-----------------------------------------------------------------------------
(* A miner fills a block.                                                  *)

LEMMA FillingIsFold ==
  ASSUME NEW blk, NEW pool, NEW n \in Nat, DOMAIN pool = 1 .. n
  PROVE  FoldLeft(AddTransactionToLists, blk, pool) = Filling!FoldTo(blk, pool, n)
  BY DEF FoldLeft, MapThenFoldSet, Filling!FoldTo, Filling!IsFold, Max, Filling!Max

LEMMA RerunningIsFold ==
  ASSUME NEW blk, NEW txs, NEW n \in Nat, DOMAIN txs = 1 .. n
  PROVE  FoldLeft(Reenter, blk, txs) = Rerunning!FoldTo(blk, txs, n)
  BY DEF FoldLeft, MapThenFoldSet, Rerunning!FoldTo, Rerunning!IsFold, Max, Rerunning!Max

\* It fills the draft that FillBlock does, unless it panics.
LEMMA FillsTheDraft ==
  ASSUME NEW p \in Lists, NEW pool \in Seq(Transactions),
         ~ FillLists(p, pool).panicked
  PROVE  AsDraft(FillLists(p, pool)) = FillBlock(AsLedger(p), pool)
<1> DEFINE n     == Len(pool)
           base  == CopyOf(p)
           draft == NewDraft(AsLedger(p))
           new   == FillLists(p, pool)
<1>1. n \in Nat /\ DOMAIN pool = 1 .. n /\ \A k \in 1 .. n : pool[k] \in Transactions
  OBVIOUS
<1>2. base \in WellBuilt /\ AsDraft(base) = draft
  BY CopyIsBuilt
<1>3. /\ new = Filling!FoldTo(base, pool, n)
      /\ FillBlock(AsLedger(p), pool) = Add!FoldTo(draft, pool, n)
  BY <1>1, FillingIsFold, AddIsFold DEF FillLists, FillBlock
<1> HIDE DEF n, base, draft, new
<1>4. PICK v : /\ v[0] = base
               /\ \A k \in 0 .. n - 1 : v[k + 1] = AddTransactionToLists(v[k], pool[k + 1])
               /\ Filling!FoldTo(base, pool, n) = v[n]
  <2>1. ASSUME NEW b, NEW seq
        PROVE  \E u : /\ u[0] = b
                      /\ \A k \in 0 .. n - 1 : u[k + 1] = AddTransactionToLists(u[k], seq[k + 1])
                      /\ Filling!FoldTo(b, seq, n) = u[n]
    BY ONLY <1>1, Filling!FoldTrace
  <2> QED
    BY ONLY <2>1
<1>5. PICK w : /\ w[0] = draft
               /\ \A k \in 0 .. n - 1 : w[k + 1] = AddTransaction(w[k], pool[k + 1])
               /\ Add!FoldTo(draft, pool, n) = w[n]
  <2>1. ASSUME NEW b, NEW seq
        PROVE  \E u : /\ u[0] = b
                      /\ \A k \in 0 .. n - 1 : u[k + 1] = AddTransaction(u[k], seq[k + 1])
                      /\ Add!FoldTo(b, seq, n) = u[n]
    BY ONLY <1>1, Add!FoldTrace
  <2> QED
    BY ONLY <2>1
<1> DEFINE T == {k \in Nat : k <= n =>
                   v[k] \in WellBuilt /\ (v[k].panicked \/ AsDraft(v[k]) = w[k])}
<1>6. 0 \in T
  BY <1>2, <1>4, <1>5
<1>7. ASSUME NEW k \in Nat, k \in T
      PROVE  k + 1 \in T
  <2> SUFFICES ASSUME k + 1 <= n PROVE k + 1 \in T
    OBVIOUS
  <2> DEFINE tx == pool[k + 1]
  <2>1. k \in 0 .. n - 1 /\ k <= n /\ k + 1 \in 1 .. n
    BY <1>1
  <2>2. tx \in Transactions /\ v[k + 1] = AddTransactionToLists(v[k], tx)
        /\ w[k + 1] = AddTransaction(w[k], tx)
    BY <1>1, <1>4, <1>5, <2>1
  <2>3. v[k] \in WellBuilt /\ (v[k].panicked \/ AsDraft(v[k]) = w[k])
    BY <1>7, <2>1
  <2> HIDE DEF tx
  <2>4. v[k + 1] \in WellBuilt
    BY <2>2, <2>3, AddKeepsBuilt
  <2>5. CASE v[k].panicked
    <3>1. v[k + 1] = v[k]
      BY <2>2, <2>3, <2>5, AddDoes
    <3> QED
      BY <2>4, <2>5, <3>1
  <2>6. CASE ~ v[k].panicked /\ ~ AcceptsTransaction(AsDraft(v[k]), tx)
    <3>1. Skips(v[k + 1], v[k])
      BY <2>2, <2>3, <2>6, AddDoes
    <3> QED
      BY <2>2, <2>3, <2>4, <2>6, <3>1 DEF Skips, AddTransaction
  <2>7. CASE ~ v[k].panicked /\ AcceptsTransaction(AsDraft(v[k]), tx)
    <3>1. IF tx.from \in IdsOf(v[k].balances) THEN EntersInto(v[k + 1], v[k], tx)
          ELSE PanicsOn(v[k + 1], v[k], tx)
      BY <2>2, <2>3, <2>7, AddDoes
    <3>2. v[k + 1].panicked \/ AsDraft(v[k + 1]) = ApplyTransaction(AsDraft(v[k]), tx)
      BY <3>1 DEF EntersInto, PanicsOn
    <3> QED
      BY <2>2, <2>3, <2>4, <2>7, <3>2 DEF AddTransaction
  <2> QED
    BY <2>5, <2>6, <2>7
<1> HIDE DEF T
<1>8. n \in T
  BY <1>1, <1>6, <1>7, Add!NatSetInduction
<1> QED
  BY <1>1, <1>3, <1>4, <1>5, <1>8 DEF T, new

-----------------------------------------------------------------------------
(* A receiver reruns it.                                                   *)

\* What Rerun makes of a block that is being filled.  It may refuse it before
\* the miner is done.
Rerunnable(p, r, blk) ==
  LET again == RerunLists(p, r, blk.txs)
      draft == Rerun([rewardAddr |-> r], AsLedger(p), blk.txs)
  IN  /\ again \in WellBuilt /\ draft \in DraftType(Transactions)
      /\ ~ again.panicked
      /\ IF again.refused THEN Len(draft.txs) < Len(blk.txs)
         ELSE /\ AsDraft(again) = draft /\ draft.txs = blk.txs
              /\ IdsOf(blk.balances) \subseteq IdsOf(again.balances)

LEMMA RerunOfNone ==
  ASSUME NEW p \in Lists, NEW r \in Address \cup {NoAddress}
  PROVE  Rerunnable(p, r, CopyOf(p))
<1> DEFINE base  == PayMiner(p, r)
           draft == NewDraft(PayReward(AsLedger(p), [rewardAddr |-> r]))
<1>1. /\ base \in WellBuilt /\ ~ base.refused /\ ~ base.panicked /\ base.txs = <<>>
      /\ AsDraft(base) = draft /\ IdsOf(p.balances) \subseteq IdsOf(base.balances)
  BY MinerIsPaid
<1>2. CopyOf(p).txs = <<>> /\ CopyOf(p).balances = p.balances
  BY CopyIsBuilt
<1>3. DOMAIN <<>> = 1 .. 0 /\ 0 \in Nat
  OBVIOUS
<1>4. /\ RerunLists(p, r, <<>>) = FoldLeft(Reenter, base, <<>>)
      /\ Rerun([rewardAddr |-> r], AsLedger(p), <<>>) = FoldLeft(AddTransaction, draft, <<>>)
  BY DEF RerunLists, Rerun
<1> HIDE DEF base, draft
<1>5. FoldLeft(Reenter, base, <<>>) = base
  <2>1. FoldLeft(Reenter, base, <<>>) = Rerunning!FoldTo(base, <<>>, 0)
    BY <1>3, RerunningIsFold
  <2>2. Rerunning!FoldTo(base, <<>>, 0) = base
    BY <1>3, Rerunning!FoldTrace
  <2> QED
    BY <2>1, <2>2
<1>6. FoldLeft(AddTransaction, draft, <<>>) = draft
  <2>1. FoldLeft(AddTransaction, draft, <<>>) = Add!FoldTo(draft, <<>>, 0)
    BY <1>3, AddIsFold
  <2>2. Add!FoldTo(draft, <<>>, 0) = draft
    BY <1>3, Add!FoldTrace
  <2> QED
    BY <2>1, <2>2
<1>7. draft \in DraftType(Transactions) /\ draft.txs = <<>>
  BY <1>1, DraftOfBlock DEF AsDraft
<1> QED
  BY <1>1, <1>2, <1>4, <1>5, <1>6, <1>7 DEF Rerunnable

\* One transaction more, in the lists and in the ledger.
LEMMA RerunOfMore ==
  ASSUME NEW p, NEW r, NEW txs \in Seq(Transactions), NEW tx \in Transactions
  PROVE  /\ RerunLists(p, r, Append(txs, tx)) = Reenter(RerunLists(p, r, txs), tx)
         /\ Rerun([rewardAddr |-> r], AsLedger(p), Append(txs, tx))
              = AddTransaction(Rerun([rewardAddr |-> r], AsLedger(p), txs), tx)
<1> DEFINE n     == Len(txs)
           more  == Append(txs, tx)
           base  == PayMiner(p, r)
           draft == NewDraft(PayReward(AsLedger(p), [rewardAddr |-> r]))
<1>1. /\ n \in Nat /\ DOMAIN txs = 1 .. n
      /\ DOMAIN more = 1 .. n + 1 /\ more[n + 1] = tx
      /\ \A k \in 1 .. n : more[k] = txs[k]
  OBVIOUS
<1>2. /\ RerunLists(p, r, txs) = FoldLeft(Reenter, base, txs)
      /\ RerunLists(p, r, more) = FoldLeft(Reenter, base, more)
      /\ Rerun([rewardAddr |-> r], AsLedger(p), txs) = FoldLeft(AddTransaction, draft, txs)
      /\ Rerun([rewardAddr |-> r], AsLedger(p), more) = FoldLeft(AddTransaction, draft, more)
  BY DEF RerunLists, Rerun
<1> HIDE DEF n, more, base, draft
<1>3. /\ FoldLeft(Reenter, base, txs) = Rerunning!FoldTo(base, txs, n)
      /\ FoldLeft(Reenter, base, more) = Rerunning!FoldTo(base, more, n + 1)
      /\ FoldLeft(AddTransaction, draft, txs) = Add!FoldTo(draft, txs, n)
      /\ FoldLeft(AddTransaction, draft, more) = Add!FoldTo(draft, more, n + 1)
  <2>1. n + 1 \in Nat
    BY <1>1
  <2> QED
    BY <1>1, <2>1, RerunningIsFold, AddIsFold
<1>4. Rerunning!FoldTo(base, more, n + 1) = Reenter(Rerunning!FoldTo(base, txs, n), more[n + 1])
  BY <1>1, Rerunning!FoldAppend
<1>5. Add!FoldTo(draft, more, n + 1) = AddTransaction(Add!FoldTo(draft, txs, n), more[n + 1])
  BY <1>1, Add!FoldAppend
<1> QED
  BY <1>1, <1>2, <1>3, <1>4, <1>5 DEF more

\* The receiver enters what the miner entered: it gives nobody less, so every
\* sender has an entry.
LEMMA AddKeepsRerunnable ==
  ASSUME NEW p \in Lists, NEW r \in Address \cup {NoAddress},
         NEW blk \in WellBuilt, Rerunnable(p, r, blk), NEW tx \in Transactions,
         EntersInto(AddTransactionToLists(blk, tx), blk, tx),
         tx.from \in IdsOf(blk.balances)
  PROVE  Rerunnable(p, r, AddTransactionToLists(blk, tx))
<1> DEFINE new   == AddTransactionToLists(blk, tx)
           again == RerunLists(p, r, blk.txs)
           next  == RerunLists(p, r, new.txs)
           draft == Rerun([rewardAddr |-> r], AsLedger(p), blk.txs)
           more  == Rerun([rewardAddr |-> r], AsLedger(p), new.txs)
<1>1. new.txs = Append(blk.txs, tx) /\ blk.txs \in Seq(Transactions)
  <2>1. AsDraft(new).txs = ApplyTransaction(AsDraft(blk), tx).txs
    BY DEF EntersInto
  <2> QED
    BY <2>1 DEF AsDraft, ApplyTransaction, WellBuilt, Building
<1>2. IdsOf(new.balances) = IdsOf(blk.balances) \cup PaidIn(tx)
  BY DEF EntersInto
<1>3. next = Reenter(again, tx) /\ more = AddTransaction(draft, tx)
  BY <1>1, RerunOfMore
<1>4. /\ again \in WellBuilt /\ draft \in DraftType(Transactions) /\ ~ again.panicked
      /\ IF again.refused THEN Len(draft.txs) < Len(blk.txs)
         ELSE /\ AsDraft(again) = draft /\ draft.txs = blk.txs
              /\ IdsOf(blk.balances) \subseteq IdsOf(again.balances)
  BY DEF Rerunnable
<1> HIDE DEF new, again, next, draft, more
<1>5. Transactions \subseteq WellFormed
  BY FillingAssumption DEF WellFormed
<1>6. next \in WellBuilt /\ more \in DraftType(Transactions)
  BY <1>3, <1>4, <1>5, AddKeepsBuilt, AddKeepsType
<1>7. Len(new.txs) = Len(blk.txs) + 1 /\ Len(blk.txs) \in Nat /\ Len(draft.txs) \in Nat
  BY <1>1, <1>4 DEF DraftType
<1>8. more.txs = draft.txs \/ more.txs = Append(draft.txs, tx)
  BY <1>3 DEF AddTransaction, ApplyTransaction
<1>9. Len(more.txs) <= Len(draft.txs) + 1 /\ Len(more.txs) \in Nat
  BY <1>4, <1>7, <1>8 DEF DraftType
<1>10. CASE again.refused
  <2>1. next = again
    BY <1>3, <1>10 DEF Reenter
  <2>2. Len(more.txs) < Len(new.txs)
    BY <1>4, <1>7, <1>9, <1>10
  <2> QED
    BY <1>4, <1>6, <1>10, <2>1, <2>2 DEF Rerunnable, new, next, more
<1>11. CASE ~ again.refused /\ ~ AcceptsTransaction(draft, tx)
  <2>1. Skips(next, again)
    BY <1>3, <1>4, <1>11, AddDoes DEF Reenter
  <2>2. Len(more.txs) < Len(new.txs)
    BY <1>3, <1>4, <1>7, <1>11 DEF AddTransaction
  <2> QED
    BY <1>6, <2>1, <2>2 DEF Skips, Rerunnable, new, next, more
<1>12. CASE ~ again.refused /\ AcceptsTransaction(draft, tx)
  <2>1. tx.from \in IdsOf(again.balances)
    BY <1>4, <1>12
  <2>2. EntersInto(next, again, tx)
    BY <1>3, <1>4, <1>12, <2>1, AddDoes DEF Reenter
  <2>3. ~ next.refused /\ ~ next.panicked /\ AsDraft(next) = ApplyTransaction(draft, tx)
    BY <1>4, <1>12, <2>2 DEF EntersInto
  <2>4. more = ApplyTransaction(draft, tx)
    BY <1>3, <1>12 DEF AddTransaction
  <2>5. more.txs = new.txs
    BY <1>1, <1>4, <1>12, <2>4 DEF ApplyTransaction
  <2>6. IdsOf(new.balances) \subseteq IdsOf(next.balances)
    BY <1>2, <1>4, <1>12, <2>2 DEF EntersInto
  <2> QED
    BY <1>6, <2>3, <2>4, <2>5, <2>6 DEF Rerunnable, new, next, more
<1> QED
  BY <1>10, <1>11, <1>12

-----------------------------------------------------------------------------
(* What holds of a block that a miner filled, or is filling.               *)

\* Only a transaction of total 0 panics, from an account without an entry.
PanickedOnNothing(blk) ==
  blk.panicked => /\ TotalOutput(Last(blk.txs)) = 0
                  /\ FindIndex(blk.balances, Last(blk.txs).from) = 0

FilledFrom(p, r) ==
  {blk \in WellBuilt : PanickedOnNothing(blk) /\ (blk.panicked \/ Rerunnable(p, r, blk))}

LEMMA AddKeepsFilled ==
  ASSUME NEW p \in Lists, NEW r \in Address \cup {NoAddress},
         NEW blk \in FilledFrom(p, r), NEW tx \in Transactions
  PROVE  AddTransactionToLists(blk, tx) \in FilledFrom(p, r)
<1> DEFINE new == AddTransactionToLists(blk, tx)
<1>1. /\ blk \in WellBuilt /\ PanickedOnNothing(blk)
      /\ blk.panicked \/ Rerunnable(p, r, blk)
  BY DEF FilledFrom
<1>2. new \in WellBuilt
  BY <1>1, AddKeepsBuilt
<1>3. CASE blk.panicked
  <2>1. new = blk
    BY <1>1, <1>3, AddDoes
  <2> QED
    BY <2>1
<1>4. CASE ~ blk.panicked /\ ~ AcceptsTransaction(AsDraft(blk), tx)
  <2>1. Skips(new, blk)
    BY <1>1, <1>4, AddDoes
  <2> HIDE DEF new
  <2>2. new.txs = blk.txs /\ new.balances = blk.balances /\ ~ new.panicked
    BY <2>1 DEF Skips, AsDraft
  <2>3. Rerunnable(p, r, new)
    BY <1>1, <1>4, <2>2 DEF Rerunnable
  <2> QED
    BY <1>2, <2>2, <2>3 DEF FilledFrom, PanickedOnNothing, new
<1>5. CASE ~ blk.panicked /\ AcceptsTransaction(AsDraft(blk), tx) /\ tx.from \in IdsOf(blk.balances)
  <2>1. EntersInto(new, blk, tx)
    BY <1>1, <1>5, AddDoes
  <2>2. Rerunnable(p, r, new)
    BY <1>1, <1>5, <2>1, AddKeepsRerunnable
  <2> QED
    BY <1>2, <2>1, <2>2 DEF FilledFrom, PanickedOnNothing, EntersInto
<1>6. CASE /\ ~ blk.panicked /\ AcceptsTransaction(AsDraft(blk), tx)
           /\ tx.from \notin IdsOf(blk.balances)
  <2>1. PanicsOn(new, blk, tx)
    BY <1>1, <1>6, AddDoes
  <2> HIDE DEF new
  <2>2. Last(new.txs) = tx
    <3>1. blk.txs \in Seq(Transactions) /\ new.txs = Append(blk.txs, tx)
      BY <1>1, <2>1 DEF WellBuilt, Building, PanicsOn
    <3> QED
      BY <3>1 DEF Last
  <2>3. FindIndex(new.balances, tx.from) = 0
    BY <1>1, <2>1, DraftOfBlock, NoEntryFound DEF PanicsOn
  <2> QED
    BY <1>2, <2>1, <2>2, <2>3 DEF FilledFrom, PanickedOnNothing, PanicsOn, new
<1> QED
  BY <1>3, <1>4, <1>5, <1>6

LEMMA FilledIsRerunnable ==
  ASSUME NEW p \in Lists, NEW r \in Address \cup {NoAddress}, NEW pool \in Seq(Transactions)
  PROVE  FillLists(p, pool) \in FilledFrom(p, r)
<1> DEFINE n    == Len(pool)
           base == CopyOf(p)
           I    == FilledFrom(p, r)
<1>1. n \in Nat /\ DOMAIN pool = 1 .. n /\ \A k \in 1 .. n : pool[k] \in Transactions
  OBVIOUS
<1>2. base \in I
  BY CopyIsBuilt, RerunOfNone DEF FilledFrom, PanickedOnNothing
<1>3. \A blk \in I, tx \in Transactions : AddTransactionToLists(blk, tx) \in I
  BY AddKeepsFilled
<1>4. FillLists(p, pool) = Filling!FoldTo(base, pool, n)
  BY <1>1, FillingIsFold DEF FillLists
<1> HIDE DEF n, base, I
<1>5. Filling!FoldTo(base, pool, n) \in I
  BY <1>1, <1>2, <1>3, Filling!FoldStaysIn
<1> QED
  BY <1>4, <1>5 DEF I

-----------------------------------------------------------------------------
(* The chain                                                               *)

FillingInv ==
  /\ head \in Lists
  /\ rewardAddr \in Address \cup {NoAddress}
  /\ height \in 0 .. MaxHeight
  /\ order \in Seq(Transactions) /\ Len(order) <= MaxOrder

LEMMA GenesisLists ==
  ListsOf(GenesisBlock) \in Lists /\ AsLedger(ListsOf(GenesisBlock)) = GenesisLedger
<1> DEFINE p == [balances |-> GenesisBalances, nextNonce |-> <<>>]
<1>1. ListsOf(GenesisBlock) = p
  BY DEF ListsOf, GenesisBlock, CopyOf
<1>2. Listed(GenesisBalances) /\ Listed(<<>>)
  BY FillingAssumption, OneEntryMeans DEF Listed, Entry
<1>3. p \in Lists
  BY <1>2 DEF Lists, Listed
<1>4. \A a : ValueOf(<<>>, a) = 0
  BY <1>2, NoEntryFound DEF IdsOf
<1>5. AsLedger(p) = [balances  |-> [a \in Address |-> ValueOf(GenesisBalances, a)],
                     nextNonce |-> [a \in Address |-> 0]]
  BY <1>4 DEF AsLedger
<1> QED
  BY <1>1, <1>3, <1>5, FillingAssumption DEF GenesisLedger

\* What the invariant says of the block that is being filled.
LEMMA FilledOnHead ==
  ASSUME FillingInv
  PROVE  /\ filled \in WellBuilt /\ PanickedOnNothing(filled)
         /\ ~ filled.panicked =>
              /\ AsDraft(filled) = FillBlock(AsLedger(head), order)
              /\ rerun \in WellBuilt /\ rerun.refused \in BOOLEAN
              /\ rerun.refused = ~ RerunSucceeds(parent, AsLedger(head), filled.txs)
              /\ ~ rerun.refused =>
                   AsDraft(rerun) = Rerun(parent, AsLedger(head), filled.txs)
<1>1. /\ head \in Lists /\ rewardAddr \in Address \cup {NoAddress}
      /\ order \in Seq(Transactions)
  BY DEF FillingInv
<1>2. filled = FillLists(head, order)
  BY DEF filled
<1>3. filled \in FilledFrom(head, rewardAddr)
  <2>1. FillLists(head, order) \in FilledFrom(head, rewardAddr)
    BY <1>1, FilledIsRerunnable
  <2> QED
    BY <1>2, <2>1
<1>4. ASSUME ~ filled.panicked
      PROVE  AsDraft(filled) = FillBlock(AsLedger(head), order)
  <2>1. ~ FillLists(head, order).panicked
    BY <1>2, <1>4
  <2>2. AsDraft(FillLists(head, order)) = FillBlock(AsLedger(head), order)
    BY <1>1, <2>1, FillsTheDraft
  <2> QED
    BY <1>2, <2>2
<1>5. ASSUME ~ filled.panicked
      PROVE  /\ rerun \in WellBuilt /\ rerun.refused \in BOOLEAN
             /\ rerun.refused = ~ RerunSucceeds(parent, AsLedger(head), filled.txs)
             /\ ~ rerun.refused =>
                  AsDraft(rerun) = Rerun(parent, AsLedger(head), filled.txs)
  <2> DEFINE draft == Rerun(parent, AsLedger(head), filled.txs)
  <2>1. Rerunnable(head, rewardAddr, filled)
    BY <1>3, <1>5 DEF FilledFrom
  <2>2. /\ rerun \in WellBuilt
        /\ IF rerun.refused THEN Len(draft.txs) < Len(filled.txs)
           ELSE AsDraft(rerun) = draft /\ draft.txs = filled.txs
    BY <2>1 DEF Rerunnable, rerun, parent
  <2>3. rerun.refused \in BOOLEAN
    BY <2>2 DEF WellBuilt, Building
  <2>4. draft.txs \in Seq(Transactions) /\ filled.txs \in Seq(Transactions)
    BY <1>3, <2>1 DEF Rerunnable, parent, DraftType, FilledFrom, WellBuilt, Building
  <2>5. rerun.refused => draft.txs # filled.txs
    BY <2>2, <2>4
  <2>6. RerunSucceeds(parent, AsLedger(head), filled.txs) <=> draft.txs = filled.txs
    BY DEF RerunSucceeds
  <2> HIDE DEF draft
  <2>7. rerun.refused = ~ RerunSucceeds(parent, AsLedger(head), filled.txs)
    <3>1. RerunSucceeds(parent, AsLedger(head), filled.txs) \in BOOLEAN
      BY DEF RerunSucceeds
    <3> QED
      BY <2>2, <2>3, <2>5, <2>6, <3>1
  <2> QED
    BY <2>2, <2>3, <2>7 DEF draft
<1> QED
  BY <1>3, <1>4, <1>5 DEF FilledFrom

\* The lists of the chain keep one entry for an account, so that they can be
\* read as functions (block.go: FindBalanceIndex, FindNextNonceIndex).
THEOREM FillingInvariant == Spec => []FillingInv
<1>1. Init => FillingInv
  <2> SUFFICES ASSUME Init PROVE FillingInv
    OBVIOUS
  <2>1. Len(<<>>) = 0 /\ <<>> \in Seq(Transactions) /\ 0 \in 0 .. MaxHeight /\ 0 <= MaxOrder
    BY FillingAssumption
  <2> QED
    BY <2>1, GenesisLists DEF Init, FillingInv
<1>2. FillingInv /\ [Next]_vars => FillingInv'
  <2> SUFFICES ASSUME FillingInv, [Next]_vars PROVE FillingInv'
    OBVIOUS
  <2>1. ASSUME NEW tx \in Transactions, Pool(tx) PROVE FillingInv'
    <3>1. order' = Append(order, tx) /\ Len(order) < MaxOrder /\ order \in Seq(Transactions)
      BY <2>1 DEF Pool, FillingInv
    <3>2. order' \in Seq(Transactions) /\ Len(order') <= MaxOrder
      BY <3>1, FillingAssumption
    <3> QED
      BY <2>1, <3>2 DEF Pool, FillingInv
  <2>2. ASSUME NEW m \in Address, Accept(m) PROVE FillingInv'
    <3>1. rerun \in WellBuilt
      BY <2>2, FilledOnHead DEF Accept
    <3>2. head' \in Lists
      BY <2>2, <3>1 DEF Accept, ListsOf, WellBuilt, Building, Lists
    <3>3. Len(<<>>) = 0 /\ <<>> \in Seq(Transactions) /\ 0 <= MaxOrder
      BY FillingAssumption
    <3>4. height' \in 0 .. MaxHeight
      BY <2>2, FillingAssumption DEF Accept, FillingInv
    <3> QED
      BY <2>2, <3>2, <3>3, <3>4 DEF Accept, FillingInv
  <2>3. CASE UNCHANGED vars
    BY <2>3 DEF FillingInv, vars
  <2> QED
    BY <2>1, <2>2, <2>3 DEF Next
<1> QED
  BY <1>1, <1>2, PTL DEF Spec

\* AddTransaction and Rerun, which search lists, compute the functions of the
\* ledger, on every chain and for every pool.
THEOREM ListsAreTheLedger == Spec => []ListsKeepTheLedger
<1>1. FillingInv => ListsKeepTheLedger
  <2> SUFFICES ASSUME FillingInv, ~ filled.panicked
               PROVE  /\ AsDraft(filled) = FillBlock(AsLedger(head), order)
                      /\ rerun.refused = ~ RerunSucceeds(parent, AsLedger(head), filled.txs)
                      /\ ~ rerun.refused =>
                           AsLedger(rerun) = LedgerAfter(parent, AsLedger(head), filled.txs)
                      /\ \A blk \in {filled, rerun} :
                           OneEntryEach(blk.balances) /\ OneEntryEach(blk.nextNonce)
    BY DEF ListsKeepTheLedger
  <2>1. /\ AsDraft(filled) = FillBlock(AsLedger(head), order)
        /\ filled \in WellBuilt /\ rerun \in WellBuilt
        /\ rerun.refused = ~ RerunSucceeds(parent, AsLedger(head), filled.txs)
    BY FilledOnHead
  <2>2. ASSUME ~ rerun.refused
        PROVE  AsLedger(rerun) = LedgerAfter(parent, AsLedger(head), filled.txs)
    <3>1. AsDraft(rerun) = Rerun(parent, AsLedger(head), filled.txs)
      BY <2>2, FilledOnHead
    <3>2. AsLedger(rerun) = [balances  |-> AsDraft(rerun).balances,
                             nextNonce |-> AsDraft(rerun).nextNonce]
      BY DEF AsDraft, AsLedger
    <3> QED
      BY <3>1, <3>2 DEF LedgerAfter
  <2> QED
    BY <2>1, <2>2 DEF WellBuilt
<1> QED
  BY <1>1, FillingInvariant, PTL

\* AddTransaction never indexes with -1 (block.go:252) for a transaction that
\* gives anything away.
THEOREM NothingElsePanics == Spec => []OnlyNothingPanics
<1>1. FillingInv => OnlyNothingPanics
  BY FilledOnHead DEF PanickedOnNothing, OnlyNothingPanics
<1> QED
  BY <1>1, FillingInvariant, PTL

-----------------------------------------------------------------------------
(* Blocks of transactions that fit into uint32.  The pool may hold others: *)
(* only what a block has entered matters.                                  *)

Fitting == {tx \in Transactions : ExactTotal(tx) < UintRange}

AllFit(txs) == \A i \in DOMAIN txs : ExactTotal(txs[i]) < UintRange

LEMMA StartIsNat ==
  /\ StartingBalances \in [Address -> Amount]
  /\ COINBASE_AMT_ALLOWED \in Nat /\ UintRange \in Nat
  /\ Transactions \subseteq WellFormed
  BY LedgerAssumption, FillingAssumption DEF WellFormed, Amount

LEMMA FittingFits ==
  /\ Fitting \subseteq WellFormed /\ Fits(Fitting)
  /\ \A txs \in Seq(Transactions) : AllFit(txs) => txs \in Seq(Fitting)
<1>1. Fitting \subseteq WellFormed /\ Fits(Fitting)
  BY StartIsNat DEF Fitting, Fits
<1>2. ASSUME NEW txs \in Seq(Transactions), AllFit(txs)
      PROVE  txs \in Seq(Fitting)
  <2>1. \A i \in DOMAIN txs : txs[i] \in Fitting
    BY <1>2 DEF Fitting, AllFit
  <2> HIDE DEF Fitting
  <2> QED
    BY <2>1
<1> QED
  BY <1>1, <1>2

\* What a block has entered, entered once more, gives the block: the
\* transactions that it left out had no effect.
LEMMA EnteredIsEnough ==
  ASSUME NEW ledger \in LedgerType, NEW pool \in Seq(Transactions)
  PROVE  FillBlock(ledger, FillBlock(ledger, pool).txs) = FillBlock(ledger, pool)
<1> DEFINE n    == Len(pool)
           base == NewDraft(ledger)
           I    == {d \in DraftType(Transactions) : FoldLeft(AddTransaction, base, d.txs) = d}
<1>1. n \in Nat /\ DOMAIN pool = 1 .. n /\ \A k \in 1 .. n : pool[k] \in Transactions
  OBVIOUS
<1>2. base \in I
  <2>1. base \in DraftType(Transactions) /\ base.txs = <<>>
    BY StartIsNat, NewDraftType DEF NewDraft
  <2>2. DOMAIN <<>> = 1 .. 0 /\ 0 \in Nat
    OBVIOUS
  <2> HIDE DEF base
  <2>3. FoldLeft(AddTransaction, base, <<>>) = Add!FoldTo(base, <<>>, 0)
    BY <2>2, AddIsFold
  <2>4. Add!FoldTo(base, <<>>, 0) = base
    BY <2>2, Add!FoldTrace
  <2> QED
    BY <2>1, <2>3, <2>4
<1>3. ASSUME NEW d \in I, NEW tx \in Transactions
      PROVE  AddTransaction(d, tx) \in I
  <2> DEFINE new == AddTransaction(d, tx)
             m   == Len(d.txs)
  <2>1. new \in DraftType(Transactions)
    BY StartIsNat, AddKeepsType
  <2>2. CASE ~ AcceptsTransaction(d, tx)
    BY <2>2 DEF AddTransaction
  <2>3. CASE AcceptsTransaction(d, tx)
    <3>1. new.txs = Append(d.txs, tx) /\ d.txs \in Seq(Transactions)
      BY <2>3 DEF AddTransaction, ApplyTransaction, DraftType
    <3> HIDE DEF new, base
    <3> DEFINE old == d.txs
               all == new.txs
    <3>2. /\ m \in Nat /\ DOMAIN old = 1 .. m
          /\ m + 1 \in Nat /\ DOMAIN all = 1 .. m + 1 /\ all[m + 1] = tx
          /\ \A k \in 1 .. m : all[k] = old[k]
      BY <3>1
    <3> HIDE DEF old, all, m
    <3>3. /\ FoldLeft(AddTransaction, base, old) = Add!FoldTo(base, old, m)
          /\ FoldLeft(AddTransaction, base, all) = Add!FoldTo(base, all, m + 1)
      BY <3>2, AddIsFold
    <3>4. Add!FoldTo(base, all, m + 1) = AddTransaction(Add!FoldTo(base, old, m), all[m + 1])
      <4>1. m \in Nat /\ \A k \in 1 .. m : all[k] = old[k]
        BY <3>2
      <4>2. \A b : Add!FoldTo(b, all, m + 1) = AddTransaction(Add!FoldTo(b, old, m), all[m + 1])
        BY ONLY <4>1, Add!FoldAppend
      <4> QED
        BY ONLY <4>2
    <3>5. FoldLeft(AddTransaction, base, old) = d
      BY DEF old
    <3>6. FoldLeft(AddTransaction, base, all) = new
      BY <3>2, <3>3, <3>4, <3>5 DEF new
    <3> QED
      BY <2>1, <3>6 DEF new, all
  <2> QED
    BY <2>2, <2>3
<1>4. FillBlock(ledger, pool) = Add!FoldTo(base, pool, n)
  BY <1>1, AddIsFold DEF FillBlock
<1> HIDE DEF n, I
<1>5. Add!FoldTo(base, pool, n) \in I
  BY <1>1, <1>2, <1>3, Add!FoldStaysIn
<1> QED
  BY <1>4, <1>5 DEF I, FillBlock

\* Every receiver accepts what a miner fills from any pool, on any chain, as
\* long as nothing in the block wraps (StartNewSearch against Rerun).
THEOREM FilledBlocksAreReplayed == Spec => []FilledBlocksReplay
<1>1. FillingInv => FilledBlocksReplay
  <2> SUFFICES ASSUME FillingInv, NothingWraps, ~ filled.panicked
               PROVE  RerunSucceeds(parent, AsLedger(head), filled.txs)
    BY DEF FilledBlocksReplay
  <2> DEFINE ledger == AsLedger(head)
             txs    == filled.txs
  <2>1. ledger \in LedgerType /\ parent.rewardAddr \in Address \cup {NoAddress}
    BY CopyIsBuilt DEF FillingInv, parent
  <2>2. txs = FillBlock(ledger, order).txs
    <3>1. AsDraft(filled) = FillBlock(AsLedger(head), order)
      BY FilledOnHead
    <3> QED
      BY <3>1 DEF AsDraft
  <2>3. txs \in Seq(Transactions) /\ AllFit(txs) /\ order \in Seq(Transactions)
    BY FilledOnHead DEF WellBuilt, Building, NothingWraps, AllFit, FillingInv
  <2>4. TotalOf(ledger.balances) + RewardOf(parent) < UintRange
    BY DEF NothingWraps, RewardDue, RewardOf, parent
  <2> HIDE DEF ledger, txs
  <2>5. txs \in Seq(Fitting) /\ FillBlock(ledger, txs).txs = txs
    <3>1. FillBlock(ledger, FillBlock(ledger, order).txs) = FillBlock(ledger, order)
      BY <2>1, <2>3, EnteredIsEnough
    <3> QED
      BY <2>2, <2>3, <3>1, FittingFits
  <2>6. RerunSucceeds(parent, ledger, FillBlock(ledger, txs).txs)
    BY <2>1, <2>4, <2>5, FittingFits, FilledReplays
  <2> QED
    BY <2>5, <2>6 DEF ledger, txs
<1> QED
  BY <1>1, FillingInvariant, PTL

-----------------------------------------------------------------------------
(* The books                                                               *)

\* What the transactions in a sequence add up to, by the measure f.
MeasureOf(f, txs) == SumFunction([i \in DOMAIN txs |-> f[txs[i]]])

LEMMA NoMeasure ==
  ASSUME NEW f
  PROVE  MeasureOf(f, <<>>) = 0
<1>1. MeasureOf(f, <<>>) = SumOver([i \in DOMAIN <<>> |-> f[<<>>[i]]], {})
  <2>1. DOMAIN <<>> = {}
    OBVIOUS
  <2> QED
    BY <2>1 DEF MeasureOf, SumFunction, SumOver
<1> QED
  BY <1>1, FiniteUnion, SumTakesAny

LEMMA MeasureGrows ==
  ASSUME NEW S, NEW f \in [S -> Nat], NEW txs \in Seq(S), NEW tx \in S
  PROVE  /\ MeasureOf(f, txs) \in Nat
         /\ MeasureOf(f, Append(txs, tx)) = MeasureOf(f, txs) + f[tx]
<1> DEFINE n   == Len(txs)
           new == Append(txs, tx)
           g   == [i \in DOMAIN txs |-> f[txs[i]]]
           h   == [i \in DOMAIN new |-> f[new[i]]]
<1>1. /\ n \in Nat /\ DOMAIN txs = 1 .. n /\ DOMAIN new = 1 .. n + 1
      /\ \A i \in 1 .. n : new[i] = txs[i] /\ txs[i] \in S
      /\ new[n + 1] = tx
  OBVIOUS
<1>2. MeasureOf(f, txs) = SumOver(g, 1 .. n) /\ MeasureOf(f, new) = SumOver(h, 1 .. n + 1)
  BY <1>1 DEF MeasureOf, SumFunction, SumOver
<1>3. /\ \A i \in 1 .. n : g[i] = h[i]
      /\ \A i \in 1 .. n + 1 : h[i] \in Nat
      /\ h[n + 1] = f[tx]
  <2>1. \A i \in 1 .. n + 1 : i \in 1 .. n \/ i = n + 1
    BY <1>1
  <2> QED
    BY <1>1, <2>1
<1> HIDE DEF n, g, h, new
<1>4. SumOver(g, 1 .. n) = SumOver(h, 1 .. n)
  <2>1. Finite(1 .. n)
    BY <1>1, FS_Interval DEF Finite
  <2> QED
    BY <1>3, <2>1, SumDepends
<1>5. /\ SumOver(h, 1 .. n + 1) = SumOver(h, 1 .. n) + h[n + 1]
      /\ SumOver(h, 1 .. n) \in Nat
  BY <1>1, <1>3, SumExtends
<1> QED
  BY <1>2, <1>3, <1>4, <1>5 DEF new

\* The outputs of tx to a, the first k of them.
ToAccount(a, tx) ==
  [k \in DOMAIN tx.outputs |-> IF tx.outputs[k].address = a THEN tx.outputs[k].amount ELSE 0]

LEMMA CreditsAreReceived ==
  ASSUME NEW tx \in WellFormed, NEW bal \in [Address -> Amount],
         TotalOf(bal) + PaidBy(tx, Len(tx.outputs)) < UintRange, NEW a \in Address
  PROVE  /\ ReceivedBy(a, tx) \in Nat
         /\ FoldLeft(CreditOutput, bal, tx.outputs)[a] = bal[a] + ReceivedBy(a, tx)
<1> DEFINE n == Len(tx.outputs)
           f == ToAccount(a, tx)
<1>1. /\ n \in Nat /\ DOMAIN tx.outputs = 1 .. n
      /\ \A k \in 1 .. n : /\ tx.outputs[k].address \in Address
                           /\ tx.outputs[k].amount \in Nat
  BY OutputsAreAmounts
<1>2. PICK v : IsCredited(v, bal, tx)
  BY CreditsAreExact
<1>3. /\ v[0] = bal /\ FoldLeft(CreditOutput, bal, tx.outputs) = v[n]
      /\ \A k \in 0 .. n - 1 :
           v[k + 1] = Plus(v[k], tx.outputs[k + 1].address, tx.outputs[k + 1].amount)
      /\ \A k \in 0 .. n : v[k] \in [Address -> Amount]
  BY <1>2 DEF IsCredited
<1>4. ReceivedBy(a, tx) = SumOver(f, 1 .. n)
  BY <1>1 DEF ReceivedBy, ToAccount, SumFunction, SumOver
<1>5. \A k \in 1 .. n : /\ f[k] = IF tx.outputs[k].address = a THEN tx.outputs[k].amount ELSE 0
                        /\ f[k] \in Nat
  BY <1>1 DEF ToAccount
<1> HIDE DEF n, f
<1>6. \A k \in 0 .. n : \A x \in Address : v[k][x] \in Nat
  BY <1>3, LedgerAssumption DEF Amount
<1>7. SumOver(f, 1 .. 0) = 0
  <2>1. 1 .. 0 = {}
    OBVIOUS
  <2> QED
    BY <2>1, FiniteUnion, SumTakesAny
<1> DEFINE T == {k \in Nat : k <= n =>
                   SumOver(f, 1 .. k) \in Nat /\ v[k][a] = bal[a] + SumOver(f, 1 .. k)}
<1>8. 0 \in T
  <2>1. bal[a] \in Nat
    BY <1>1, <1>3, <1>6
  <2> QED
    BY <1>3, <1>7, <2>1
<1>9. ASSUME NEW k \in Nat, k \in T
      PROVE  k + 1 \in T
  <2> SUFFICES ASSUME k + 1 <= n
               PROVE  /\ SumOver(f, 1 .. k + 1) \in Nat
                      /\ v[k + 1][a] = bal[a] + SumOver(f, 1 .. k + 1)
    OBVIOUS
  <2>1. /\ k \in 0 .. n - 1 /\ k \in 0 .. n /\ k + 1 \in 1 .. n
        /\ \A i \in 1 .. k + 1 : i \in 1 .. n
        /\ 0 \in 0 .. n
    BY <1>1
  <2> DEFINE x == tx.outputs[k + 1].address
             g == tx.outputs[k + 1].amount
             r == SumOver(f, 1 .. k)
  <2>2. x \in Address /\ g \in Nat /\ v[k + 1] = Plus(v[k], x, g)
    BY <1>1, <1>3, <2>1
  <2>3. v[k][a] \in Nat /\ bal[a] \in Nat /\ r \in Nat /\ v[k][a] = bal[a] + r
    BY <1>3, <1>6, <1>9, <2>1
  <2>4. f[k + 1] = IF x = a THEN g ELSE 0
    BY <1>5, <2>1
  <2>5. SumOver(f, 1 .. k + 1) = r + f[k + 1]
    <3>1. \A i \in 1 .. k + 1 : f[i] \in Nat
      BY <1>5, <2>1
    <3> QED
      BY <3>1, SumExtends
  <2> HIDE DEF x, g, r
  <2>6. v[k + 1][a] = v[k][a] + (IF a = x THEN g ELSE 0)
    BY <1>3, <2>1, <2>2, <2>3 DEF Plus
  <2> QED
    BY <2>2, <2>3, <2>4, <2>5, <2>6
<1> HIDE DEF T
<1>10. n \in T
  BY <1>1, <1>8, <1>9, Add!NatSetInduction
<1> QED
  BY <1>1, <1>3, <1>4, <1>10 DEF T

\* What a draft has entered, a has received and given away, to the coin.
Kept(draft, a, first) ==
  draft.balances[a] = first + MeasureOf([tx \in Transactions |-> ReceivedBy(a, tx)], draft.txs)
                            - MeasureOf([tx \in Transactions |-> TakenFrom(a, tx)], draft.txs)

AllSigned(txs) == \A i \in DOMAIN txs : txs[i].signed

LEMMA MeasuresAreNat ==
  ASSUME NEW a \in Address
  PROVE  /\ [tx \in Transactions |-> ReceivedBy(a, tx)] \in [Transactions -> Nat]
         /\ [tx \in Transactions |-> TakenFrom(a, tx)] \in [Transactions -> Nat]
<1> SUFFICES ASSUME NEW tx \in Transactions
             PROVE  ReceivedBy(a, tx) \in Nat /\ TakenFrom(a, tx) \in Nat
  OBVIOUS
<1>1. tx \in WellFormed /\ tx.fee \in Nat
  BY StartIsNat, LedgerAssumption DEF WellFormed, Amount
<1>2. PaidBy(tx, Len(tx.outputs)) \in Nat /\ ExactTotal(tx) = tx.fee + PaidBy(tx, Len(tx.outputs))
  <2>1. Len(tx.outputs) \in 0 .. Len(tx.outputs)
    BY <1>1, OutputsAreAmounts
  <2> QED
    BY <1>1, <2>1, PaymentGrows
<1>3. ExactTotal(tx) \in Nat
  BY <1>1, <1>2
<1>4. ReceivedBy(a, tx) \in Nat
  <2> DEFINE s == DOMAIN tx.outputs
             f == ToAccount(a, tx)
  <2>1. ReceivedBy(a, tx) = SumOver(f, s)
    BY DEF ReceivedBy, ToAccount, SumFunction, SumOver
  <2>2. /\ s = 1 .. Len(tx.outputs) /\ Len(tx.outputs) \in Nat
        /\ \A k \in s : tx.outputs[k].amount \in Nat
    BY <1>1, OutputsAreAmounts
  <2>3. \A k \in s : f[k] \in Nat
    BY <2>2 DEF ToAccount
  <2>4. Finite(s)
    <3> HIDE DEF s
    <3> QED
      BY <2>2, FS_Interval DEF Finite
  <2> HIDE DEF s, f
  <2> QED
    BY <2>1, <2>3, <2>4, SumTakesEach
<1> QED
  BY <1>3, <1>4 DEF TakenFrom

LEMMA AddKeepsBooks ==
  ASSUME NEW draft \in DraftType(Transactions), NEW tx \in Fitting,
         GoldIn(draft) < UintRange, NEW a \in Address, NEW first \in Nat,
         Kept(draft, a, first)
  PROVE  Kept(AddTransaction(draft, tx), a, first)
<1> DEFINE new == AddTransaction(draft, tx)
           f   == [t \in Transactions |-> ReceivedBy(a, t)]
           g   == [t \in Transactions |-> TakenFrom(a, t)]
           bal == draft.balances
           low == Debited(bal, tx)
           n   == Len(tx.outputs)
<1>1. CASE ~ AcceptsTransaction(draft, tx)
  BY <1>1 DEF AddTransaction
<1>2. CASE AcceptsTransaction(draft, tx)
  <2>1. /\ tx \in Transactions /\ tx \in WellFormed /\ tx.from \in Address /\ tx.fee \in Nat
        /\ ExactTotal(tx) < UintRange
        /\ bal \in [Address -> Amount] /\ draft.txs \in Seq(Transactions)
        /\ draft.txs \in Seq(WellFormed)
        /\ TotalOutput(tx) <= bal[tx.from]
    <3>1. /\ tx \in Transactions /\ tx \in WellFormed /\ ExactTotal(tx) < UintRange
          /\ Transactions \subseteq WellFormed
      BY StartIsNat DEF Fitting
    <3>2. tx.from \in Address /\ tx.fee \in Nat
      BY <3>1, LedgerAssumption DEF WellFormed, Amount
    <3>3. bal \in [Address -> Amount] /\ draft.txs \in Seq(Transactions)
      BY DEF DraftType
    <3>4. draft.txs \in Seq(WellFormed)
      BY <3>1, <3>3
    <3>5. TotalOutput(tx) <= bal[tx.from]
      BY <1>2 DEF AcceptsTransaction
    <3> QED
      BY <3>1, <3>2, <3>3, <3>4, <3>5
  <2>2. new.txs = Append(draft.txs, tx)
        /\ new.balances = FoldLeft(CreditOutput, low, tx.outputs)
    BY <1>2 DEF AddTransaction, ApplyTransaction, CreditOutput, Debited
  <2>4. f \in [Transactions -> Nat] /\ g \in [Transactions -> Nat]
    BY MeasuresAreNat
  <2>5. f[tx] = ReceivedBy(a, tx) /\ g[tx] = TakenFrom(a, tx)
    BY <2>1
  <2>6. Kept(draft, a, first) <=> bal[a] = first + MeasureOf(f, draft.txs) - MeasureOf(g, draft.txs)
    BY DEF Kept
  <2>7. Kept(new, a, first) <=>
          new.balances[a] = first + MeasureOf(f, new.txs) - MeasureOf(g, new.txs)
    BY DEF Kept
  <2> HIDE DEF new, f, g
  <2>8. /\ MeasureOf(f, draft.txs) \in Nat /\ MeasureOf(g, draft.txs) \in Nat
        /\ MeasureOf(f, new.txs) = MeasureOf(f, draft.txs) + f[tx]
        /\ MeasureOf(g, new.txs) = MeasureOf(g, draft.txs) + g[tx]
    <3> DEFINE old == draft.txs
               all == new.txs
    <3>1. tx \in Transactions /\ old \in Seq(Transactions) /\ all = Append(old, tx)
      BY <2>1, <2>2
    <3> HIDE DEF old, all
    <3>2. \A h \in [Transactions -> Nat] :
            MeasureOf(h, old) \in Nat /\ MeasureOf(h, all) = MeasureOf(h, old) + h[tx]
      BY ONLY <3>1, MeasureGrows
    <3> QED
      BY <2>4, <3>2 DEF old, all
  <2>9. /\ low \in [Address -> Amount]
        /\ low[a] = IF a = tx.from THEN bal[a] - ExactTotal(tx) ELSE bal[a]
        /\ TotalOf(low) = TotalOf(bal) - ExactTotal(tx)
    BY <2>1, DebitIsExact
  <2>10. PaidBy(tx, n) \in Nat /\ ExactTotal(tx) = tx.fee + PaidBy(tx, n)
    <3>1. n \in 0 .. n
      BY <2>1, OutputsAreAmounts
    <3> QED
      BY <2>1, <3>1, PaymentGrows
  <2>11. TotalOf(bal) \in Nat /\ TotalOf(bal) < UintRange /\ UintRange \in Nat
    <3>1. FeesOf(draft.txs) \in Nat /\ TotalOf(bal) \in Nat
      BY <2>1, FeesGrow, TotalIsSum
    <3> QED
      BY <3>1, StartIsNat DEF GoldIn
  <2> HIDE DEF bal, low, n
  <2>12. TotalOf(low) + PaidBy(tx, n) < UintRange
    BY <2>1, <2>9, <2>10, <2>11
  <2>13. /\ ReceivedBy(a, tx) \in Nat
         /\ new.balances[a] = low[a] + ReceivedBy(a, tx)
    BY <2>1, <2>2, <2>9, <2>12, CreditsAreReceived DEF n
  <2>14. low[a] = bal[a] - TakenFrom(a, tx) /\ TakenFrom(a, tx) \in Int /\ bal[a] \in Int
    <3>1. bal[a] \in Nat /\ ExactTotal(tx) \in Nat
      BY <2>1, <2>10, LedgerAssumption DEF Amount
    <3> QED
      BY <2>9, <3>1 DEF TakenFrom
  <2>15. new.balances[a] = first + MeasureOf(f, new.txs) - MeasureOf(g, new.txs)
    BY <2>5, <2>6, <2>8, <2>13, <2>14
  <2> QED
    BY <2>7, <2>15 DEF new
<1> QED
  BY <1>1, <1>2

\* A transaction of total 0 gives nothing to anyone.
LEMMA NothingIsReceived ==
  ASSUME NEW tx \in WellFormed, ExactTotal(tx) = 0, NEW a \in Address
  PROVE  ReceivedBy(a, tx) = 0 /\ TakenFrom(a, tx) = 0
<1> DEFINE n == Len(tx.outputs)
           s == 1 .. n
           f == [i \in DOMAIN tx.outputs |-> tx.outputs[i].amount]
           g == ToAccount(a, tx)
<1>1. /\ n \in Nat /\ DOMAIN tx.outputs = s
      /\ \A k \in s : tx.outputs[k].amount \in Nat
  BY OutputsAreAmounts
<1>2. SumOver(f, s) = 0
  <2>1. n \in 0 .. n
    BY <1>1
  <2>2. PaidBy(tx, n) \in Nat /\ ExactTotal(tx) = tx.fee + PaidBy(tx, n) /\ tx.fee \in Nat
    BY <2>1, PaymentGrows, LedgerAssumption DEF WellFormed, Amount
  <2> QED
    BY <2>2 DEF PaidBy
<1>3. Finite(s) /\ \A k \in s : f[k] \in Nat
  BY <1>1, FS_Interval DEF Finite
<1>4. \A k \in s : g[k] = f[k] \/ g[k] = 0
  BY <1>1 DEF ToAccount
<1>5. ReceivedBy(a, tx) = SumOver(g, s)
  BY <1>1 DEF ReceivedBy, ToAccount, SumFunction, SumOver
<1> HIDE DEF n, s, f, g
<1>6. \A k \in s : f[k] = 0
  <2> SUFFICES ASSUME NEW k \in s PROVE f[k] = 0
    OBVIOUS
  <2>1. SumOver(f, s \ {k}) \in Nat /\ SumOver(f, s) = f[k] + SumOver(f, s \ {k})
    BY <1>3, SumTakesEach
  <2> QED
    BY <1>2, <1>3, <2>1
<1>7. SumOver(g, s) = SumOver(f, s)
  <2>1. \A k \in s : g[k] = f[k]
    BY <1>4, <1>6
  <2> QED
    BY <1>3, <2>1, SumDepends
<1> QED
  BY <1>2, <1>5, <1>7 DEF TakenFrom

\* The books of a block, which a panic leaves in order.
BooksOf(a, first) ==
  {blk \in WellBuilt :
     /\ AllSigned(blk.txs)
     /\ AllFit(blk.txs) =>
          /\ blk.panicked \/ GoldIn(AsDraft(blk)) < UintRange
          /\ Kept(AsDraft(blk), a, first)}

\* All of a longer sequence are signed, or fit, if the one more does.
LEMMA OneMore ==
  ASSUME NEW txs \in Seq(Transactions), NEW tx \in Transactions
  PROVE  /\ AllSigned(Append(txs, tx)) <=> AllSigned(txs) /\ tx.signed
         /\ AllFit(Append(txs, tx)) <=> AllFit(txs) /\ ExactTotal(tx) < UintRange
<1> DEFINE n   == Len(txs)
           all == Append(txs, tx)
<1>1. /\ DOMAIN txs = 1 .. n /\ n \in Nat /\ DOMAIN all = 1 .. n + 1
      /\ all[n + 1] = tx /\ n + 1 \in 1 .. n + 1
      /\ \A i \in 1 .. n : all[i] = txs[i] /\ i \in 1 .. n + 1
  OBVIOUS
<1>2. \A i \in 1 .. n + 1 : i \in 1 .. n \/ i = n + 1
  BY <1>1
<1> HIDE DEF n, all
<1>3. AllSigned(all) <=> AllSigned(txs) /\ tx.signed
  BY <1>1, <1>2 DEF AllSigned
<1>4. AllFit(all) <=> AllFit(txs) /\ ExactTotal(tx) < UintRange
  BY <1>1, <1>2 DEF AllFit
<1> QED
  BY <1>3, <1>4 DEF all

LEMMA PanicKeepsBooks ==
  ASSUME NEW blk \in WellBuilt, NEW tx \in Fitting,
         NEW new, PanicsOn(new, blk, tx), NEW a \in Address, NEW first \in Nat,
         Kept(AsDraft(blk), a, first)
  PROVE  Kept(AsDraft(new), a, first)
<1> DEFINE f == [t \in Transactions |-> ReceivedBy(a, t)]
           g == [t \in Transactions |-> TakenFrom(a, t)]
<1>1. /\ new.balances = blk.balances /\ new.txs = Append(blk.txs, tx)
      /\ TotalOutput(tx) = 0 /\ blk.txs \in Seq(Transactions) /\ tx \in Transactions
  BY DEF PanicsOn, WellBuilt, Building, Fitting
<1>2. f[tx] = 0 /\ g[tx] = 0
  <2>1. tx \in WellFormed /\ ExactTotal(tx) < UintRange
    BY StartIsNat DEF Fitting
  <2>2. ExactTotal(tx) = 0
    BY <1>1, <2>1, TotalIsExact
  <2> QED
    BY <1>1, <2>1, <2>2, NothingIsReceived
<1>3. f \in [Transactions -> Nat] /\ g \in [Transactions -> Nat]
  BY MeasuresAreNat
<1>4. /\ Kept(AsDraft(blk), a, first) <=>
           AsDraft(blk).balances[a] = first + MeasureOf(f, blk.txs) - MeasureOf(g, blk.txs)
      /\ Kept(AsDraft(new), a, first) <=>
           AsDraft(new).balances[a] = first + MeasureOf(f, new.txs) - MeasureOf(g, new.txs)
  BY DEF Kept, AsDraft
<1>5. AsDraft(new).balances = AsDraft(blk).balances
  BY <1>1 DEF AsDraft, AsLedger
<1> HIDE DEF f, g
<1>6. MeasureOf(f, new.txs) = MeasureOf(f, blk.txs) /\ MeasureOf(g, new.txs) = MeasureOf(g, blk.txs)
  <2>1. MeasureOf(f, blk.txs) \in Nat /\ MeasureOf(f, new.txs) = MeasureOf(f, blk.txs) + f[tx]
    BY <1>1, <1>3, MeasureGrows
  <2>2. MeasureOf(g, blk.txs) \in Nat /\ MeasureOf(g, new.txs) = MeasureOf(g, blk.txs) + g[tx]
    BY <1>1, <1>3, MeasureGrows
  <2> QED
    BY <1>2, <2>1, <2>2
<1> QED
  BY <1>4, <1>5, <1>6

LEMMA AddKeepsBlockBooks ==
  ASSUME NEW a \in Address, NEW first \in Nat,
         NEW blk \in BooksOf(a, first), NEW tx \in Transactions
  PROVE  AddTransactionToLists(blk, tx) \in BooksOf(a, first)
<1> DEFINE new   == AddTransactionToLists(blk, tx)
           draft == AsDraft(blk)
<1>1. /\ blk \in WellBuilt /\ AllSigned(blk.txs)
      /\ blk.txs \in Seq(Transactions) /\ draft.txs = blk.txs
      /\ AllFit(blk.txs) => /\ blk.panicked \/ GoldIn(draft) < UintRange
                            /\ Kept(draft, a, first)
  BY DEF BooksOf, WellBuilt, Building, AsDraft
<1>2. new \in WellBuilt /\ draft \in DraftType(Transactions)
  BY <1>1, AddKeepsBuilt, DraftOfBlock
<1>3. CASE blk.panicked
  <2>1. new = blk
    BY <1>1, <1>3, AddDoes
  <2> QED
    BY <2>1
<1>4. CASE ~ blk.panicked /\ ~ AcceptsTransaction(draft, tx)
  <2>1. Skips(new, blk)
    BY <1>1, <1>4, AddDoes
  <2>2. AsDraft(new) = draft
    BY <2>1 DEF Skips
  <2>3. new.txs = blk.txs
    BY <2>2 DEF AsDraft
  <2> HIDE DEF new, draft
  <2> QED
    BY <1>1, <1>2, <1>4, <2>2, <2>3 DEF BooksOf, new
<1>5. CASE ~ blk.panicked /\ AcceptsTransaction(draft, tx) /\ tx.from \in IdsOf(blk.balances)
  <2>1. EntersInto(new, blk, tx)
    BY <1>1, <1>5, AddDoes
  <2>2. AsDraft(new) = AddTransaction(draft, tx)
    BY <1>5, <2>1 DEF EntersInto, AddTransaction
  <2>3. new.txs = Append(blk.txs, tx) /\ tx.signed
    <3>1. AddTransaction(draft, tx).txs = Append(draft.txs, tx) /\ tx.signed
      BY <1>5 DEF AddTransaction, ApplyTransaction, AcceptsTransaction
    <3>2. AsDraft(new).txs = new.txs
      BY DEF AsDraft
    <3> QED
      BY <1>1, <2>2, <3>1, <3>2
  <2> HIDE DEF new, draft
  <2>4. AllSigned(new.txs) /\ (AllFit(new.txs) => AllFit(blk.txs) /\ ExactTotal(tx) < UintRange)
    BY <1>1, <2>3, OneMore
  <2>5. ASSUME AllFit(new.txs)
        PROVE  GoldIn(AsDraft(new)) < UintRange /\ Kept(AsDraft(new), a, first)
    <3>1. tx \in Fitting /\ GoldIn(draft) < UintRange /\ Kept(draft, a, first)
      BY <1>1, <1>5, <2>4, <2>5 DEF Fitting
    <3>2. draft \in DraftType(Fitting)
      <4>1. draft.txs \in Seq(Fitting)
        BY <1>1, <2>4, <2>5, FittingFits
      <4> QED
        BY <1>2, <4>1 DEF DraftType
    <3>3. GoldIn(AddTransaction(draft, tx)) = GoldIn(draft)
      BY <3>1, <3>2, FittingFits, AddKeepsGold
    <3> QED
      BY <1>2, <2>2, <3>1, <3>3, AddKeepsBooks
  <2> QED
    BY <1>2, <2>4, <2>5 DEF BooksOf, new
<1>6. CASE ~ blk.panicked /\ AcceptsTransaction(draft, tx) /\ tx.from \notin IdsOf(blk.balances)
  <2>1. PanicsOn(new, blk, tx) /\ tx.signed
    BY <1>1, <1>6, AddDoes DEF AcceptsTransaction
  <2>2. new.txs = Append(blk.txs, tx) /\ new.panicked
    BY <2>1 DEF PanicsOn
  <2> HIDE DEF new
  <2>3. AllSigned(new.txs) /\ (AllFit(new.txs) => AllFit(blk.txs) /\ ExactTotal(tx) < UintRange)
    BY <1>1, <2>1, <2>2, OneMore
  <2>4. ASSUME AllFit(new.txs) PROVE Kept(AsDraft(new), a, first)
    <3>1. tx \in Fitting /\ Kept(AsDraft(blk), a, first)
      BY <1>1, <2>3, <2>4 DEF Fitting
    <3> QED
      BY <1>1, <2>1, <3>1, PanicKeepsBooks
  <2> QED
    BY <1>2, <2>2, <2>3, <2>4 DEF BooksOf, new
<1> QED
  BY <1>3, <1>4, <1>5, <1>6

LEMMA FillKeepsBooks ==
  ASSUME NEW p \in Lists, NEW pool \in Seq(Transactions),
         TotalOf(AsLedger(p).balances) < UintRange, NEW a \in Address
  PROVE  FillLists(p, pool) \in BooksOf(a, AsLedger(p).balances[a])
<1> DEFINE n      == Len(pool)
           base   == CopyOf(p)
           ledger == AsLedger(p)
           first  == ledger.balances[a]
           I      == BooksOf(a, first)
<1>1. n \in Nat /\ DOMAIN pool = 1 .. n /\ \A k \in 1 .. n : pool[k] \in Transactions
  OBVIOUS
<1>2. base \in WellBuilt /\ AsDraft(base) = NewDraft(ledger) /\ ledger \in LedgerType
  BY CopyIsBuilt
<1>3. ledger.balances \in [Address -> Amount] /\ first \in Nat
  BY <1>2, LedgerAssumption DEF LedgerType, Amount
<1>4. /\ AsDraft(base).balances = ledger.balances /\ AsDraft(base).txs = <<>>
      /\ base.txs = <<>>
  BY <1>2 DEF NewDraft, AsDraft
<1> HIDE DEF base, ledger
<1>5. base \in I
  <2>1. GoldIn(AsDraft(base)) < UintRange
    <3>1. TotalOf(ledger.balances) \in Nat
      BY <1>3, TotalIsSum
    <3> QED
      BY <1>4, <3>1, NoFees DEF GoldIn, ledger
  <2>2. AllSigned(base.txs)
    BY <1>4 DEF AllSigned
  <2>3. Kept(AsDraft(base), a, first)
    <3> DEFINE f == [t \in Transactions |-> ReceivedBy(a, t)]
               g == [t \in Transactions |-> TakenFrom(a, t)]
    <3>1. Kept(AsDraft(base), a, first) <=>
            AsDraft(base).balances[a]
              = first + MeasureOf(f, AsDraft(base).txs) - MeasureOf(g, AsDraft(base).txs)
      BY DEF Kept
    <3> HIDE DEF f, g
    <3>2. MeasureOf(f, <<>>) = 0 /\ MeasureOf(g, <<>>) = 0
      BY NoMeasure
    <3> QED
      BY <1>3, <1>4, <3>1, <3>2
  <2> QED
    BY <1>2, <2>1, <2>2, <2>3 DEF BooksOf
<1> HIDE DEF first
<1>6. \A blk \in I, tx \in Transactions : AddTransactionToLists(blk, tx) \in I
  BY <1>3, AddKeepsBlockBooks
<1>7. FillLists(p, pool) = Filling!FoldTo(base, pool, n)
  BY <1>1, FillingIsFold DEF FillLists, base
<1> HIDE DEF n, I
<1>8. Filling!FoldTo(base, pool, n) \in I
  BY <1>1, <1>5, <1>6, Filling!FoldStaysIn
<1> QED
  BY <1>7, <1>8 DEF I, first, ledger

\* A filled block in which nothing wraps keeps the books of every account to
\* the coin (AddTransaction).
THEOREM BooksAreExact == Spec => []BalancesAreExact
<1>1. FillingInv => BalancesAreExact
  <2> SUFFICES ASSUME FillingInv, NothingWraps PROVE BalancesAreExact
    BY DEF BalancesAreExact
  <2> DEFINE txs == filled.txs
  <2>1. head \in Lists /\ order \in Seq(Transactions) /\ filled = FillLists(head, order)
    BY DEF FillingInv, filled
  <2>2. TotalOf(AsLedger(head).balances) < UintRange
    <3>1. AsLedger(head).balances \in [Address -> Amount]
      BY <2>1, CopyIsBuilt DEF LedgerType
    <3>2. TotalOf(AsLedger(head).balances) \in Nat /\ RewardDue \in Nat
      BY <3>1, TotalIsSum, StartIsNat DEF RewardDue
    <3> QED
      BY <3>2, StartIsNat DEF NothingWraps
  <2>3. ASSUME NEW a \in Address
        PROVE  filled \in BooksOf(a, AsLedger(head).balances[a])
    <3>1. FillLists(head, order) \in BooksOf(a, AsLedger(head).balances[a])
      BY <2>1, <2>2, FillKeepsBooks
    <3> QED
      BY <2>1, <3>1
  <2>4. filled \in WellBuilt /\ txs \in Seq(Transactions) /\ AllFit(txs)
    BY FilledOnHead DEF WellBuilt, Building, NothingWraps, AllFit
  <2>5. AsDraft(filled).txs = txs
    BY DEF AsDraft
  <2>6. ASSUME NEW a \in Address
        PROVE  BalanceOf(filled, a)
                 = BalanceOf(head, a)
                     + SumFunction([i \in DOMAIN txs |-> ReceivedBy(a, txs[i])])
                     - SumFunction([i \in DOMAIN txs |-> TakenFrom(a, txs[i])])
    <3>1. Kept(AsDraft(filled), a, AsLedger(head).balances[a])
      BY <2>3, <2>4 DEF BooksOf
    <3>2. /\ AsDraft(filled).balances[a] = BalanceOf(filled, a)
          /\ AsLedger(head).balances[a] = BalanceOf(head, a)
      BY DEF AsDraft, AsLedger, BalanceOf
    <3> HIDE DEF txs
    <3>3. \A i \in DOMAIN txs : txs[i] \in Transactions
      BY <2>4
    <3>4. /\ MeasureOf([tx \in Transactions |-> ReceivedBy(a, tx)], txs)
               = SumFunction([i \in DOMAIN txs |-> ReceivedBy(a, txs[i])])
          /\ MeasureOf([tx \in Transactions |-> TakenFrom(a, tx)], txs)
               = SumFunction([i \in DOMAIN txs |-> TakenFrom(a, txs[i])])
      <4>1. /\ [i \in DOMAIN txs |-> [tx \in Transactions |-> ReceivedBy(a, tx)][txs[i]]]
                 = [i \in DOMAIN txs |-> ReceivedBy(a, txs[i])]
            /\ [i \in DOMAIN txs |-> [tx \in Transactions |-> TakenFrom(a, tx)][txs[i]]]
                 = [i \in DOMAIN txs |-> TakenFrom(a, txs[i])]
        BY <3>3
      <4> QED
        BY <4>1 DEF MeasureOf
    <3> QED
      BY <2>5, <3>1, <3>2, <3>4 DEF Kept
  <2>7. \A i \in DOMAIN txs : txs[i].signed
    <3>1. CASE Address = {}
      <4>1. \A tx \in Transactions : FALSE
        BY <3>1, FillingAssumption
      <4> QED
        BY <2>4, <4>1
    <3>2. CASE Address # {}
      <4>1. PICK a \in Address : TRUE
        BY <3>2
      <4> QED
        BY <2>3, <4>1 DEF BooksOf, AllSigned
    <3> QED
      BY <3>1, <3>2
  <2> HIDE DEF txs
  <2> QED
    BY <2>6, <2>7 DEF BalancesAreExact, txs
<1> QED
  BY <1>1, FillingInvariant, PTL
=============================================================================
