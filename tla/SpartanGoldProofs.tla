------------------------- MODULE SpartanGoldProofs --------------------------
(***************************************************************************)
(* Proofs about SpartanGold, for any nodes, payments and bounds.           *)
(*                                                                         *)
(* TreeInv is inductive: the blocks form one tree, in which lengths count  *)
(* the steps from the genesis block, and each node knows a part of it that *)
(* is closed under PrevBlockHash, together with ledgers that Rerun gave.   *)
(* The agreement of nodes rests on no more than that ledgers are functions *)
(* of the parent and its ledger.  Then what the blocks, pools and wallets  *)
(* contain: the type invariant, that no transaction is executed twice on a *)
(* chain, how much gold it holds, and what wallets can count on.           *)
(***************************************************************************)
EXTENDS SpartanGold, LedgerProofs

\* The variables TreeInv is about.
treeVars == <<block, Blocks, LastBlock, LastConfirmedBlock, CurrentBlock, clock>>

Domains ==
  /\ DOMAIN Blocks = Node
  /\ DOMAIN LastBlock = Node
  /\ DOMAIN LastConfirmedBlock = Node
  /\ DOMAIN CurrentBlock = MinerNode
  /\ clock \in [MinerNode -> Nat]

\* The tree of all blocks.  A miner's next id is unused.
TreeOK ==
  /\ Genesis \in DOMAIN block
  /\ block[Genesis] = GenesisHeader(Genesis)
  /\ DOMAIN block \subseteq BlockId
  /\ \A b \in DOMAIN block : block[b].id = b /\ block[b].len \in Nat
  /\ \A b \in DOMAIN block \ {Genesis} :
       LET p == block[b].prev
       IN  /\ p \in DOMAIN block
           /\ block[b].len = block[p].len + 1
           /\ block[b].chain = Chain(block[p])

IdsAreUsedOnce ==
  \A m \in MinerNode : \A k \in Nat :
    <<m, k>> \in DOMAIN block => k < clock[m]

\* The ancestor at height h has length h.
HeightsOK ==
  \A b \in DOMAIN block : \A h \in 0 .. block[b].len - 1 :
    /\ block[b].chain[h] \in DOMAIN block
    /\ block[block[b].chain[h]].len = h

\* What a node knows.
KnownOK(n) ==
  /\ Genesis \in DOMAIN Blocks[n]
  /\ DOMAIN Blocks[n] \subseteq DOMAIN block
  /\ Blocks[n][Genesis] = GenesisLedger
  /\ \A b \in DOMAIN Blocks[n] \ {Genesis} :
       LET p == block[b].prev
       IN  /\ p \in DOMAIN Blocks[n]
           /\ Blocks[n][b] = LedgerAfter(block[p], Blocks[n][p], block[b].txs)

AncestorsKnown(n) ==
  \A b \in DOMAIN Blocks[n] : \A h \in 0 .. block[b].len - 1 :
    block[b].chain[h] \in DOMAIN Blocks[n]

HeadOK(n) ==
  /\ LastBlock[n] \in DOMAIN Blocks[n]
  /\ \A b \in DOMAIN Blocks[n] : block[b].len <= block[LastBlock[n]].len
  /\ LastConfirmedBlock[n] =
       IF LastBlock[n] = Genesis THEN Genesis ELSE ConfirmedAncestor(LastBlock[n])

\* A header on top of the head of m, and the block m works on, which is one.
Extends(m, header, parent) ==
  header = [id |-> header.id, prev |-> parent.id, len |-> parent.len + 1,
            rewardAddr |-> m, txs |-> header.txs, chain |-> Chain(parent)]

SearchOK(m) ==
  \/ CurrentBlock[m] = NoBlock
  \/ Extends(m, CurrentBlock[m], block[LastBlock[m]])

TreeInv ==
  /\ Domains
  /\ TreeOK
  /\ IdsAreUsedOnce
  /\ HeightsOK
  /\ \A n \in Node : KnownOK(n) /\ AncestorsKnown(n) /\ HeadOK(n)
  /\ \A m \in MinerNode : SearchOK(m)
  /\ LedgerAgreement

-----------------------------------------------------------------------------
(* TreeInv holds initially and is kept by the steps that change the tree.  *)

LEMMA InitTree == Init => TreeInv
<1> SUFFICES ASSUME Init PROVE TreeInv
  OBVIOUS
<1> USE ClientAssumption DEF Init, ClientInit, MinerInit
<1>0. /\ DOMAIN block = {Genesis} /\ block[Genesis] = GenesisHeader(Genesis)
      /\ \A n \in Node : /\ DOMAIN Blocks[n] = {Genesis}
                         /\ Blocks[n][Genesis] = GenesisLedger
  OBVIOUS
<1>1. Domains
  BY DEF Domains
<1>2. TreeOK
  BY <1>0 DEF TreeOK, GenesisHeader, BlockId
<1>3. IdsAreUsedOnce
  BY <1>0 DEF IdsAreUsedOnce
<1>4. HeightsOK
  BY <1>0 DEF HeightsOK, GenesisHeader
<1>5. \A n \in Node : KnownOK(n) /\ AncestorsKnown(n) /\ HeadOK(n)
  BY <1>0 DEF KnownOK, AncestorsKnown, HeadOK, GenesisHeader
<1>6. \A m \in MinerNode : SearchOK(m)
  BY DEF SearchOK
<1>7. LedgerAgreement
  BY <1>0 DEF LedgerAgreement
<1> QED
  BY <1>1, <1>2, <1>3, <1>4, <1>5, <1>6, <1>7 DEF TreeInv

\* Steps that leave the tree alone.
LEMMA SameTree ==
  ASSUME TreeInv, UNCHANGED treeVars
  PROVE  TreeInv'
<1> USE DEF treeVars
<1>1. Domains' /\ TreeOK' /\ IdsAreUsedOnce' /\ HeightsOK' /\ LedgerAgreement'
  BY DEF TreeInv, Domains, TreeOK, IdsAreUsedOnce, HeightsOK, LedgerAgreement, Chain
<1>2. ASSUME NEW n \in Node
      PROVE  KnownOK(n)' /\ AncestorsKnown(n)' /\ HeadOK(n)'
  BY <1>2 DEF TreeInv, KnownOK, AncestorsKnown, HeadOK, ConfirmedAncestor
<1>3. ASSUME NEW m \in MinerNode
      PROVE  SearchOK(m)'
  BY <1>3 DEF TreeInv, SearchOK, Extends
<1> QED
  BY <1>1, <1>2, <1>3 DEF TreeInv

\* What a new search leaves in CurrentBlock.
LEMMA NewSearch ==
  ASSUME NEW m \in MinerNode, NEW head, NEW ledger, NEW pool,
         DOMAIN CurrentBlock = MinerNode,
         StartNewSearch(m, head, ledger, pool)
  PROVE  /\ DOMAIN CurrentBlock' = MinerNode
         /\ Extends(m, CurrentBlock'[m], block[head])
         /\ CurrentBlock'[m].id = NoBlock
         /\ \A k \in MinerNode \ {m} : CurrentBlock'[k] = CurrentBlock[k]
<1> PICK order :
      CurrentBlock' = [CurrentBlock EXCEPT ![m] =
        NewBlock(m, block[head], FillBlock(ledger, order).txs)]
  BY DEF StartNewSearch
<1> QED
  BY DEF NewBlock, Extends

LEMMA InitializeTree ==
  ASSUME TreeInv, NEW m \in MinerNode, Initialize(m)
  PROVE  TreeInv'
<1> USE DEF Initialize, chainVars
<1>1. /\ DOMAIN CurrentBlock' = MinerNode
      /\ Extends(m, CurrentBlock'[m], block[LastBlock[m]])
      /\ \A k \in MinerNode \ {m} : CurrentBlock'[k] = CurrentBlock[k]
  BY NewSearch DEF TreeInv, Domains
<1>2. Domains' /\ TreeOK' /\ IdsAreUsedOnce' /\ HeightsOK' /\ LedgerAgreement'
  BY <1>1 DEF TreeInv, Domains, TreeOK, IdsAreUsedOnce, HeightsOK,
              LedgerAgreement, Chain
<1>3. ASSUME NEW n \in Node
      PROVE  KnownOK(n)' /\ AncestorsKnown(n)' /\ HeadOK(n)'
  BY <1>3 DEF TreeInv, KnownOK, AncestorsKnown, HeadOK, ConfirmedAncestor
<1>4. ASSUME NEW k \in MinerNode
      PROVE  SearchOK(k)'
  <2>1. CASE k = m
    BY <1>1, <2>1 DEF SearchOK, Extends
  <2>2. CASE k # m
    BY <1>1, <2>2 DEF TreeInv, SearchOK, Extends
  <2> QED
    BY <2>1, <2>2
<1> QED
  BY <1>2, <1>3, <1>4 DEF TreeInv

\* A proof adds a child of the miner's head, under an unused id.
LEMMA FindProofTree ==
  ASSUME TreeInv, NEW m \in MinerNode, FindProof(m, Clients)
  PROVE  TreeInv'
<1> DEFINE new  == <<m, clock[m]>>
           head == LastBlock[m]
           cur  == CurrentBlock[m]
<1> USE ClientAssumption DEF FindProof, chainVars
<1>1. /\ m \in Node /\ new \in BlockId /\ new \notin DOMAIN block
      /\ new # Genesis
      /\ head \in DOMAIN block
      /\ block[head].id = head /\ block[head].len \in Nat
  BY DEF TreeInv, Domains, TreeOK, IdsAreUsedOnce, KnownOK, HeadOK, BlockId
<1>2. /\ cur.prev = head
      /\ cur.len = block[head].len + 1
      /\ cur.chain = Chain(block[head])
      /\ cur = [id |-> cur.id, prev |-> head, len |-> block[head].len + 1,
                rewardAddr |-> m, txs |-> cur.txs, chain |-> Chain(block[head])]
  BY <1>1 DEF TreeInv, SearchOK, Initialized, Extends
<1>3. /\ DOMAIN block' = DOMAIN block \cup {new}
      /\ \A b \in DOMAIN block : block'[b] = block[b]
      /\ block'[new].id = new
      /\ block'[new].prev = head
      /\ block'[new].len = block[head].len + 1
      /\ block'[new].chain = Chain(block[head])
  BY <1>1, <1>2 DEF With
<1>4. Domains'
  BY DEF TreeInv, Domains
<1>5. TreeOK'
  <2>1. /\ Genesis \in DOMAIN block' /\ block'[Genesis] = GenesisHeader(Genesis)
        /\ DOMAIN block' \subseteq BlockId
        /\ \A b \in DOMAIN block' : block'[b].id = b /\ block'[b].len \in Nat
    BY <1>1, <1>3 DEF TreeInv, TreeOK
  <2>2. ASSUME NEW b \in DOMAIN block' \ {Genesis}
        PROVE  LET q == block'[b].prev
               IN  /\ q \in DOMAIN block'
                   /\ block'[b].len = block'[q].len + 1
                   /\ block'[b].chain = Chain(block'[q])
    <3>1. CASE b = new
      BY <1>1, <1>3, <3>1
    <3>2. CASE b # new
      BY <1>3, <2>2, <3>2 DEF TreeInv, TreeOK
    <3> QED
      BY <3>1, <3>2
  <2> QED
    BY <2>1, <2>2 DEF TreeOK
<1>6. IdsAreUsedOnce'
  BY <1>1, <1>3 DEF TreeInv, Domains, IdsAreUsedOnce, BlockId
<1>7. HeightsOK'
  <2> SUFFICES ASSUME NEW b \in DOMAIN block', NEW h \in 0 .. block'[b].len - 1
               PROVE  /\ block'[b].chain[h] \in DOMAIN block'
                      /\ block'[block'[b].chain[h]].len = h
    BY DEF HeightsOK
  <2>1. CASE b \in DOMAIN block
    BY <1>3, <2>1 DEF TreeInv, HeightsOK
  <2>2. CASE b = new
    <3>1. h \in 0 .. block[head].len
      BY <1>1, <1>3, <2>2
    <3>2. block'[b].chain[h] = IF h = block[head].len THEN head
                                                       ELSE block[head].chain[h]
      BY <1>1, <1>3, <2>2, <3>1 DEF Chain
    <3>3. CASE h = block[head].len
      BY <1>1, <1>3, <3>2, <3>3
    <3>4. CASE h # block[head].len
      <4>1. h \in 0 .. block[head].len - 1
        BY <1>1, <3>1, <3>4
      <4>2. /\ block[head].chain[h] \in DOMAIN block
            /\ block[block[head].chain[h]].len = h
        BY <1>1, <4>1 DEF TreeInv, HeightsOK
      <4> QED
        BY <1>3, <3>2, <3>4, <4>2
    <3> QED
      BY <3>3, <3>4
  <2> QED
    BY <1>3, <2>1, <2>2
<1>8. ASSUME NEW n \in Node
      PROVE  KnownOK(n)' /\ AncestorsKnown(n)' /\ HeadOK(n)'
  <2>1. /\ DOMAIN Blocks[n] \subseteq DOMAIN block
        /\ LastBlock[n] \in DOMAIN block
        /\ \A b \in DOMAIN Blocks[n] : block'[b] = block[b]
        /\ block'[LastBlock[n]] = block[LastBlock[n]]
    BY <1>3 DEF TreeInv, KnownOK, HeadOK
  <2>2. KnownOK(n)'
    <3>1. \A b \in DOMAIN Blocks[n] \ {Genesis} :
            block'[block[b].prev] = block[block[b].prev]
      BY <1>3, <2>1 DEF TreeInv, TreeOK
    <3>2. /\ Blocks' = Blocks
          /\ DOMAIN block \subseteq DOMAIN block'
      BY <1>3
    <3> QED
      BY <2>1, <3>1, <3>2 DEF TreeInv, KnownOK
  <2>3. AncestorsKnown(n)'
    BY <2>1 DEF TreeInv, AncestorsKnown
  <2>4. HeadOK(n)'
    BY <2>1 DEF TreeInv, HeadOK, ConfirmedAncestor
  <2> QED
    BY <2>2, <2>3, <2>4
<1>9. ASSUME NEW k \in MinerNode
      PROVE  SearchOK(k)'
  <2>1. /\ k \in Node
        /\ LastBlock[k] \in DOMAIN block
        /\ block'[LastBlock[k]] = block[LastBlock[k]]
    BY <1>3 DEF TreeInv, KnownOK, HeadOK
  <2>2. CASE k = m
    <3>1. CurrentBlock'[m] = [cur EXCEPT !.id = new]
      BY DEF TreeInv, Domains
    <3> QED
      BY <1>2, <2>1, <2>2, <3>1, <1>1 DEF SearchOK, Extends
  <2>3. CASE k # m
    <3>1. CurrentBlock'[k] = CurrentBlock[k]
      BY <2>3 DEF TreeInv, Domains
    <3> QED
      BY <2>1, <3>1 DEF TreeInv, SearchOK, Extends
  <2> QED
    BY <2>2, <2>3
<1>10. LedgerAgreement'
  BY DEF TreeInv, LedgerAgreement
<1> QED
  BY <1>4, <1>5, <1>6, <1>7, <1>8, <1>9, <1>10 DEF TreeInv

\* The part of ReceiveBlock that accepts b at n, its cutover included.
Accepts(n, b) ==
  /\ AcceptBlock(n, b)
  /\ UNCHANGED clock
  /\ IF n \in MinerNode THEN CutOver(n, b)
     ELSE UNCHANGED <<CurrentBlock, Transactions>>

\* The one block of length 0 is the genesis block.
LEMMA OneGenesis ==
  ASSUME TreeInv, NEW b \in DOMAIN block
  PROVE  IsGenesisBlock(b) <=> b = Genesis
<1>1. CASE b = Genesis
  BY <1>1 DEF TreeInv, TreeOK, GenesisHeader, IsGenesisBlock
<1>2. CASE b # Genesis
  BY <1>2 DEF TreeInv, TreeOK, IsGenesisBlock
<1> QED
  BY <1>1, <1>2

\* What an accepted block changes in what its receiver knows.
LEMMA AcceptKnown ==
  ASSUME TreeInv, NEW n \in Node, NEW b \in DOMAIN block, AcceptBlock(n, b)
  PROVE  LET p == block[b].prev
         IN  /\ b \notin DOMAIN Blocks[n] /\ b # Genesis
             /\ p \in DOMAIN Blocks[n]
             /\ block' = block
             /\ DOMAIN Blocks' = Node
             /\ DOMAIN Blocks'[n] = DOMAIN Blocks[n] \cup {b}
             /\ \A c \in DOMAIN Blocks[n] : Blocks'[n][c] = Blocks[n][c]
             /\ Blocks'[n][b] = LedgerAfter(block[p], Blocks[n][p], block[b].txs)
             /\ \A k \in Node \ {n} : Blocks'[k] = Blocks[k]
<1>1. /\ b \notin DOMAIN Blocks[n] /\ b # Genesis
      /\ ~ IsGenesisBlock(b) /\ block[b].prev \in DOMAIN Blocks[n]
  BY OneGenesis DEF TreeInv, KnownOK, AcceptBlock, Refused, ParentKnown
<1> QED
  BY <1>1 DEF TreeInv, Domains, AcceptBlock, With, AcceptedLedger

LEMMA AcceptHead ==
  ASSUME TreeInv, NEW n \in Node, NEW b \in DOMAIN block, AcceptBlock(n, b)
  PROVE  /\ DOMAIN LastBlock' = Node /\ DOMAIN LastConfirmedBlock' = Node
         /\ \A k \in Node \ {n} : LastBlock'[k] = LastBlock[k]
                               /\ LastConfirmedBlock'[k] = LastConfirmedBlock[k]
         /\ Longer(n, b) => /\ LastBlock'[n] = b
                            /\ LastConfirmedBlock'[n] = ConfirmedAncestor(b)
         /\ ~ Longer(n, b) => /\ LastBlock'[n] = LastBlock[n]
                              /\ LastConfirmedBlock'[n] = LastConfirmedBlock[n]
  BY DEF TreeInv, Domains, AcceptBlock, SetLastConfirmed

LEMMA AcceptTree ==
  ASSUME TreeInv, NEW n \in Node, NEW b \in DOMAIN block, Accepts(n, b)
  PROVE  TreeInv'
<1> DEFINE p == block[b].prev
<1>1. AcceptBlock(n, b)
  BY DEF Accepts
<1>2. /\ b \notin DOMAIN Blocks[n] /\ b # Genesis
      /\ p \in DOMAIN Blocks[n]
      /\ block' = block
      /\ DOMAIN Blocks' = Node
      /\ DOMAIN Blocks'[n] = DOMAIN Blocks[n] \cup {b}
      /\ \A c \in DOMAIN Blocks[n] : Blocks'[n][c] = Blocks[n][c]
      /\ Blocks'[n][b] = LedgerAfter(block[p], Blocks[n][p], block[b].txs)
      /\ \A k \in Node \ {n} : Blocks'[k] = Blocks[k]
  BY <1>1, AcceptKnown
<1>3. /\ p \in DOMAIN block
      /\ block[p].id = p /\ block[p].len \in Nat
      /\ block[b].len = block[p].len + 1
      /\ block[b].chain = Chain(block[p])
      /\ LastBlock[n] \in DOMAIN block /\ block[LastBlock[n]].len \in Nat
  BY <1>2 DEF TreeInv, TreeOK, KnownOK, HeadOK
<1>4. TreeOK' /\ IdsAreUsedOnce' /\ HeightsOK'
  BY <1>2 DEF TreeInv, TreeOK, IdsAreUsedOnce, HeightsOK, Accepts
<1>5. ASSUME NEW k \in Node
      PROVE  KnownOK(k)'
  <2>1. CASE k = n
    BY <1>2, <1>3, <2>1 DEF TreeInv, KnownOK
  <2>2. CASE k # n
    BY <1>2, <2>2 DEF TreeInv, KnownOK
  <2> QED
    BY <2>1, <2>2
<1>6. ASSUME NEW k \in Node
      PROVE  AncestorsKnown(k)'
  <2>1. CASE k = n
    <3> SUFFICES ASSUME NEW c \in DOMAIN Blocks'[n], NEW h \in 0 .. block[c].len - 1
                 PROVE  block[c].chain[h] \in DOMAIN Blocks'[n]
      BY <1>2, <2>1 DEF AncestorsKnown
    <3>1. CASE c # b
      BY <1>2, <3>1 DEF TreeInv, AncestorsKnown
    <3>2. CASE c = b
      <4>1. /\ h \in 0 .. block[p].len
            /\ block[c].chain[h] = IF h = block[p].len THEN p
                                                       ELSE block[p].chain[h]
        BY <1>3, <3>2 DEF Chain
      <4> QED
        BY <1>2, <1>3, <4>1 DEF TreeInv, AncestorsKnown
    <3> QED
      BY <3>1, <3>2
  <2>2. CASE k # n
    BY <1>2, <2>2 DEF TreeInv, AncestorsKnown
  <2> QED
    BY <2>1, <2>2
<1>7. ASSUME NEW k \in Node
      PROVE  HeadOK(k)'
  <2>1. CASE k = n
    <3>1. CASE Longer(n, b)
      <4>1. LastBlock'[n] = b /\ LastConfirmedBlock'[n] = ConfirmedAncestor(b)
        BY <1>1, <3>1, AcceptHead
      <4>2. \A c \in DOMAIN Blocks[n] : /\ block[c].len \in Nat
                                       /\ block[c].len <= block[LastBlock[n]].len
        BY DEF TreeInv, TreeOK, KnownOK, HeadOK
      <4>3. block[b].len \in Nat /\ block[LastBlock[n]].len < block[b].len
        BY <1>3, <3>1 DEF Longer
      <4>4. \A c \in DOMAIN Blocks'[n] : block[c].len <= block[b].len
        BY <1>2, <1>3, <4>2, <4>3
      <4> QED
        BY <1>2, <2>1, <4>1, <4>4 DEF HeadOK, ConfirmedAncestor
    <3>2. CASE ~ Longer(n, b)
      <4>1. LastBlock'[n] = LastBlock[n] /\ LastConfirmedBlock'[n] = LastConfirmedBlock[n]
        BY <1>1, <3>2, AcceptHead
      <4>2. block[b].len <= block[LastBlock[n]].len
        BY <1>3, <3>2 DEF Longer
      <4>3. HeadOK(n)
        BY DEF TreeInv
      <4>4. /\ LastBlock[n] \in DOMAIN Blocks'[n]
            /\ \A c \in DOMAIN Blocks'[n] : block[c].len <= block[LastBlock[n]].len
        BY <1>2, <4>2, <4>3 DEF HeadOK
      <4>5. LastConfirmedBlock[n] = IF LastBlock[n] = Genesis THEN Genesis
                                    ELSE ConfirmedAncestor(LastBlock[n])
        BY <4>3 DEF HeadOK
      <4> QED
        BY <1>2, <2>1, <4>1, <4>4, <4>5 DEF HeadOK, ConfirmedAncestor
    <3> QED
      BY <3>1, <3>2
  <2>2. CASE k # n
    BY <1>1, <1>2, <2>2, AcceptHead DEF TreeInv, HeadOK, ConfirmedAncestor
  <2> QED
    BY <2>1, <2>2
<1>8. LedgerAgreement'
  <2> SUFFICES ASSUME NEW k \in Node, NEW c \in DOMAIN Blocks'[n] \cap DOMAIN Blocks'[k],
                      k # n
               PROVE  Blocks'[n][c] = Blocks'[k][c]
    BY <1>2 DEF TreeInv, LedgerAgreement
  <2>1. CASE c # b
    BY <1>2, <2>1 DEF TreeInv, LedgerAgreement
  <2>2. CASE c = b
    <3>1. /\ p \in DOMAIN Blocks[k]
          /\ Blocks[k][b] = LedgerAfter(block[p], Blocks[k][p], block[b].txs)
      BY <1>2, <2>2 DEF TreeInv, KnownOK
    <3>2. Blocks[k][p] = Blocks[n][p]
      BY <1>2, <3>1 DEF TreeInv, LedgerAgreement
    <3> QED
      BY <1>2, <2>2, <3>1, <3>2
  <2> QED
    BY <2>1, <2>2
<1>9. Domains' /\ (\A m \in MinerNode : SearchOK(m)')
  <2>1. CASE n \in MinerNode /\ Initialized(n) /\ block[b].len >= CurrentBlock[n].len
    <3>1. /\ DOMAIN CurrentBlock' = MinerNode
          /\ Extends(n, CurrentBlock'[n], block[LastBlock'[n]])
          /\ \A k \in MinerNode \ {n} : CurrentBlock'[k] = CurrentBlock[k]
      <4>1. StartNewSearch(n, LastBlock'[n], Blocks'[n][LastBlock'[n]],
                           Transactions[n] \cup SyncTransaction(n, b))
        BY <2>1 DEF Accepts, CutOver
      <4> QED
        BY <2>1, <4>1, NewSearch DEF TreeInv, Domains
    <3>2. Domains'
      BY <1>1, <1>2, <3>1, AcceptHead DEF TreeInv, Domains, Accepts
    <3>3. ASSUME NEW m \in MinerNode
          PROVE  SearchOK(m)'
      <4>1. CASE m = n
        BY <1>2, <3>1, <4>1 DEF SearchOK
      <4>2. CASE m # n
        BY <1>1, <1>2, <3>1, <4>2, AcceptHead, ClientAssumption DEF TreeInv, SearchOK
      <4> QED
        BY <4>1, <4>2
    <3> QED
      BY <3>2, <3>3
  <2>2. CASE ~ (n \in MinerNode /\ Initialized(n) /\ block[b].len >= CurrentBlock[n].len)
    <3>1. CurrentBlock' = CurrentBlock
      BY <2>2 DEF Accepts, CutOver
    <3>2. Domains'
      BY <1>1, <1>2, <3>1, AcceptHead DEF TreeInv, Domains, Accepts
    <3>3. ASSUME NEW m \in MinerNode
          PROVE  SearchOK(m)'
      <4>1. CASE CurrentBlock[m] = NoBlock
        BY <3>1, <4>1 DEF SearchOK
      <4>2. CASE CurrentBlock[m] # NoBlock
        <5>1. CurrentBlock[m].len = block[LastBlock[m]].len + 1
          <6>1. Extends(m, CurrentBlock[m], block[LastBlock[m]])
            BY <4>2 DEF TreeInv, SearchOK
          <6> QED
            BY ONLY <6>1 DEF Extends
        <5>2. LastBlock'[m] = LastBlock[m]
          BY <1>1, <1>3, <2>2, <4>2, <5>1, AcceptHead, ClientAssumption
             DEF Initialized, Longer
        <5> QED
          BY <1>2, <3>1, <5>2 DEF TreeInv, SearchOK
      <4> QED
        BY <4>1, <4>2
    <3> QED
      BY <3>2, <3>3
  <2> QED
    BY <2>1, <2>2
<1> QED
  BY <1>4, <1>5, <1>6, <1>7, <1>8, <1>9 DEF TreeInv

-----------------------------------------------------------------------------
(* TreeInv holds always. *)

LEMMA NextTree ==
  ASSUME TreeInv, [Next]_vars
  PROVE  TreeInv'
<1>1. ASSUME NEW n \in Node, Join(n)
      PROVE  TreeInv'
  BY <1>1, SameTree DEF Join, treeVars, chainVars, minerVars
<1>2. ASSUME NEW n \in Node, HandleBlock(n)
      PROVE  TreeInv'
  <2>1. PICK b \in DOMAIN block : ReceiveBlock(n, b)
    BY <1>2 DEF HandleBlock
  <2>2. CASE IgnoreBlock(n, b) /\ UNCHANGED minerVars
    BY <2>2, SameTree DEF IgnoreBlock, treeVars, chainVars, minerVars
  <2>3. CASE StickBlock(n, b, Clients) /\ UNCHANGED minerVars
    BY <2>3, SameTree DEF StickBlock, treeVars, minerVars
  <2>4. CASE Accepts(n, b)
    BY <2>4, AcceptTree
  <2> QED
    BY <2>1, <2>2, <2>3, <2>4 DEF ReceiveBlock, Accepts
<1>3. ASSUME NEW n \in Node, HandleRequest(n)
      PROVE  TreeInv'
  BY <1>3, SameTree
     DEF HandleRequest, ProvideMissingBlock, treeVars, chainVars, minerVars
<1>4. ASSUME NEW n \in Node, UserStep(n)
      PROVE  TreeInv'
  BY <1>4, SameTree
     DEF UserStep, PostTransaction, ResendPendingTransactions, treeVars,
         chainVars, minerVars
<1>5. ASSUME NEW m \in MinerNode, HandleTransaction(m)
      PROVE  TreeInv'
  BY <1>5, SameTree
     DEF HandleTransaction, AddTransactionBytes, AddOwnTransaction, treeVars,
         chainVars
<1>6. ASSUME NEW m \in MinerNode, Mine(m)
      PROVE  TreeInv'
  <2>1. CASE Initialize(m)
    BY <2>1, InitializeTree
  <2>2. CASE FindProof(m, Clients)
    BY <2>2, FindProofTree
  <2>3. CASE FindProofAgain(m, Clients)
    BY <2>3, SameTree DEF FindProofAgain, treeVars, chainVars, minerVars
  <2> QED
    BY <1>6, <2>1, <2>2, <2>3 DEF Mine
<1>7. CASE UNCHANGED vars
  BY <1>7, SameTree DEF vars, treeVars, chainVars, minerVars
<1> QED
  BY <1>1, <1>2, <1>3, <1>4, <1>5, <1>6, <1>7 DEF Next

\* The blocks form one tree, of which each node knows a closed part.
THEOREM TreeInvariant == Spec => []TreeInv
  BY InitTree, NextTree, PTL DEF Spec

\* The confirmed block is a known one, CONFIRMED_DEPTH below the head.
LEMMA ConfirmedKnown ==
  ASSUME TreeInv, NEW n \in Node
  PROVE  LET len == block[LastBlock[n]].len
         IN  /\ LastConfirmedBlock[n] \in DOMAIN Blocks[n]
             /\ block[LastConfirmedBlock[n]].len =
                  IF len > CONFIRMED_DEPTH THEN len - CONFIRMED_DEPTH ELSE 0
<1> DEFINE len == block[LastBlock[n]].len
           low == IF len > CONFIRMED_DEPTH THEN len - CONFIRMED_DEPTH ELSE 0
<1>1. LastBlock[n] \in DOMAIN Blocks[n] /\ LastBlock[n] \in DOMAIN block
  BY DEF TreeInv, HeadOK, KnownOK
<1>2. CASE LastBlock[n] = Genesis
  BY <1>2, ClientAssumption DEF TreeInv, TreeOK, HeadOK, KnownOK, GenesisHeader
<1>3. CASE LastBlock[n] # Genesis
  <2>1. len \in Nat \ {0}
    BY <1>1, <1>3 DEF TreeInv, TreeOK
  <2>2. low \in 0 .. len - 1
    BY <2>1, ClientAssumption
  <2>3. LastConfirmedBlock[n] = block[LastBlock[n]].chain[low]
    BY <1>3 DEF TreeInv, HeadOK, ConfirmedAncestor
  <2> QED
    BY <1>1, <2>2, <2>3 DEF TreeInv, HeightsOK, AncestorsKnown
<1> QED
  BY <1>2, <1>3

\* Nodes that know a block agree on its balances and nonces, though neither is
\* hashed and each node computes them with its own Rerun.
THEOREM LedgersAgree == Spec => []LedgerAgreement
<1>1. TreeInv => LedgerAgreement
  BY DEF TreeInv
<1> QED
  BY <1>1, TreeInvariant, PTL

\* Every Blocks[PrevBlockHash] that a node reads on its way down is there.
THEOREM CompleteChains == Spec => []ChainsAreComplete
<1>1. TreeInv => ChainsAreComplete
  BY DEF TreeInv, TreeOK, KnownOK, GenesisHeader, ChainsAreComplete
<1> QED
  BY <1>1, TreeInvariant, PTL

\* StartNewSearch always has the head of the longest chain as parent.
THEOREM MinersOnHead == Spec => []MiningOnHead
<1>1. TreeInv => MiningOnHead
  <2> SUFFICES ASSUME TreeInv, NEW m \in MinerNode, Initialized(m)
               PROVE  CurrentBlock[m].prev = LastBlock[m]
    BY DEF MiningOnHead
  <2>1. Extends(m, CurrentBlock[m], block[LastBlock[m]])
    BY DEF TreeInv, SearchOK, Initialized
  <2>2. CurrentBlock[m].prev = block[LastBlock[m]].id
    BY ONLY <2>1 DEF Extends
  <2> QED
    BY <2>2, ClientAssumption DEF TreeInv, TreeOK, KnownOK, HeadOK
<1> QED
  BY <1>1, TreeInvariant, PTL

\* The head is a longest known chain, and the confirmed block is the ancestor
\* of the head that is CONFIRMED_DEPTH below it, or the genesis block.
THEOREM LongestHead == Spec => []HeadIsLongest
<1>1. TreeInv => HeadIsLongest
  <2> SUFFICES ASSUME TreeInv, NEW n \in Node
               PROVE  LET head == block[LastBlock[n]]
                          low  == IF head.len > CONFIRMED_DEPTH
                                  THEN head.len - CONFIRMED_DEPTH ELSE 0
                      IN  /\ \A b \in DOMAIN Blocks[n] : block[b].len <= head.len
                          /\ block[LastConfirmedBlock[n]].len = low
                          /\ block[LastConfirmedBlock[n]] \in Lineage(head)
    BY DEF HeadIsLongest
  <2> DEFINE head == block[LastBlock[n]]
             low  == IF head.len > CONFIRMED_DEPTH
                     THEN head.len - CONFIRMED_DEPTH ELSE 0
  <2>1. /\ LastBlock[n] \in DOMAIN block /\ head.len \in Nat
        /\ \A b \in DOMAIN Blocks[n] : block[b].len <= head.len
    BY DEF TreeInv, TreeOK, KnownOK, HeadOK
  <2>2. CASE LastBlock[n] = Genesis
    BY <2>1, <2>2, ClientAssumption
       DEF TreeInv, TreeOK, HeadOK, GenesisHeader, Lineage
  <2>3. CASE LastBlock[n] # Genesis
    <3>1. head.len \in Nat \ {0}
      BY <2>1, <2>3 DEF TreeInv, TreeOK
    <3>2. low \in 0 .. head.len - 1
      BY <3>1, ClientAssumption
    <3>3. LastConfirmedBlock[n] = head.chain[low]
      BY <2>3 DEF TreeInv, HeadOK, ConfirmedAncestor
    <3>4. \A h \in 0 .. head.len - 1 : block[head.chain[h]].len = h
      BY <2>1 DEF TreeInv, HeightsOK
    <3> HIDE DEF head, low
    <3>5. /\ block[LastConfirmedBlock[n]].len = low
          /\ block[LastConfirmedBlock[n]] \in Lineage(head)
      BY ONLY <3>2, <3>3, <3>4 DEF Lineage
    <3> QED
      BY <2>1, <3>5 DEF head, low
  <2> QED
    BY <2>2, <2>3
<1> QED
  BY <1>1, TreeInvariant, PTL

-----------------------------------------------------------------------------
(* SpartanGold implements LongestChain.                                    *)

LEMMA TreeEntries ==
  /\ DOMAIN Tree = DOMAIN block
  /\ \A b \in DOMAIN block :
       Tree[b] = [parent |-> block[b].prev, height |-> block[b].len]
  BY DEF Tree

LEMMA InitChains == Init => Chains!Init
<1> SUFFICES ASSUME Init PROVE Chains!Init
  OBVIOUS
<1> USE ClientAssumption DEF Init, ClientInit
<1>1. {[n \in Node |-> Genesis][k] : k \in Node} = {Genesis}
  OBVIOUS
<1>2. Tree = [b \in {Genesis} |-> Chains!Root]
  BY DEF Tree, Chains!Root, GenesisHeader
<1>3. Known = [n \in Node |-> {Genesis}]
  BY DEF Known
<1> QED
  BY <1>1, <1>2, <1>3 DEF Chains!Init

\* A found proof extends the chain its miner follows.
LEMMA FindProofExtends ==
  ASSUME TreeInv, NEW m \in MinerNode, FindProof(m, Clients)
  PROVE  Chains!Extend(m)
<1> DEFINE new  == <<m, clock[m]>>
           head == LastBlock[m]
           cur  == CurrentBlock[m]
<1> USE ClientAssumption DEF FindProof, chainVars
<1>1. /\ m \in Node /\ new \notin DOMAIN block
      /\ head \in DOMAIN block /\ block[head].id = head
  BY DEF TreeInv, Domains, TreeOK, IdsAreUsedOnce, KnownOK, HeadOK
<1>2. /\ cur.prev = head /\ cur.len = block[head].len + 1
      /\ cur = [id |-> cur.id, prev |-> head, len |-> block[head].len + 1,
                rewardAddr |-> m, txs |-> cur.txs, chain |-> Chain(block[head])]
  BY <1>1 DEF TreeInv, SearchOK, Initialized, Extends
<1>3. /\ DOMAIN block' = DOMAIN block \cup {new}
      /\ \A b \in DOMAIN block : block'[b] = block[b]
      /\ block'[new].prev = head
      /\ block'[new].len = block[head].len + 1
  BY <1>1, <1>2 DEF With
<1>4. /\ new \in DOMAIN Tree'
      /\ Chains!Grow(new, Chains!ChildOf(head))
  BY <1>1, <1>3 DEF Tree, Chains!Grow, Chains!ChildOf
<1>5. UNCHANGED <<Known, LastBlock>>
  BY DEF Known
<1> QED
  BY <1>4, <1>5 DEF Chains!Extend

\* An accepted block is learned.
LEMMA AcceptLearns ==
  ASSUME TreeInv, NEW n \in Node, NEW b \in DOMAIN block, AcceptBlock(n, b)
  PROVE  Chains!Learn(n, b)
<1>1. /\ b \notin DOMAIN Blocks[n]
      /\ block[b].prev \in DOMAIN Blocks[n]
      /\ block' = block
      /\ DOMAIN Blocks'[n] = DOMAIN Blocks[n] \cup {b}
      /\ \A k \in Node \ {n} : Blocks'[k] = Blocks[k]
  BY AcceptKnown
<1>2. b \notin Known[n] /\ Tree[b].parent \in Known[n]
  <2>1. Known[n] = DOMAIN Blocks[n]
    BY DEF Known
  <2>2. Tree[b].parent = block[b].prev
    BY TreeEntries
  <2> QED
    BY <1>1, <2>1, <2>2
<1>3. Known' = [Known EXCEPT ![n] = @ \cup {b}]
  <2>1. \A k \in Node : DOMAIN Blocks'[k] =
                         IF k = n THEN DOMAIN Blocks[n] \cup {b} ELSE DOMAIN Blocks[k]
    BY <1>1
  <2>2. Known' = [k \in Node |-> IF k = n THEN DOMAIN Blocks[n] \cup {b}
                                         ELSE DOMAIN Blocks[k]]
    BY <2>1 DEF Known
  <2> QED
    BY ONLY <2>2, n \in Node DEF Known
<1>4. Tree' = Tree
  BY <1>1 DEF Tree
<1>5. LastBlock[n] \in DOMAIN block
  BY DEF TreeInv, KnownOK, HeadOK
<1>6. /\ block[LastBlock[n]].len \in Nat /\ block[b].len \in Nat
      /\ Longer(n, b) <=> Tree[b].height > Tree[LastBlock[n]].height
  BY <1>5, TreeEntries DEF TreeInv, TreeOK, Longer
<1>7. LastBlock' = IF Tree[b].height > Tree[LastBlock[n]].height
                   THEN [LastBlock EXCEPT ![n] = b] ELSE LastBlock
  BY <1>6 DEF AcceptBlock
<1> QED
  BY <1>2, <1>3, <1>4, <1>7 DEF Chains!Learn

\* Steps that LongestChain does not see.
LEMMA SameChains ==
  ASSUME UNCHANGED <<block, Blocks, LastBlock>>
  PROVE  UNCHANGED Chains!vars
  BY DEF Chains!vars, Tree, Known

LEMMA NextChains ==
  ASSUME TreeInv, [Next]_vars
  PROVE  [Chains!Next]_Chains!vars
<1>1. CASE Next
  <2>1. ASSUME NEW n \in Node, NEW b \in DOMAIN block, AcceptBlock(n, b)
        PROVE  Chains!Next
    BY <2>1, AcceptLearns, TreeEntries DEF Chains!Next
  <2>2. ASSUME NEW m \in MinerNode, FindProof(m, Clients)
        PROVE  Chains!Next
    BY <2>2, FindProofExtends DEF Chains!Next
  <2>3. \/ \E n \in Node, b \in DOMAIN block : AcceptBlock(n, b)
        \/ \E m \in MinerNode : FindProof(m, Clients)
        \/ UNCHANGED <<block, Blocks, LastBlock>>
    <3>1. ASSUME NEW n \in Node, HandleBlock(n)
          PROVE  <2>3
      <4>1. PICK b \in DOMAIN block : ReceiveBlock(n, b)
        BY <3>1 DEF HandleBlock
      <4> QED
        BY <4>1 DEF ReceiveBlock, IgnoreBlock, StickBlock, chainVars
    <3>2. ASSUME NEW n \in Node, Join(n) \/ HandleRequest(n) \/ UserStep(n)
          PROVE  <2>3
      BY <3>2
         DEF Join, HandleRequest, ProvideMissingBlock, UserStep,
             PostTransaction, ResendPendingTransactions, chainVars
    <3>3. ASSUME NEW m \in MinerNode, HandleTransaction(m) \/ Mine(m)
          PROVE  <2>3
      BY <3>3
         DEF HandleTransaction, AddTransactionBytes, AddOwnTransaction, Mine,
             Initialize, FindProofAgain, chainVars
    <3> QED
      BY <1>1, <3>1, <3>2, <3>3 DEF Next
  <2> QED
    BY <2>1, <2>2, <2>3, SameChains
<1>2. CASE UNCHANGED vars
  BY <1>2, SameChains DEF vars, chainVars
<1> QED
  BY <1>1, <1>2

\* Whatever the nodes, the delays and the ledgers are, all that happens to the
\* blocks is what LongestChain allows.
THEOREM ImplementsLongestChain == Spec => FollowsLongestChain
<1>1. Init => Chains!Init
  BY InitChains
<1>2. TreeInv /\ [Next]_vars => [Chains!Next]_Chains!vars
  BY NextChains
<1> QED
  BY <1>1, <1>2, TreeInvariant, PTL DEF Spec, FollowsLongestChain, Chains!Spec

-----------------------------------------------------------------------------
(* The structural half of the type invariant, and who waits for what.      *)

\* A message is about a block that exists, waits at a registered node and, if
\* it is a request, came from one.
DeliverableAt(n, c) ==
  \/ c.op \in {"POST_TRANSACTION", "AddTransaction"}
  \/ /\ c \in Message
     /\ n \in Clients
     /\ c.op = "MISSING_BLOCK" => c.from \in Clients

NetInv ==
  /\ Clients \subseteq Node
  /\ DOMAIN calls = Node
  /\ DOMAIN PendingBlocks = Node
  /\ \A n \in Node :
       /\ PendingBlocks[n] \subseteq DOMAIN block
       /\ \A c \in DOMAIN calls[n] : DeliverableAt(n, c)
  /\ \A m \in MinerNode :
       Initialized(m) => /\ m \in Clients
                         /\ CurrentBlock[m].id \in DOMAIN block \cup {NoBlock}

\* What the operators of FakeNet do to the calls that wait at a node.
LEMMA Finished ==
  ASSUME NEW pool, DOMAIN pool = Node, NEW n \in Node, NEW c
  PROVE  /\ DOMAIN Finish(pool, n, c) = Node
         /\ \A k \in Node : DOMAIN Finish(pool, n, c)[k] \subseteq DOMAIN pool[k]
<1>1. \A B : DOMAIN BagRemove(B, c) \subseteq DOMAIN B
  BY DEF BagRemove
<1> QED
  BY <1>1 DEF Finish

LEMMA Spawned ==
  ASSUME NEW pool, DOMAIN pool = Node, NEW n \in Node, NEW c
  PROVE  /\ DOMAIN Spawn(pool, n, c) = Node
         /\ \A k \in Node : DOMAIN Spawn(pool, n, c)[k] \subseteq
              DOMAIN pool[k] \cup (IF k = n THEN {c} ELSE {})
<1>1. \A B : DOMAIN BagAdd(B, c) = DOMAIN B \cup {c}
  BY DEF BagAdd
<1> QED
  BY <1>1 DEF Spawn

LEMMA SpawnedAll ==
  ASSUME NEW pool, DOMAIN pool = Node, NEW n \in Node, NEW cs
  PROVE  /\ DOMAIN SpawnAll(pool, n, cs) = Node
         /\ \A k \in Node : DOMAIN SpawnAll(pool, n, cs)[k] \subseteq
              DOMAIN pool[k] \cup (IF k = n THEN cs ELSE {})
  BY DEF SpawnAll, AddAll

LEMMA Broadcasted ==
  ASSUME NEW pool, DOMAIN pool = Node, NEW L, L \subseteq Clients, NEW cs
  PROVE  /\ DOMAIN BroadcastAll(pool, L, cs) = Node
         /\ \A k \in Node : DOMAIN BroadcastAll(pool, L, cs)[k] \subseteq
              DOMAIN pool[k] \cup (IF k \in Clients THEN cs ELSE {})
  BY DEF BroadcastAll, AddAll

LEMMA InitNet == Init => NetInv
  BY SpartanGoldAssumption
     DEF Init, NetInit, ClientInit, MinerInit, NetInv, Initialized

\* A step keeps NetInv if all that it adds is deliverable.
LEMMA KeepNet ==
  ASSUME NetInv,
         DOMAIN block \subseteq DOMAIN block',
         Clients \subseteq Clients', Clients' \subseteq Node,
         DOMAIN calls' = Node,
         \A k \in Node : \A c \in DOMAIN calls'[k] :
           c \in DOMAIN calls[k] \/ DeliverableAt(k, c)',
         DOMAIN PendingBlocks' = Node,
         \A k \in Node : PendingBlocks'[k] \subseteq DOMAIN block',
         \A m \in MinerNode :
           Initialized(m)' => /\ m \in Clients'
                              /\ CurrentBlock'[m].id \in DOMAIN block' \cup {NoBlock}
  PROVE  NetInv'
<1>1. ASSUME NEW k \in Node, NEW c, DeliverableAt(k, c)
      PROVE  DeliverableAt(k, c)'
  <2>1. c \in Message => c \in Message'
    BY DEF Message
  <2> QED
    BY <1>1, <2>1 DEF DeliverableAt
<1>2. ASSUME NEW k \in Node, NEW c \in DOMAIN calls'[k]
      PROVE  DeliverableAt(k, c)'
  BY <1>1, <1>2 DEF NetInv
<1> QED
  BY <1>2 DEF NetInv

\* The block messages that a step may add at k.
LEMMA NewProofFound ==
  ASSUME NEW k \in Clients', NEW b \in DOMAIN block'
  PROVE  DeliverableAt(k, PROOF_FOUND(b))'
  BY DEF DeliverableAt, Message, PROOF_FOUND

LEMMA NewMissingBlock ==
  ASSUME NEW k \in Clients', NEW from \in Clients', from \in Node,
         NEW prev \in DOMAIN block'
  PROVE  DeliverableAt(k, MISSING_BLOCK(from, prev))'
  BY DEF DeliverableAt, Message, MISSING_BLOCK

LEMMA ReceiverRegistered ==
  ASSUME NetInv, NEW n \in Node, NEW b, Pending(n, PROOF_FOUND(b))
  PROVE  n \in Clients
  BY DEF NetInv, Pending, DeliverableAt, PROOF_FOUND

LEMMA JoinNet ==
  ASSUME NetInv, NEW n \in Node, Join(n)
  PROVE  NetInv'
<1> USE DEF Join, Register, minerVars, chainVars, NetInv
<1>1. \A m \in MinerNode : Initialized(m)' = Initialized(m)
  BY DEF Initialized
<1> QED
  BY <1>1, KeepNet

LEMMA HandleBlockNet ==
  ASSUME TreeInv, NetInv, NEW n \in Node, HandleBlock(n)
  PROVE  NetInv'
<1> PICK b \in DOMAIN block : ReceiveBlock(n, b)
  BY DEF HandleBlock
<1> DEFINE rest == Finish(calls, n, PROOF_FOUND(b))
<1>1. n \in Clients
  BY ReceiverRegistered DEF ReceiveBlock
<1>2. DOMAIN calls = Node /\ DOMAIN PendingBlocks = Node
  BY DEF NetInv
<1>3. /\ DOMAIN rest = Node
      /\ \A k \in Node : DOMAIN rest[k] \subseteq DOMAIN calls[k]
  BY <1>2, Finished
<1>4. CASE IgnoreBlock(n, b) /\ UNCHANGED minerVars
  <2> USE DEF IgnoreBlock, minerVars, chainVars
  <2>1. \A m \in MinerNode : Initialized(m)' = Initialized(m)
    BY <1>4 DEF Initialized
  <2> QED
    BY <1>3, <1>4, <2>1, KeepNet DEF NetInv
<1>5. CASE StickBlock(n, b, Clients) /\ UNCHANGED minerVars
  <2> USE DEF StickBlock, minerVars
  <2> DEFINE prev == block[b].prev
             ask  == MISSING_BLOCK(n, prev)
  <2>1. \A m \in MinerNode : Initialized(m)' = Initialized(m)
    BY <1>5 DEF Initialized
  <2>2. prev \in DOMAIN block
    BY <1>5, OneGenesis DEF TreeInv, TreeOK, ParentKnown
  <2>3. /\ DOMAIN calls' = Node
        /\ \A k \in Node : DOMAIN calls'[k] \subseteq
             DOMAIN calls[k] \cup (IF k \in Clients THEN {ask} ELSE {})
    <3>1. /\ DOMAIN BroadcastAll(rest, Clients, {ask}) = Node
          /\ \A k \in Node : DOMAIN BroadcastAll(rest, Clients, {ask})[k] \subseteq
               DOMAIN rest[k] \cup (IF k \in Clients THEN {ask} ELSE {})
      BY <1>3, Broadcasted
    <3>2. \/ calls' = rest
          \/ calls' = BroadcastAll(rest, Clients, {ask})
      BY <1>5 DEF RequestMissingBlock, Broadcast
    <3> QED
      BY <1>3, <3>1, <3>2
  <2>4. ASSUME NEW k \in Node, NEW c \in DOMAIN calls'[k]
        PROVE  c \in DOMAIN calls[k] \/ DeliverableAt(k, c)'
    BY <1>1, <1>5, <2>2, <2>3, <2>4, NewMissingBlock
  <2>5. \A k \in Node : PendingBlocks'[k] \subseteq DOMAIN block'
    BY <1>2, <1>5 DEF NetInv
  <2> QED
    BY <1>2, <1>5, <2>1, <2>3, <2>4, <2>5, KeepNet DEF NetInv
<1>6. CASE Accepts(n, b)
  <2>1. AcceptBlock(n, b)
    BY <1>6 DEF Accepts
  <2>2. block' = block /\ Clients' = Clients
    BY <2>1 DEF AcceptBlock
  <2>3. /\ DOMAIN PendingBlocks' = Node
        /\ \A k \in Node : PendingBlocks'[k] \subseteq PendingBlocks[k]
    BY <1>2, <2>1 DEF AcceptBlock
  <2>4. /\ DOMAIN calls' = Node
        /\ \A k \in Node : DOMAIN calls'[k] \subseteq
             DOMAIN calls[k] \cup
               (IF k = n THEN {PROOF_FOUND(u) : u \in StuckOn(n, b)} ELSE {})
    BY <1>3, <2>1, SpawnedAll DEF AcceptBlock
  <2>5. StuckOn(n, b) \subseteq DOMAIN block
    BY DEF NetInv, StuckOn
  <2>6. ASSUME NEW k \in Node, NEW c \in DOMAIN calls'[k]
        PROVE  c \in DOMAIN calls[k] \/ DeliverableAt(k, c)'
    BY <1>1, <2>2, <2>4, <2>5, <2>6, NewProofFound
  <2>7. ASSUME NEW m \in MinerNode, Initialized(m)'
        PROVE  /\ m \in Clients'
               /\ CurrentBlock'[m].id \in DOMAIN block' \cup {NoBlock}
    <3>1. \/ CurrentBlock'[m] = CurrentBlock[m]
          \/ Initialized(m) /\ CurrentBlock'[m].id = NoBlock
      <4>1. CASE n \in MinerNode /\ Initialized(n) /\ block[b].len >= CurrentBlock[n].len
        <5>1. StartNewSearch(n, LastBlock'[n], Blocks'[n][LastBlock'[n]],
                             Transactions[n] \cup SyncTransaction(n, b))
          BY <1>6, <4>1 DEF Accepts, CutOver
        <5> QED
          BY <4>1, <5>1, NewSearch DEF TreeInv, Domains
      <4>2. CASE ~ (n \in MinerNode /\ Initialized(n) /\ block[b].len >= CurrentBlock[n].len)
        BY <1>6, <4>2 DEF Accepts, CutOver
      <4> QED
        BY <4>1, <4>2
    <3> QED
      BY <2>2, <2>7, <3>1 DEF NetInv, Initialized
  <2> QED
    BY <2>2, <2>3, <2>4, <2>6, <2>7, KeepNet DEF NetInv
<1> QED
  BY <1>4, <1>5, <1>6 DEF ReceiveBlock, Accepts

LEMMA HandleRequestNet ==
  ASSUME TreeInv, NetInv, NEW n \in Node, HandleRequest(n)
  PROVE  NetInv'
<1> USE DEF HandleRequest, minerVars, chainVars
<1> PICK call \in DOMAIN calls[n] :
      call.op = "MISSING_BLOCK" /\ ProvideMissingBlock(n, call.from, call.prev)
  OBVIOUS
<1> DEFINE ask    == MISSING_BLOCK(call.from, call.prev)
           rest   == Finish(calls, n, ask)
           answer == PROOF_FOUND(call.prev)
<1> USE DEF ProvideMissingBlock
<1>1. call.from \in Node /\ call.from \in Clients
  BY DEF NetInv, DeliverableAt
<1>2. DOMAIN calls = Node
  BY DEF NetInv
<1>3. DOMAIN rest = Node /\ \A k \in Node : DOMAIN rest[k] \subseteq DOMAIN calls[k]
  BY <1>2, Finished
<1>4. \/ calls' = rest
      \/ /\ call.prev \in DOMAIN block
         /\ calls' = Spawn(rest, call.from, answer)
  BY DEF TreeInv, KnownOK, SendMessage
<1>5. /\ DOMAIN calls' = Node
      /\ \A k \in Node : \A c \in DOMAIN calls'[k] :
           \/ c \in DOMAIN calls[k]
           \/ k = call.from /\ c = answer /\ call.prev \in DOMAIN block
  BY <1>1, <1>3, <1>4, Spawned
<1>6. ASSUME NEW k \in Node, NEW c \in DOMAIN calls'[k]
      PROVE  c \in DOMAIN calls[k] \/ DeliverableAt(k, c)'
  BY <1>1, <1>5, <1>6, NewProofFound
<1>7. \A m \in MinerNode : Initialized(m)' = Initialized(m)
  BY DEF Initialized
<1> QED
  BY <1>5, <1>6, <1>7, KeepNet DEF NetInv

LEMMA UserStepNet ==
  ASSUME NetInv, NEW n \in Node, UserStep(n)
  PROVE  NetInv'
<1> USE DEF UserStep, minerVars, chainVars
<1>1. DOMAIN calls = Node
  BY DEF NetInv
<1>2. \A m \in MinerNode : Initialized(m)' = Initialized(m)
  BY DEF Initialized, PostTransaction, ResendPendingTransactions
<1>3. ASSUME NEW k \in Node, NEW c,
             c.op \in {"POST_TRANSACTION", "AddTransaction"}
      PROVE  DeliverableAt(k, c)'
  BY <1>3 DEF DeliverableAt
<1>4. ASSUME NEW payment \in Payment, PostTransaction(n, payment)
      PROVE  NetInv'
  <2> DEFINE tx   == NewTransaction(n, payment)
             post == POST_TRANSACTION(tx)
             add  == AddTransactionCall(tx)
             sent == BroadcastAll(calls, Clients \cap MinerNode, {post})
  <2>1. /\ DOMAIN sent = Node
        /\ \A k \in Node : DOMAIN sent[k] \subseteq
             DOMAIN calls[k] \cup (IF k \in Clients THEN {post} ELSE {})
    BY <1>1, Broadcasted
  <2>2. calls' = sent \/ calls' = Spawn(sent, n, add)
    BY <1>4 DEF PostTransaction, Broadcast
  <2>3. /\ DOMAIN calls' = Node
        /\ \A k \in Node : DOMAIN calls'[k] \subseteq DOMAIN calls[k] \cup {post, add}
    BY <2>1, <2>2, Spawned
  <2>4. /\ post.op \in {"POST_TRANSACTION", "AddTransaction"}
        /\ add.op \in {"POST_TRANSACTION", "AddTransaction"}
    BY DEF POST_TRANSACTION, AddTransactionCall
  <2>5. ASSUME NEW k \in Node, NEW c \in DOMAIN calls'[k]
        PROVE  c \in DOMAIN calls[k] \/ DeliverableAt(k, c)'
    <3>1. c \in DOMAIN calls[k] \/ c = post \/ c = add
      BY <2>3, <2>5
    <3> HIDE DEF post, add
    <3> QED
      BY <1>3, <2>4, <3>1
  <2> QED
    BY <1>2, <1>4, <2>3, <2>5, KeepNet DEF NetInv, PostTransaction
<1>5. CASE ResendPendingTransactions(n)
  <2> DEFINE again == {POST_TRANSACTION(tx) : tx \in PendingOutgoingTransactions[n]}
  <2>1. calls' = BroadcastAll(calls, Clients \cap MinerNode, again)
    BY <1>5 DEF ResendPendingTransactions
  <2>2. /\ DOMAIN calls' = Node
        /\ \A k \in Node : DOMAIN calls'[k] \subseteq DOMAIN calls[k] \cup again
    BY <1>1, <2>1, Broadcasted
  <2>3. \A c \in again : c.op \in {"POST_TRANSACTION", "AddTransaction"}
    BY DEF POST_TRANSACTION
  <2>4. ASSUME NEW k \in Node, NEW c \in DOMAIN calls'[k]
        PROVE  c \in DOMAIN calls[k] \/ DeliverableAt(k, c)'
    BY <1>3, <2>2, <2>3, <2>4
  <2> QED
    BY <1>2, <1>5, <2>2, <2>4, KeepNet DEF NetInv, ResendPendingTransactions
<1> QED
  BY <1>4, <1>5

LEMMA HandleTransactionNet ==
  ASSUME NetInv, NEW m \in MinerNode, HandleTransaction(m)
  PROVE  NetInv'
<1> USE ClientAssumption DEF chainVars
<1>1. DOMAIN calls = Node /\ m \in Node
  BY DEF NetInv
<1>2. PICK c : /\ calls' = Finish(calls, m, c)
              /\ UNCHANGED <<Clients, block, chainVars, CurrentBlock>>
  BY DEF HandleTransaction, AddTransactionBytes, AddOwnTransaction
<1>3. /\ DOMAIN calls' = Node
      /\ \A k \in Node : DOMAIN calls'[k] \subseteq DOMAIN calls[k]
  BY <1>1, <1>2, Finished
<1>4. \A k \in MinerNode : Initialized(k)' = Initialized(k)
  BY <1>2 DEF Initialized
<1> QED
  BY <1>2, <1>3, <1>4, KeepNet DEF NetInv

LEMMA AnnounceProofNet ==
  ASSUME NetInv, NEW m \in MinerNode, Initialized(m), NEW b \in DOMAIN block',
         Clients' = Clients, calls' = AnnounceProof(m, b, Clients)
  PROVE  /\ DOMAIN calls' = Node
         /\ \A k \in Node : \A c \in DOMAIN calls'[k] :
              c \in DOMAIN calls[k] \/ DeliverableAt(k, c)'
<1> DEFINE found == PROOF_FOUND(b)
           sent  == BroadcastAll(calls, Clients, {found})
<1>1. DOMAIN calls = Node /\ m \in Node /\ m \in Clients
  BY ClientAssumption DEF NetInv
<1>2. /\ DOMAIN sent = Node
      /\ \A k \in Node : DOMAIN sent[k] \subseteq
           DOMAIN calls[k] \cup (IF k \in Clients THEN {found} ELSE {})
  BY <1>1, Broadcasted
<1>3. calls' = Spawn(sent, m, found)
  BY DEF AnnounceProof, Broadcast
<1>4. /\ DOMAIN calls' = Node
      /\ \A k \in Node : DOMAIN calls'[k] \subseteq
           DOMAIN calls[k] \cup (IF k \in Clients THEN {found} ELSE {})
  <2> HIDE DEF sent, found
  <2>1. /\ DOMAIN Spawn(sent, m, found) = Node
        /\ \A k \in Node : DOMAIN Spawn(sent, m, found)[k] \subseteq
             DOMAIN sent[k] \cup (IF k = m THEN {found} ELSE {})
    BY <1>1, <1>2, Spawned
  <2> QED
    BY <1>1, <1>2, <1>3, <2>1
<1>5. \A k \in Node \cap Clients : DeliverableAt(k, found)'
  BY NewProofFound
<1> QED
  BY <1>4, <1>5

LEMMA MineNet ==
  ASSUME TreeInv, NetInv, NEW m \in MinerNode, Mine(m)
  PROVE  NetInv'
<1> USE ClientAssumption DEF chainVars
<1>1. DOMAIN CurrentBlock = MinerNode
  BY DEF TreeInv, Domains
<1>2. CASE Initialize(m)
  <2>1. /\ CurrentBlock'[m].id = NoBlock
        /\ \A k \in MinerNode \ {m} : CurrentBlock'[k] = CurrentBlock[k]
    BY <1>1, <1>2, NewSearch DEF Initialize
  <2>2. m \in Clients
    BY <1>2 DEF Initialize
  <2> QED
    BY <1>2, <2>1, <2>2, KeepNet DEF Initialize, Initialized, netVars, NetInv
<1>3. CASE FindProof(m, Clients)
  <2> DEFINE new == <<m, clock[m]>>
  <2>1. DOMAIN block' = DOMAIN block \cup {new}
    BY <1>3 DEF FindProof, With
  <2>2. /\ DOMAIN calls' = Node
        /\ \A k \in Node : \A c \in DOMAIN calls'[k] :
             c \in DOMAIN calls[k] \/ DeliverableAt(k, c)'
    BY <1>3, <2>1, AnnounceProofNet DEF FindProof
  <2>3. ASSUME NEW k \in MinerNode, Initialized(k)'
        PROVE  /\ k \in Clients'
               /\ CurrentBlock'[k].id \in DOMAIN block' \cup {NoBlock}
    <3>1. CASE k = m
      <4>1. CurrentBlock[m] = [id |-> CurrentBlock[m].id, prev |-> block[LastBlock[m]].id,
                len |-> block[LastBlock[m]].len + 1, rewardAddr |-> m,
                txs |-> CurrentBlock[m].txs, chain |-> Chain(block[LastBlock[m]])]
        BY <1>3 DEF FindProof, Initialized, TreeInv, SearchOK, Extends
      <4>2. CurrentBlock'[m] = [CurrentBlock[m] EXCEPT !.id = new]
        BY <1>1, <1>3 DEF FindProof
      <4>3. CurrentBlock'[m].id = new
        BY <4>1, <4>2
      <4> QED
        BY <1>3, <2>1, <3>1, <4>3 DEF FindProof, NetInv
    <3>2. CASE k # m
      BY <1>1, <1>3, <2>1, <2>3, <3>2 DEF FindProof, NetInv, Initialized
    <3> QED
      BY <3>1, <3>2
  <2> QED
    BY <1>3, <2>1, <2>2, <2>3, KeepNet DEF FindProof, NetInv
<1>4. CASE FindProofAgain(m, Clients)
  <2> USE DEF minerVars
  <2>1. CurrentBlock[m].id \in DOMAIN block'
    BY <1>4 DEF FindProofAgain, NetInv
  <2>2. /\ DOMAIN calls' = Node
        /\ \A k \in Node : \A c \in DOMAIN calls'[k] :
             c \in DOMAIN calls[k] \/ DeliverableAt(k, c)'
    BY <1>4, <2>1, AnnounceProofNet DEF FindProofAgain
  <2>3. \A k \in MinerNode : Initialized(k)' = Initialized(k)
    BY <1>4 DEF FindProofAgain, Initialized
  <2> QED
    BY <1>4, <2>2, <2>3, KeepNet DEF FindProofAgain, NetInv
<1> QED
  BY <1>2, <1>3, <1>4 DEF Mine

LEMMA NextNet ==
  ASSUME TreeInv, NetInv, [Next]_vars
  PROVE  NetInv'
<1>1. CASE UNCHANGED vars
  <2>1. UNCHANGED <<Clients, calls, block, PendingBlocks, CurrentBlock>>
    BY <1>1 DEF vars, netVars, chainVars, minerVars
  <2>2. \A m \in MinerNode : Initialized(m)' = Initialized(m)
    BY <2>1 DEF Initialized
  <2> QED
    BY <2>1, <2>2, KeepNet DEF NetInv
<1> QED
  BY <1>1, JoinNet, HandleBlockNet, HandleRequestNet, UserStepNet,
     HandleTransactionNet, MineNet DEF Next

\* Every waiting message is about a known block and is between registered nodes.
THEOREM NetInvariant == Spec => []NetInv
<1>1. Init => TreeInv /\ NetInv
  BY InitTree, InitNet
<1>2. TreeInv /\ NetInv /\ [Next]_vars => (TreeInv /\ NetInv)'
  BY NextTree, NextNet
<1> QED
  BY <1>1, <1>2, PTL DEF Spec

\* ProvideMissingBlock always has a registered client to answer.
THEOREM RequestersAreRegistered == Spec => []RequestersRegistered
<1>1. NetInv => RequestersRegistered
  BY DEF NetInv, RequestersRegistered, DeliverableAt
<1> QED
  BY <1>1, NetInvariant, PTL

\* The structural half of TypeOK.
THEOREM StructureInvariant == Spec => []StructureOK
<1>1. TreeInv /\ NetInv => StructureOK
  <2> SUFFICES ASSUME TreeInv, NetInv
               PROVE  StructureOK
    OBVIOUS
  <2>1. ASSUME NEW n \in Node
        PROVE  LastConfirmedBlock[n] \in DOMAIN Blocks[n]
    BY ConfirmedKnown
  <2>2. \A n \in Node : \A c \in DOMAIN calls[n] :
          c \in Message \/ c.op \in {"POST_TRANSACTION", "AddTransaction"}
    BY DEF NetInv, DeliverableAt
  <2> QED
    BY <2>1, <2>2
       DEF StructureOK, TreeInv, Domains, TreeOK, KnownOK, HeadOK, NetInv
<1> QED
  BY <1>1, TreeInvariant, NetInvariant, PTL

-----------------------------------------------------------------------------
(* Requests for missing blocks: a block that waits for its parent is not   *)
(* forgotten.                                                              *)
(*                                                                         *)
(* ReceiveBlock drops a block that Rerun refuses, and with it those that   *)
(* wait for it.  That no such block is ever announced is the hypothesis    *)
(* HonestBlocksReplay, which is about ledgers and not about requests;      *)
(* HonestBlocksAreReplayed proves it.                                      *)

\* A registered node has the parent of every block, to answer a request for it:
\* the miner that found the block had it.
ParentsHeld ==
  \A b \in DOMAIN block \ {Genesis} :
    \E k \in Clients : block[b].prev \in DOMAIN Blocks[k]

\* The parent of a stuck block is on its way to n.
Awaited(n, prev) ==
  \/ prev \in PendingBlocks[n]
  \/ Pending(n, PROOF_FOUND(prev))
  \/ \E k \in Node : /\ prev \in DOMAIN Blocks[k]
                     /\ Pending(k, MISSING_BLOCK(n, prev))
                     /\ n \in Clients

StuckOK(n) ==
  \A u \in PendingBlocks[n] :
    /\ block[u].prev \notin DOMAIN Blocks[n]
    /\ Awaited(n, block[u].prev)

StrandInv == ParentsHeld /\ \A n \in Node : StuckOK(n)

-----------------------------------------------------------------------------
(* What stays of the waiting calls *)

LEMMA FinishKeeps ==
  ASSUME NEW pool, DOMAIN pool = Node, NEW n \in Node, NEW c,
         NEW k \in Node, NEW d \in DOMAIN pool[k], k # n \/ d # c
  PROVE  d \in DOMAIN Finish(pool, n, c)[k]
<1>1. \A B : d \in DOMAIN B /\ d # c => d \in DOMAIN BagRemove(B, c)
  BY DEF BagRemove
<1>2. Finish(pool, n, c)[k] = IF k = n THEN BagRemove(pool[k], c) ELSE pool[k]
  BY DEF Finish
<1> QED
  BY <1>1, <1>2

LEMMA SpawnKeeps ==
  ASSUME NEW pool, DOMAIN pool = Node, NEW n \in Node, NEW c, NEW k \in Node
  PROVE  /\ DOMAIN pool[k] \subseteq DOMAIN Spawn(pool, n, c)[k]
         /\ c \in DOMAIN Spawn(pool, n, c)[n]
<1>1. \A B : DOMAIN BagAdd(B, c) = DOMAIN B \cup {c}
  BY DEF BagAdd
<1>2. /\ Spawn(pool, n, c)[k] = IF k = n THEN BagAdd(pool[k], c) ELSE pool[k]
      /\ Spawn(pool, n, c)[n] = BagAdd(pool[n], c)
  BY DEF Spawn
<1> QED
  BY <1>1, <1>2

LEMMA SpawnAllKeeps ==
  ASSUME NEW pool, DOMAIN pool = Node, NEW n \in Node, NEW cs, NEW k \in Node
  PROVE  /\ DOMAIN pool[k] \subseteq DOMAIN SpawnAll(pool, n, cs)[k]
         /\ cs \subseteq DOMAIN SpawnAll(pool, n, cs)[n]
  BY DEF SpawnAll, AddAll

LEMMA BroadcastKeeps ==
  ASSUME NEW pool, DOMAIN pool = Node, NEW L, NEW cs, NEW k \in Node
  PROVE  /\ DOMAIN pool[k] \subseteq DOMAIN BroadcastAll(pool, L, cs)[k]
         /\ k \in L => cs \subseteq DOMAIN BroadcastAll(pool, L, cs)[k]
  BY DEF BroadcastAll, AddAll

\* The messages are told apart by what they are about.
LEMMA DistinctCalls ==
  /\ \A b, c : PROOF_FOUND(b) = PROOF_FOUND(c) <=> b = c
  /\ \A b, n, c : PROOF_FOUND(b) # MISSING_BLOCK(n, c)
  /\ \A m, n, b, c :
       MISSING_BLOCK(m, b) = MISSING_BLOCK(n, c) <=> m = n /\ b = c
  /\ \A b, t : /\ PROOF_FOUND(b) # POST_TRANSACTION(t)
               /\ PROOF_FOUND(b) # AddTransactionCall(t)
  /\ \A n, b, t : /\ MISSING_BLOCK(n, b) # POST_TRANSACTION(t)
                  /\ MISSING_BLOCK(n, b) # AddTransactionCall(t)
<1> USE DEF PROOF_FOUND, MISSING_BLOCK, POST_TRANSACTION, AddTransactionCall
<1>1. \A b, c : PROOF_FOUND(b) = PROOF_FOUND(c) <=> b = c
  OBVIOUS
<1>2. \A m, n, b, c :
       MISSING_BLOCK(m, b) = MISSING_BLOCK(n, c) <=> m = n /\ b = c
  OBVIOUS
<1>3. \A b, n, c : PROOF_FOUND(b).op # MISSING_BLOCK(n, c).op
  OBVIOUS
<1>4. \A b, t : /\ PROOF_FOUND(b).op # POST_TRANSACTION(t).op
                /\ PROOF_FOUND(b).op # AddTransactionCall(t).op
  OBVIOUS
<1>5. \A n, b, t : /\ MISSING_BLOCK(n, b).op # POST_TRANSACTION(t).op
                   /\ MISSING_BLOCK(n, b).op # AddTransactionCall(t).op
  OBVIOUS
<1> HIDE DEF PROOF_FOUND, MISSING_BLOCK, POST_TRANSACTION, AddTransactionCall
<1> QED
  BY <1>1, <1>2, <1>3, <1>4, <1>5

-----------------------------------------------------------------------------
(* StrandInv is inductive. *)

LEMMA InitStrand == Init => StrandInv
  BY DEF Init, ClientInit, StrandInv, ParentsHeld, StuckOK

\* A step that loses no block and no request, and adds no stuck block.
LEMMA KeepStrand ==
  ASSUME TreeInv, NetInv, StrandInv,
         block' = block, Clients \subseteq Clients',
         Blocks' = Blocks, PendingBlocks' = PendingBlocks,
         \A k \in Node : \A d \in DOMAIN calls[k] :
           d.op \in {"PROOF_FOUND", "MISSING_BLOCK"} => d \in DOMAIN calls'[k]
  PROVE  StrandInv'
<1>1. ParentsHeld'
  BY DEF StrandInv, ParentsHeld
<1>2. ASSUME NEW n \in Node, NEW prev, Awaited(n, prev)
      PROVE  Awaited(n, prev)'
  <2>1. /\ PROOF_FOUND(prev).op \in {"PROOF_FOUND", "MISSING_BLOCK"}
        /\ MISSING_BLOCK(n, prev).op \in {"PROOF_FOUND", "MISSING_BLOCK"}
    BY DEF PROOF_FOUND, MISSING_BLOCK
  <2> QED
    BY <1>2, <2>1 DEF Awaited, Pending
<1>3. \A n \in Node : StuckOK(n)'
  BY <1>2 DEF StrandInv, StuckOK
<1> QED
  BY <1>1, <1>3 DEF StrandInv

\* A refused block is known already: HonestBlocksReplay rules the other reason
\* out.
LEMMA IgnoreStrand ==
  ASSUME TreeInv, NetInv, StrandInv, HonestBlocksReplay,
         NEW n \in Node, NEW b \in DOMAIN block, IgnoreBlock(n, b)
  PROVE  StrandInv'
<1> USE DEF IgnoreBlock, chainVars
<1>1. b \in DOMAIN Blocks[n]
  <2> SUFFICES ASSUME b \notin DOMAIN Blocks[n] PROVE FALSE
    OBVIOUS
  <2>1. b # Genesis /\ ~ IsGenesisBlock(b)
    BY OneGenesis DEF TreeInv, KnownOK
  <2>2. ParentKnown(n, b) /\ ~ Valid(n, b)
    BY DEF Refused, hasValidProof
  <2> QED
    BY <2>1, <2>2 DEF ParentKnown, HonestBlocksReplay
<1>2. DOMAIN calls = Node
  BY DEF NetInv
<1>3. ASSUME NEW k \in Node, NEW d \in DOMAIN calls[k], k # n \/ d # PROOF_FOUND(b)
      PROVE  d \in DOMAIN calls'[k]
  BY <1>2, <1>3, FinishKeeps
<1>4. ParentsHeld'
  BY DEF StrandInv, ParentsHeld
<1>5. ASSUME NEW k \in Node, NEW u \in PendingBlocks[k], NEW prev,
             prev = block[u].prev
      PROVE  Awaited(k, prev)'
  <2>1. prev \notin DOMAIN Blocks[k] /\ Awaited(k, prev)
    BY <1>5 DEF StrandInv, StuckOK
  <2>2. CASE Pending(k, PROOF_FOUND(prev))
    <3>1. k # n \/ PROOF_FOUND(prev) # PROOF_FOUND(b)
      BY <1>1, <2>1, DistinctCalls
    <3> QED
      BY <1>3, <2>2, <3>1 DEF Awaited, Pending
  <2>3. ASSUME NEW h \in Node, prev \in DOMAIN Blocks[h],
               Pending(h, MISSING_BLOCK(k, prev)), k \in Clients
        PROVE  Awaited(k, prev)'
    BY <1>3, <2>3, DistinctCalls DEF Awaited, Pending
  <2> QED
    BY <2>1, <2>2, <2>3 DEF Awaited
<1>6. \A k \in Node : StuckOK(k)'
  BY <1>5 DEF StrandInv, StuckOK
<1> QED
  BY <1>4, <1>6 DEF StrandInv

\* A block that gets stuck first for its parent asks all registered nodes for
\* it, and one of them has it.
LEMMA StickStrand ==
  ASSUME TreeInv, NetInv, StrandInv, NEW n \in Node, NEW b \in DOMAIN block,
         Pending(n, PROOF_FOUND(b)), StickBlock(n, b, Clients)
  PROVE  StrandInv'
<1> DEFINE prev == block[b].prev
           ask  == MISSING_BLOCK(n, prev)
           rest == Finish(calls, n, PROOF_FOUND(b))
<1>1. /\ Clients' = Clients /\ block' = block /\ Blocks' = Blocks
      /\ PendingBlocks' = [PendingBlocks EXCEPT ![n] = @ \cup {b}]
      /\ calls' = IF StuckOn(n, prev) = {} THEN BroadcastAll(rest, Clients, {ask})
                                           ELSE rest
  BY DEF StickBlock, RequestMissingBlock, Broadcast
<1>2. /\ DOMAIN calls = Node /\ DOMAIN PendingBlocks = Node
      /\ Clients \subseteq Node /\ n \in Clients
  BY ReceiverRegistered DEF NetInv
<1>3. /\ b # Genesis /\ b \notin DOMAIN Blocks[n]
      /\ prev \notin DOMAIN Blocks[n]
  BY DEF StickBlock, Refused, ParentKnown, TreeInv, KnownOK
<1>4. DOMAIN rest = Node
  BY <1>2, Finished
<1>5. ASSUME NEW k \in Node, NEW d \in DOMAIN calls[k], k # n \/ d # PROOF_FOUND(b)
      PROVE  d \in DOMAIN calls'[k]
  <2>1. d \in DOMAIN rest[k]
    BY <1>2, <1>5, FinishKeeps
  <2>2. DOMAIN rest[k] \subseteq DOMAIN BroadcastAll(rest, Clients, {ask})[k]
    BY <1>4, BroadcastKeeps
  <2> HIDE DEF rest, ask
  <2> QED
    BY <1>1, <2>1, <2>2
<1>6. ParentsHeld'
  BY <1>1 DEF StrandInv, ParentsHeld
<1>7. ASSUME NEW k \in Node, NEW p, Awaited(k, p)
      PROVE  Awaited(k, p)'
  <2>1. CASE p \in PendingBlocks[k]
    BY <1>1, <1>2, <2>1 DEF Awaited
  <2>2. CASE Pending(k, PROOF_FOUND(p))
    <3>1. CASE k = n /\ p = b
      BY <1>1, <1>2, <3>1 DEF Awaited
    <3>2. CASE ~ (k = n /\ p = b)
      BY <1>5, <2>2, <3>2, DistinctCalls DEF Awaited, Pending
    <3> QED
      BY <3>1, <3>2
  <2>3. ASSUME NEW h \in Node, p \in DOMAIN Blocks[h],
               Pending(h, MISSING_BLOCK(k, p)), k \in Clients
        PROVE  Awaited(k, p)'
    <3>1. MISSING_BLOCK(k, p) \in DOMAIN calls'[h]
      BY <1>5, <2>3, DistinctCalls DEF Pending
    <3> QED
      BY <1>1, <2>3, <3>1 DEF Awaited, Pending
  <2> QED
    BY <1>7, <2>1, <2>2, <2>3 DEF Awaited
<1>8. ASSUME NEW p, p = prev
      PROVE  Awaited(n, p)'
  <2>1. CASE StuckOn(n, prev) = {}
    <3>1. PICK k \in Clients : prev \in DOMAIN Blocks[k]
      BY <1>3 DEF StrandInv, ParentsHeld
    <3>2. ask \in DOMAIN BroadcastAll(rest, Clients, {ask})[k]
      <4> HIDE DEF rest, ask
      <4> QED
        BY <1>2, <1>4, BroadcastKeeps
    <3>3. ask = MISSING_BLOCK(n, p)
      BY <1>8
    <3> HIDE DEF ask, prev
    <3> QED
      BY <1>1, <1>2, <1>8, <2>1, <3>1, <3>2, <3>3 DEF Awaited, Pending
  <2>2. CASE StuckOn(n, prev) # {}
    <3>1. PICK u \in PendingBlocks[n] : block[u].prev = prev
      BY <2>2 DEF StuckOn
    <3>2. Awaited(n, p)
      BY <1>8, <3>1 DEF StrandInv, StuckOK
    <3> QED
      BY <1>7, <3>2
  <2> QED
    BY <2>1, <2>2
<1>9. ASSUME NEW k \in Node, NEW u \in PendingBlocks'[k], NEW p, p = block[u].prev
      PROVE  p \notin DOMAIN Blocks'[k] /\ Awaited(k, p)'
  <2>1. CASE u \in PendingBlocks[k]
    <3>1. p \notin DOMAIN Blocks[k] /\ Awaited(k, p)
      BY <1>9, <2>1 DEF StrandInv, StuckOK
    <3> QED
      BY <1>1, <1>7, <3>1
  <2>2. CASE u \notin PendingBlocks[k]
    <3>1. k = n /\ u = b
      BY <1>1, <1>2, <1>9, <2>2
    <3> QED
      BY <1>1, <1>3, <1>8, <1>9, <3>1
  <2> QED
    BY <2>1, <2>2
<1>10. \A k \in Node : StuckOK(k)'
  BY <1>1, <1>9 DEF StuckOK
<1> QED
  BY <1>6, <1>10 DEF StrandInv

\* The blocks that waited for the accepted one are received again; a block that
\* waits for one of those now waits for a message.
LEMMA AcceptStrand ==
  ASSUME TreeInv, NetInv, StrandInv, NEW n \in Node, NEW b \in DOMAIN block,
         AcceptBlock(n, b)
  PROVE  StrandInv'
<1> DEFINE rest  == Finish(calls, n, PROOF_FOUND(b))
           again == {PROOF_FOUND(u) : u \in StuckOn(n, b)}
<1>1. /\ Clients' = Clients /\ block' = block
      /\ PendingBlocks' = [PendingBlocks EXCEPT ![n] = @ \ StuckOn(n, b)]
      /\ calls' = SpawnAll(rest, n, again)
  BY DEF AcceptBlock
<1>2. /\ DOMAIN calls = Node /\ DOMAIN PendingBlocks = Node
      /\ Clients \subseteq Node
  BY DEF NetInv
<1>3. /\ DOMAIN Blocks'[n] = DOMAIN Blocks[n] \cup {b}
      /\ \A k \in Node \ {n} : Blocks'[k] = Blocks[k]
  BY AcceptKnown
<1>4. DOMAIN rest = Node
  BY <1>2, Finished
<1>5. ASSUME NEW k \in Node, NEW d \in DOMAIN calls[k], k # n \/ d # PROOF_FOUND(b)
      PROVE  d \in DOMAIN calls'[k]
  <2>1. d \in DOMAIN rest[k]
    BY <1>2, <1>5, FinishKeeps
  <2> HIDE DEF rest, again
  <2> QED
    BY <1>1, <1>4, <2>1, SpawnAllKeeps
<1>6. again \subseteq DOMAIN calls'[n]
  <2> HIDE DEF rest, again
  <2> QED
    BY <1>1, <1>4, SpawnAllKeeps
<1>7. ParentsHeld'
  <2>1. \A k \in Clients : DOMAIN Blocks[k] \subseteq DOMAIN Blocks'[k]
    BY <1>2, <1>3
  <2> QED
    BY <1>1, <2>1 DEF StrandInv, ParentsHeld
<1>8. ASSUME NEW k \in Node, NEW u \in PendingBlocks'[k], NEW prev,
             prev = block[u].prev
      PROVE  prev \notin DOMAIN Blocks'[k] /\ Awaited(k, prev)'
  <2>1. /\ u \in PendingBlocks[k]
        /\ k = n => prev # b
    BY <1>1, <1>2, <1>8 DEF StuckOn
  <2>2. prev \notin DOMAIN Blocks[k] /\ Awaited(k, prev)
    BY <1>8, <2>1 DEF StrandInv, StuckOK
  <2>3. prev \notin DOMAIN Blocks'[k]
    BY <1>3, <2>1, <2>2
  <2>4. CASE prev \in PendingBlocks[k]
    <3>1. CASE prev \in PendingBlocks'[k]
      BY <2>3, <3>1 DEF Awaited
    <3>2. CASE prev \notin PendingBlocks'[k]
      <4>1. k = n /\ prev \in StuckOn(n, b)
        BY <1>1, <1>2, <2>4, <3>2
      <4> QED
        BY <1>6, <2>3, <4>1 DEF Awaited, Pending
    <3> QED
      BY <3>1, <3>2
  <2>5. CASE Pending(k, PROOF_FOUND(prev))
    BY <1>5, <2>1, <2>3, <2>5, DistinctCalls DEF Awaited, Pending
  <2>6. ASSUME NEW h \in Node, prev \in DOMAIN Blocks[h],
               Pending(h, MISSING_BLOCK(k, prev)), k \in Clients
        PROVE  Awaited(k, prev)'
    <3>1. MISSING_BLOCK(k, prev) \in DOMAIN calls'[h]
      BY <1>5, <2>6, DistinctCalls DEF Pending
    <3>2. prev \in DOMAIN Blocks'[h]
      BY <1>3, <2>6
    <3> QED
      BY <1>1, <2>6, <3>1, <3>2 DEF Awaited, Pending
  <2> QED
    BY <2>2, <2>3, <2>4, <2>5, <2>6 DEF Awaited
<1>9. \A k \in Node : StuckOK(k)'
  BY <1>1, <1>8 DEF StuckOK
<1> QED
  BY <1>7, <1>9 DEF StrandInv

\* An answered request leaves the block on its way.
LEMMA HandleRequestStrand ==
  ASSUME TreeInv, NetInv, StrandInv, NEW n \in Node, HandleRequest(n)
  PROVE  StrandInv'
<1> USE DEF HandleRequest, minerVars, chainVars
<1> PICK call \in DOMAIN calls[n] :
      call.op = "MISSING_BLOCK" /\ ProvideMissingBlock(n, call.from, call.prev)
  OBVIOUS
<1> DEFINE from   == call.from
           prev   == call.prev
           ask    == MISSING_BLOCK(from, prev)
           rest   == Finish(calls, n, ask)
           answer == PROOF_FOUND(prev)
<1>1. /\ Clients' = Clients /\ block' = block /\ Blocks' = Blocks
      /\ PendingBlocks' = PendingBlocks
      /\ calls' = IF prev \in DOMAIN Blocks[n] THEN Spawn(rest, from, answer)
                                               ELSE rest
  BY DEF ProvideMissingBlock, SendMessage
<1>2. from \in Node /\ DOMAIN calls = Node
  BY DEF NetInv, DeliverableAt
<1>3. DOMAIN rest = Node
  BY <1>2, Finished
<1>4. ASSUME NEW k \in Node, NEW d \in DOMAIN calls[k], k # n \/ d # ask
      PROVE  d \in DOMAIN calls'[k]
  <2>1. d \in DOMAIN rest[k]
    BY <1>2, <1>4, FinishKeeps
  <2> HIDE DEF rest, answer
  <2> QED
    BY <1>1, <1>2, <1>3, <2>1, SpawnKeeps
<1>5. prev \in DOMAIN Blocks[n] => answer \in DOMAIN calls'[from]
  <2> HIDE DEF rest, answer
  <2> QED
    BY <1>1, <1>2, <1>3, SpawnKeeps
<1>6. ParentsHeld'
  BY <1>1 DEF StrandInv, ParentsHeld
<1>7. ASSUME NEW k \in Node, NEW p, Awaited(k, p)
      PROVE  Awaited(k, p)'
  <2>1. CASE p \in PendingBlocks[k]
    BY <1>1, <2>1 DEF Awaited
  <2>2. CASE Pending(k, PROOF_FOUND(p))
    BY <1>4, <2>2, DistinctCalls DEF Awaited, Pending
  <2>3. ASSUME NEW h \in Node, p \in DOMAIN Blocks[h],
               Pending(h, MISSING_BLOCK(k, p)), k \in Clients
        PROVE  Awaited(k, p)'
    <3>1. CASE h = n /\ MISSING_BLOCK(k, p) = ask
      <4>1. k = from /\ p = prev
        BY <3>1, DistinctCalls
      <4> QED
        BY <1>5, <2>3, <3>1, <4>1 DEF Awaited, Pending
    <3>2. CASE ~ (h = n /\ MISSING_BLOCK(k, p) = ask)
      BY <1>1, <1>4, <2>3, <3>2 DEF Awaited, Pending
    <3> QED
      BY <3>1, <3>2
  <2> QED
    BY <1>7, <2>1, <2>2, <2>3 DEF Awaited
<1>8. \A k \in Node : StuckOK(k)'
  BY <1>1, <1>7 DEF StrandInv, StuckOK
<1> QED
  BY <1>6, <1>8 DEF StrandInv

\* A new block has its parent at the miner that found it.
LEMMA FindProofStrand ==
  ASSUME TreeInv, NetInv, StrandInv, NEW m \in MinerNode, FindProof(m, Clients)
  PROVE  StrandInv'
<1> DEFINE new  == <<m, clock[m]>>
           head == LastBlock[m]
<1> USE ClientAssumption DEF FindProof, chainVars
<1>1. /\ m \in Node /\ new \notin DOMAIN block
      /\ head \in DOMAIN Blocks[m] /\ block[head].id = head
      /\ DOMAIN CurrentBlock = MinerNode
  BY DEF TreeInv, Domains, TreeOK, IdsAreUsedOnce, KnownOK, HeadOK
<1>2. m \in Clients /\ DOMAIN calls = Node
  BY DEF NetInv
<1>3. CurrentBlock[m].prev = head
  BY <1>1 DEF TreeInv, SearchOK, Initialized, Extends
<1>4. /\ DOMAIN block' = DOMAIN block \cup {new}
      /\ \A b \in DOMAIN block : block'[b] = block[b]
      /\ block'[new].prev = head
  <2>1. block'[new] = [CurrentBlock[m] EXCEPT !.id = new]
    BY DEF With
  <2>2. [CurrentBlock[m] EXCEPT !.id = new].prev = CurrentBlock[m].prev
    OBVIOUS
  <2> QED
    BY <1>1, <1>3, <2>1, <2>2 DEF With
<1>5. ParentsHeld'
  BY <1>1, <1>2, <1>4 DEF StrandInv, ParentsHeld
<1>6. \A k \in Node : DOMAIN calls[k] \subseteq DOMAIN calls'[k]
  <2> DEFINE sent == BroadcastAll(calls, Clients, {PROOF_FOUND(new)})
  <2>1. \A k \in Node : DOMAIN calls[k] \subseteq DOMAIN sent[k]
    BY <1>2, BroadcastKeeps
  <2>2. DOMAIN sent = Node
    BY <1>2 DEF BroadcastAll
  <2>3. calls' = Spawn(sent, m, PROOF_FOUND(new))
    BY DEF AnnounceProof, Broadcast
  <2> HIDE DEF sent
  <2> QED
    BY <1>1, <2>1, <2>2, <2>3, SpawnKeeps
<1>7. ASSUME NEW k \in Node, NEW u \in PendingBlocks[k], NEW prev,
             prev = block'[u].prev
      PROVE  prev \notin DOMAIN Blocks[k] /\ Awaited(k, prev)'
  <2>1. u \in DOMAIN block
    BY DEF NetInv
  <2>2. prev = block[u].prev
    BY <1>4, <1>7, <2>1
  <2>3. prev \notin DOMAIN Blocks[k] /\ Awaited(k, prev)
    BY <2>2 DEF StrandInv, StuckOK
  <2> QED
    BY <1>6, <2>3 DEF Awaited, Pending
<1>8. \A k \in Node : StuckOK(k)'
  BY <1>7 DEF StuckOK
<1> QED
  BY <1>5, <1>8 DEF StrandInv

LEMMA NextStrand ==
  ASSUME TreeInv, NetInv, HonestBlocksReplay, StrandInv, [Next]_vars
  PROVE  StrandInv'
<1>1. ASSUME NEW n \in Node, Join(n)
      PROVE  StrandInv'
  BY <1>1, KeepStrand DEF Join, Register, chainVars
<1>2. ASSUME NEW n \in Node, HandleBlock(n)
      PROVE  StrandInv'
  <2>1. PICK b \in DOMAIN block : ReceiveBlock(n, b)
    BY <1>2 DEF HandleBlock
  <2> QED
    BY <2>1, IgnoreStrand, StickStrand, AcceptStrand DEF ReceiveBlock
<1>3. ASSUME NEW n \in Node, UserStep(n)
      PROVE  StrandInv'
  <2>1. DOMAIN calls = Node
    BY DEF NetInv
  <2>2. \A k \in Node : DOMAIN calls[k] \subseteq DOMAIN calls'[k]
    <3>1. ASSUME NEW payment \in Payment, PostTransaction(n, payment)
          PROVE  <2>2
      <4> DEFINE tx   == NewTransaction(n, payment)
                 sent == BroadcastAll(calls, Clients \cap MinerNode, {POST_TRANSACTION(tx)})
                 add  == AddTransactionCall(tx)
      <4>1. /\ DOMAIN sent = Node
            /\ \A k \in Node : DOMAIN calls[k] \subseteq DOMAIN sent[k]
        BY <2>1, BroadcastKeeps, Broadcasted
      <4>2. calls' = sent \/ calls' = Spawn(sent, n, add)
        BY <3>1 DEF PostTransaction, Broadcast
      <4> HIDE DEF sent, add
      <4> QED
        BY <4>1, <4>2, SpawnKeeps
    <3>2. CASE ResendPendingTransactions(n)
      BY <2>1, <3>2, BroadcastKeeps DEF ResendPendingTransactions
    <3> QED
      BY <1>3, <3>1, <3>2 DEF UserStep
  <2>3. UNCHANGED <<Clients, block, Blocks, PendingBlocks>>
    BY <1>3 DEF UserStep, PostTransaction, ResendPendingTransactions, chainVars
  <2> QED
    BY <2>2, <2>3, KeepStrand
<1>4. ASSUME NEW m \in MinerNode, HandleTransaction(m)
      PROVE  StrandInv'
  <2>1. m \in Node /\ DOMAIN calls = Node
    BY ClientAssumption DEF NetInv
  <2>2. PICK c : /\ c.op \in {"POST_TRANSACTION", "AddTransaction"}
                /\ calls' = Finish(calls, m, c)
                /\ UNCHANGED <<Clients, block, Blocks, PendingBlocks>>
    BY <1>4 DEF HandleTransaction, AddTransactionBytes, AddOwnTransaction, chainVars,
                POST_TRANSACTION, AddTransactionCall
  <2>3. ASSUME NEW k \in Node, NEW d \in DOMAIN calls[k],
               d.op \in {"PROOF_FOUND", "MISSING_BLOCK"}
        PROVE  d \in DOMAIN calls'[k]
    BY <2>1, <2>2, <2>3, FinishKeeps
  <2> QED
    BY <2>2, <2>3, KeepStrand
<1>5. ASSUME NEW m \in MinerNode, Mine(m)
      PROVE  StrandInv'
  <2>1. CASE Initialize(m)
    BY <2>1, KeepStrand DEF Initialize, netVars, chainVars
  <2>2. CASE FindProof(m, Clients)
    BY <2>2, FindProofStrand
  <2>3. CASE FindProofAgain(m, Clients)
    <3> DEFINE found == PROOF_FOUND(CurrentBlock[m].id)
               sent  == BroadcastAll(calls, Clients, {found})
    <3>1. m \in Node /\ DOMAIN calls = Node
      BY ClientAssumption DEF NetInv
    <3>2. /\ DOMAIN sent = Node
          /\ \A k \in Node : DOMAIN calls[k] \subseteq DOMAIN sent[k]
      BY <3>1, BroadcastKeeps, Broadcasted
    <3>3. calls' = Spawn(sent, m, found)
      BY <2>3 DEF FindProofAgain, AnnounceProof, Broadcast
    <3>4. \A k \in Node : DOMAIN calls[k] \subseteq DOMAIN calls'[k]
      <4> HIDE DEF sent, found
      <4> QED
        BY <3>1, <3>2, <3>3, SpawnKeeps
    <3> QED
      BY <2>3, <3>4, KeepStrand DEF FindProofAgain, chainVars
  <2> QED
    BY <1>5, <2>1, <2>2, <2>3 DEF Mine
<1>6. CASE UNCHANGED vars
  BY <1>6, KeepStrand DEF vars, netVars, chainVars
<1> QED
  BY <1>1, <1>2, <1>3, <1>4, <1>5, <1>6, HandleRequestStrand DEF Next

\* As long as no announced block is refused by Rerun, a block that waits for its
\* parent is never forgotten, however requests and answers overtake each other.
THEOREM NoBlockIsStranded == Spec /\ []HonestBlocksReplay => []NoStrandedBlocks
<1>1. Init => StrandInv
  BY InitStrand
<1>2. TreeInv /\ NetInv /\ HonestBlocksReplay /\ StrandInv /\ [Next]_vars => StrandInv'
  BY NextStrand
<1>3. StrandInv => NoStrandedBlocks
  BY DEF StrandInv, StuckOK, Awaited, NoStrandedBlocks
<1> QED
  BY <1>1, <1>2, <1>3, TreeInvariant, NetInvariant, PTL DEF Spec

-----------------------------------------------------------------------------
(* Transactions on a chain *)

\* What the users post: transactions that pay what some payment pays.
Posted ==
  {tx \in Transaction :
     \E payment \in Payment : tx.fee = payment.fee /\ tx.outputs = payment.outputs}

LEMMA TransactionsAreWellFormed ==
  /\ Posted \subseteq WellFormed
  /\ NoWrap(Posted)
<1>1. Node \subseteq Address /\ MaxNonce \in Nat /\ MaxNonce < UintRange
  BY ClientAssumption, PaymentAssumption, LedgerAssumption
<1> QED
  BY <1>1, LedgerAssumption DEF Posted, Transaction, WellFormed, NoWrap

-----------------------------------------------------------------------------
(* The transactions and ledgers of a state.  Carried(S) is inductive       *)
(* beside TreeInv as long as what is posted is in S: every ledger a node   *)
(* keeps is one that Rerun gave it without refusing a transaction, and     *)
(* what waits anywhere is in S.  S is Posted for ReplayInv, and what has   *)
(* been posted so far for IssuedInv.                                       *)

CallsOK(pool, S) ==
  /\ DOMAIN pool = Node
  /\ \A k \in Node : \A c \in DOMAIN pool[k] :
       /\ pool[k][c] \in Nat \ {0}
       /\ c.op \in {"POST_TRANSACTION", "AddTransaction"} => c.tx \in S

BlocksOK(S) ==
  /\ \A b \in DOMAIN block : block[b].txs \in Seq(S)
  /\ \A n \in Node : \A b \in DOMAIN Blocks[n] :
       /\ Blocks[n][b] \in LedgerType
       /\ b # Genesis =>
            LET p == block[b].prev
            IN  RerunSucceeds(block[p], Blocks[n][p], block[b].txs)

WalletsOK(S) ==
  /\ DOMAIN PendingOutgoingTransactions = Node
  /\ DOMAIN Nonce = Node
  /\ \A n \in Node : /\ PendingOutgoingTransactions[n] \subseteq S
                     /\ Nonce[n] \in 0 .. MaxNonce

PoolsOK(S) ==
  /\ DOMAIN Transactions = MinerNode
  /\ \A m \in MinerNode :
       /\ Transactions[m] \subseteq S
       /\ Finite(Transactions[m])

SearchesOK(S) ==
  \A m \in MinerNode : Initialized(m) => CurrentBlock[m].txs \in Seq(S)

Carried(S) ==
  /\ CallsOK(calls, S)
  /\ BlocksOK(S)
  /\ WalletsOK(S)
  /\ PoolsOK(S)
  /\ SearchesOK(S)

ReplayInv == Carried(Posted)

\* If a user posts a transaction in this step, it is in S.
Posts(n, payment) == payment \in Payment /\ PostTransaction(n, payment)

Enters(S) ==
  (\E n \in Node : \E payment : Posts(n, payment)) =>
    \E n \in Node : \E payment : Posts(n, payment) /\ NewTransaction(n, payment) \in S

LEMMA InitReplay ==
  ASSUME NEW S \in SUBSET Posted, Init
  PROVE  Carried(S)
<1> USE DEF Init, NetInit, ClientInit, MinerInit
<1>1. CallsOK(calls, S)
  BY DEF CallsOK
<1>2. BlocksOK(S)
  <2>1. GenesisLedger \in LedgerType
    BY LedgerAssumption DEF GenesisLedger, LedgerType, Amount
  <2>2. DOMAIN block = {Genesis} /\ block[Genesis].txs = <<>>
    BY DEF GenesisHeader
  <2>3. \A n \in Node : DOMAIN Blocks[n] = {Genesis} /\ Blocks[n][Genesis] = GenesisLedger
    OBVIOUS
  <2>4. <<>> \in Seq(S)
    OBVIOUS
  <2> QED
    BY ONLY <2>1, <2>2, <2>3, <2>4 DEF BlocksOK
<1>3. WalletsOK(S)
  BY PaymentAssumption DEF WalletsOK
<1>4. PoolsOK(S)
  BY FiniteUnion DEF PoolsOK
<1>5. SearchesOK(S)
  BY DEF SearchesOK, Initialized
<1> QED
  BY <1>1, <1>2, <1>3, <1>4, <1>5 DEF Carried

\* The operators of FakeNet keep what the calls carry.
LEMMA FinishCarries ==
  ASSUME NEW S, NEW pool, CallsOK(pool, S), NEW n \in Node, NEW c
  PROVE  CallsOK(Finish(pool, n, c), S)
<1>1. ASSUME NEW k \in Node, NEW d \in DOMAIN Finish(pool, n, c)[k]
      PROVE  d \in DOMAIN pool[k] /\ Finish(pool, n, c)[k][d] \in Nat \ {0}
  <2>1. CASE k = n
    <3>1. Finish(pool, n, c)[k] = BagRemove(pool[n], c)
      BY <2>1 DEF Finish, CallsOK
    <3>2. \A e \in DOMAIN pool[n] : pool[n][e] \in Nat \ {0}
      BY DEF CallsOK
    <3> QED
      BY <1>1, <2>1, <3>1, <3>2 DEF BagRemove
  <2>2. CASE k # n
    BY <1>1, <2>2 DEF Finish, CallsOK
  <2> QED
    BY <2>1, <2>2
<1>2. DOMAIN Finish(pool, n, c) = Node
  BY DEF Finish, CallsOK
<1> QED
  BY <1>1, <1>2 DEF CallsOK

LEMMA SpawnCarries ==
  ASSUME NEW S, NEW pool, CallsOK(pool, S), NEW n \in Node, NEW c,
         c.op \in {"POST_TRANSACTION", "AddTransaction"} => c.tx \in S
  PROVE  CallsOK(Spawn(pool, n, c), S)
<1>1. ASSUME NEW k \in Node, NEW d \in DOMAIN Spawn(pool, n, c)[k]
      PROVE  /\ d \in DOMAIN pool[k] \/ d = c
             /\ Spawn(pool, n, c)[k][d] \in Nat \ {0}
  <2>1. CASE k = n
    <3>1. Spawn(pool, n, c)[k] = BagAdd(pool[n], c)
      BY <2>1 DEF Spawn, CallsOK
    <3>2. \A e \in DOMAIN pool[n] : pool[n][e] \in Nat \ {0}
      BY DEF CallsOK
    <3> QED
      BY <1>1, <2>1, <3>1, <3>2 DEF BagAdd
  <2>2. CASE k # n
    BY <1>1, <2>2 DEF Spawn, CallsOK
  <2> QED
    BY <2>1, <2>2
<1>2. DOMAIN Spawn(pool, n, c) = Node
  BY DEF Spawn, CallsOK
<1> QED
  BY <1>1, <1>2 DEF CallsOK

LEMMA BroadcastCarries ==
  ASSUME NEW S, NEW pool, CallsOK(pool, S), NEW L, NEW cs,
         \A c \in cs : c.op \in {"POST_TRANSACTION", "AddTransaction"} =>
                         c.tx \in S
  PROVE  /\ CallsOK(BroadcastAll(pool, L, cs), S)
         /\ \A n \in Node : CallsOK(SpawnAll(pool, n, cs), S)
<1>1. ASSUME NEW k \in Node, NEW d \in DOMAIN AddAll(pool[k], cs)
      PROVE  /\ d \in DOMAIN pool[k] \/ d \in cs
             /\ AddAll(pool[k], cs)[d] \in Nat \ {0}
  BY <1>1 DEF AddAll, CallsOK
<1>2. ASSUME NEW new, DOMAIN new = Node,
             \A k \in Node : new[k] = pool[k] \/ new[k] = AddAll(pool[k], cs)
      PROVE  CallsOK(new, S)
  BY <1>1, <1>2 DEF CallsOK
<1>3. CallsOK(BroadcastAll(pool, L, cs), S)
  BY <1>2 DEF BroadcastAll
<1>4. ASSUME NEW n \in Node
      PROVE  CallsOK(SpawnAll(pool, n, cs), S)
  BY <1>2 DEF SpawnAll, CallsOK
<1> QED
  BY <1>3, <1>4

\* A message about a block carries no transaction.
LEMMA BlockCallsCarryNothing ==
  ASSUME NEW b, NEW n
  PROVE  /\ PROOF_FOUND(b).op \notin {"POST_TRANSACTION", "AddTransaction"}
         /\ MISSING_BLOCK(n, b).op \notin {"POST_TRANSACTION", "AddTransaction"}
  BY DEF PROOF_FOUND, MISSING_BLOCK

\* A miner fills its block with transactions of a finite pool.
LEMMA SearchReplay ==
  ASSUME TreeInv, NEW S \in SUBSET Posted, Carried(S), NEW m \in MinerNode, NEW head,
         NEW ledger \in LedgerType, NEW pool, pool \subseteq S,
         Finite(pool), StartNewSearch(m, head, ledger, pool)
  PROVE  PoolsOK(S)' /\ SearchesOK(S)'
<1>1. PICK order \in SetToSeqs(pool) :
        CurrentBlock' = [CurrentBlock EXCEPT ![m] =
                           NewBlock(m, block[head], FillBlock(ledger, order).txs)]
  BY DEF StartNewSearch
<1>2. order \in Seq(S)
  BY OrderIsSequence
<1>3. FillBlock(ledger, order).txs \in Seq(S)
  <2>1. FillBlock(ledger, order) \in DraftType(S)
    BY <1>2, NewDraftType, EntriesKeepType, TransactionsAreWellFormed DEF FillBlock
  <2> QED
    BY <2>1 DEF DraftType
<1>4. CurrentBlock'[m].txs \in Seq(S)
  BY <1>1, <1>3 DEF NewBlock, TreeInv, Domains
<1>5. \A k \in MinerNode \ {m} : CurrentBlock'[k] = CurrentBlock[k]
  BY <1>1 DEF TreeInv, Domains
<1>6. SearchesOK(S)'
  BY <1>4, <1>5 DEF Carried, SearchesOK, Initialized
<1>7. PoolsOK(S)'
  BY FiniteUnion DEF StartNewSearch, Carried, PoolsOK
<1> QED
  BY <1>6, <1>7
\* What SyncTransaction returns to a pool was in blocks, and is finite.
LEMMA SyncReplay ==
  ASSUME TreeInv, NEW S \in SUBSET Posted, Carried(S),
         NEW m \in MinerNode, Initialized(m),
         NEW b \in DOMAIN block
  PROVE  /\ SyncTransaction(m, b) \subseteq S
         /\ Finite(SyncTransaction(m, b))
<1> DEFINE cur  == CurrentBlock[m]
           head == block[LastBlock[m]]
           at   == [h \in 0 .. cur.len |->
                      IF h = cur.len THEN cur ELSE block[cur.chain[h]]]
<1>1. /\ head.len \in Nat /\ cur.len = head.len + 1 /\ cur.chain = Chain(head)
      /\ head.id \in DOMAIN block
      /\ \A h \in 0 .. head.len - 1 : head.chain[h] \in DOMAIN block
  <2>1. m \in Node
    BY ClientAssumption
  <2>2. LastBlock[m] \in DOMAIN block
    BY <2>1 DEF TreeInv, HeadOK, KnownOK
  <2>3. /\ head.len \in Nat /\ head.id \in DOMAIN block
        /\ \A h \in 0 .. head.len - 1 : head.chain[h] \in DOMAIN block
    BY <2>2 DEF TreeInv, TreeOK, HeightsOK
  <2>4. Extends(m, cur, head)
    BY DEF TreeInv, SearchOK, Initialized
  <2>5. cur.len = head.len + 1 /\ cur.chain = Chain(head)
    BY ONLY <2>4 DEF Extends
  <2> QED
    BY <2>3, <2>5
<1> HIDE DEF cur, head
<1>2. \A h \in 0 .. cur.len - 1 : cur.chain[h] \in DOMAIN block
  BY <1>1 DEF Chain
<1>3. \A x \in Lineage(cur) : x.txs \in Seq(S)
  BY <1>2 DEF Lineage, Carried, BlocksOK, SearchesOK, cur
<1>4. Lineage(cur) \subseteq {at[h] : h \in 0 .. cur.len}
  <2>1. cur = at[cur.len] /\ cur.len \in 0 .. cur.len
    BY <1>1
  <2>2. \A h \in 0 .. cur.len - 1 : h \in 0 .. cur.len /\ block[cur.chain[h]] = at[h]
    BY <1>1
  <2> HIDE DEF at
  <2> QED
    BY <2>1, <2>2 DEF Lineage
<1>5. PICK headers :
        /\ headers \subseteq Lineage(cur)
        /\ \A x \in headers : x.txs # <<>>
        /\ SyncTransaction(m, b) = {Last(x.txs) : x \in headers}
  <2> DEFINE cb == Lineage(CurrentBlock[m]) \ Lineage(block[b])
             nb == Lineage(block[b]) \ Lineage(CurrentBlock[m])
             LastOf(headers) == {Last(h.txs) : h \in {x \in headers : x.txs # <<>>}}
             Survives(h) == \E i \in DOMAIN h.txs : h.txs[i] \notin LastOf(nb)
             kept == {x \in {h \in cb : Survives(h)} : x.txs # <<>>}
  <2>1. SyncTransaction(m, b) = {Last(x.txs) : x \in kept}
    BY DEF SyncTransaction
  <2>2. kept \subseteq Lineage(cur) /\ \A x \in kept : x.txs # <<>>
    BY DEF cur
  <2> QED
    BY <2>1, <2>2
<1>6. \A x \in headers : Last(x.txs) \in S
  <2> SUFFICES ASSUME NEW x \in headers PROVE Last(x.txs) \in S
    OBVIOUS
  <2>1. x.txs \in Seq(S) /\ x.txs # <<>>
    BY <1>3, <1>5
  <2>2. Len(x.txs) \in 1 .. Len(x.txs)
    BY <2>1
  <2> QED
    BY <2>1, <2>2 DEF Last
<1>7. Finite(headers)
  <2>1. Finite(0 .. cur.len) /\ at = [h \in 0 .. cur.len |-> at[h]]
    BY <1>1, FiniteInterval
  <2> HIDE DEF at
  <2>2. headers \subseteq {at[h] : h \in 0 .. cur.len}
    BY <1>4, <1>5
  <2> QED
    BY <2>1, <2>2, FiniteImage
<1>8. Finite({Last(x.txs) : x \in headers})
  <2> DEFINE last == [x \in headers |-> Last(x.txs)]
  <2>1. {Last(x.txs) : x \in headers} \subseteq {last[x] : x \in headers}
    OBVIOUS
  <2>2. last = [x \in headers |-> last[x]]
    OBVIOUS
  <2> HIDE DEF last
  <2> QED
    BY <1>7, <2>1, <2>2, FiniteImage
<1> QED
  BY <1>5, <1>6, <1>8

\* Steps that change neither blocks, wallets nor pools.
LEMMA SameValues ==
  ASSUME NEW S \in SUBSET Posted, Carried(S), CallsOK(calls', S),
         UNCHANGED <<block, Blocks, walletVars, Transactions, CurrentBlock>>
  PROVE  Carried(S)'
<1> USE DEF walletVars
<1>1. BlocksOK(S)'
  BY DEF Carried, BlocksOK
<1>2. WalletsOK(S)' /\ PoolsOK(S)'
  BY DEF Carried, WalletsOK, PoolsOK
<1>3. SearchesOK(S)'
  BY DEF Carried, SearchesOK, Initialized
<1>4. CallsOK(calls, S)'
  BY DEF CallsOK
<1> QED
  BY <1>1, <1>2, <1>3, <1>4 DEF Carried

LEMMA AcceptReplay ==
  ASSUME TreeInv, NEW S \in SUBSET Posted, Carried(S), NEW n \in Node,
         NEW b \in DOMAIN block, Accepts(n, b)
  PROVE  Carried(S)'
<1> DEFINE p == block[b].prev
<1>1. AcceptBlock(n, b)
  BY DEF Accepts
<1>2. /\ b \notin DOMAIN Blocks[n] /\ b # Genesis
      /\ p \in DOMAIN Blocks[n]
      /\ block' = block
      /\ DOMAIN Blocks'[n] = DOMAIN Blocks[n] \cup {b}
      /\ \A c \in DOMAIN Blocks[n] : Blocks'[n][c] = Blocks[n][c]
      /\ Blocks'[n][b] = LedgerAfter(block[p], Blocks[n][p], block[b].txs)
      /\ \A k \in Node \ {n} : Blocks'[k] = Blocks[k]
  BY <1>1, AcceptKnown
<1>3. RerunSucceeds(block[p], Blocks[n][p], block[b].txs)
  BY <1>1, <1>2, OneGenesis DEF AcceptBlock, Valid
<1>4. \A c \in DOMAIN block : block[c].txs \in Seq(S)
  BY DEF Carried, BlocksOK
<1>5. \A k \in Node : \A c \in DOMAIN Blocks'[k] : Blocks'[k][c] \in LedgerType
  <2>1. Blocks[n][p] \in LedgerType
    BY <1>2 DEF Carried, BlocksOK
  <2>2. block[b].txs \in Seq(WellFormed)
    BY <1>4, TransactionsAreWellFormed, SeqMonotonic
  <2>3. Blocks'[n][b] \in LedgerType
    BY <1>2, <2>1, <2>2, RerunKeepsType
  <2>4. \A k \in Node : \A c \in DOMAIN Blocks[k] : Blocks[k][c] \in LedgerType
    BY DEF Carried, BlocksOK
  <2> QED
    BY <1>2, <2>3, <2>4
<1>6. BlocksOK(S)'
  <2> SUFFICES ASSUME NEW k \in Node, NEW c \in DOMAIN Blocks'[k], c # Genesis
               PROVE  RerunSucceeds(block[block[c].prev], Blocks'[k][block[c].prev],
                                    block[c].txs)
    BY <1>2, <1>4, <1>5 DEF BlocksOK
  <2>1. CASE k = n /\ c = b
    BY <1>2, <1>3, <2>1
  <2>2. CASE ~ (k = n /\ c = b)
    <3>1. c \in DOMAIN Blocks[k] /\ block[c].prev \in DOMAIN Blocks[k]
      BY <1>2, <2>2 DEF TreeInv, KnownOK
    <3>2. RerunSucceeds(block[block[c].prev], Blocks[k][block[c].prev], block[c].txs)
      BY <3>1 DEF Carried, BlocksOK
    <3>3. Blocks'[k][block[c].prev] = Blocks[k][block[c].prev]
      BY <1>2, <3>1
    <3> QED
      BY <3>2, <3>3
  <2> QED
    BY <2>1, <2>2
<1>7. WalletsOK(S)'
  BY <1>1 DEF AcceptBlock, SetLastConfirmed, Carried, WalletsOK
<1>8. CallsOK(calls, S)'
  <2> DEFINE new == {PROOF_FOUND(u) : u \in StuckOn(n, b)}
  <2>1. \A c \in new : c.op \notin {"POST_TRANSACTION", "AddTransaction"}
    BY BlockCallsCarryNothing
  <2>2. CallsOK(Finish(calls, n, PROOF_FOUND(b)), S)
    BY FinishCarries DEF Carried
  <2> HIDE DEF new
  <2>3. CallsOK(SpawnAll(Finish(calls, n, PROOF_FOUND(b)), n, new), S)
    BY <2>1, <2>2, BroadcastCarries
  <2>4. calls' = SpawnAll(Finish(calls, n, PROOF_FOUND(b)), n, new)
    BY <1>1 DEF AcceptBlock, new
  <2> QED
    BY <2>3, <2>4 DEF CallsOK
<1>9. PoolsOK(S)' /\ SearchesOK(S)'
  <2>1. CASE n \in MinerNode /\ Initialized(n) /\ block[b].len >= CurrentBlock[n].len
    <3> DEFINE pool == Transactions[n] \cup SyncTransaction(n, b)
               head == LastBlock'[n]
    <3>1. StartNewSearch(n, head, Blocks'[n][head], pool)
      BY <2>1 DEF Accepts, CutOver
    <3>2. pool \subseteq S /\ Finite(pool)
      BY <2>1, SyncReplay, FiniteUnion DEF Carried, PoolsOK
    <3>3. head \in DOMAIN Blocks'[n]
      BY <1>1, <1>2, AcceptHead DEF TreeInv, HeadOK
    <3>4. Blocks'[n][head] \in LedgerType
      BY <1>5, <3>3
    <3> HIDE DEF pool, head
    <3> QED
      BY <2>1, <3>1, <3>2, <3>4, SearchReplay
  <2>2. CASE ~ (n \in MinerNode /\ Initialized(n) /\ block[b].len >= CurrentBlock[n].len)
    <3>1. UNCHANGED <<CurrentBlock, Transactions>>
      BY <2>2 DEF Accepts, CutOver
    <3> QED
      BY <3>1 DEF Carried, PoolsOK, SearchesOK, Initialized
  <2> QED
    BY <2>1, <2>2
<1> QED
  BY <1>6, <1>7, <1>8, <1>9 DEF Carried

LEMMA HandleBlockReplay ==
  ASSUME TreeInv, NEW S \in SUBSET Posted, Carried(S), NEW n \in Node, HandleBlock(n)
  PROVE  Carried(S)'
<1> PICK b \in DOMAIN block : ReceiveBlock(n, b)
  BY DEF HandleBlock
<1> DEFINE rest == Finish(calls, n, PROOF_FOUND(b))
<1>1. CallsOK(rest, S)
  BY FinishCarries DEF Carried
<1>2. CASE IgnoreBlock(n, b) /\ UNCHANGED minerVars
  BY <1>1, <1>2, SameValues DEF IgnoreBlock, minerVars, chainVars
<1>3. CASE StickBlock(n, b, Clients) /\ UNCHANGED minerVars
  <2> DEFINE ask == MISSING_BLOCK(n, block[b].prev)
  <2>1. ask.op \notin {"POST_TRANSACTION", "AddTransaction"}
    BY BlockCallsCarryNothing
  <2>2. \/ calls' = rest
        \/ calls' = BroadcastAll(rest, Clients, {ask})
    BY <1>3 DEF StickBlock, RequestMissingBlock, Broadcast
  <2> HIDE DEF ask, rest
  <2>3. CallsOK(calls', S)
    BY <1>1, <2>1, <2>2, BroadcastCarries
  <2> QED
    BY <1>3, <2>3, SameValues DEF StickBlock, minerVars
<1>4. CASE Accepts(n, b)
  BY <1>4, AcceptReplay
<1> QED
  BY <1>2, <1>3, <1>4 DEF ReceiveBlock, Accepts

LEMMA HandleRequestReplay ==
  ASSUME NEW S \in SUBSET Posted, Carried(S), NEW n \in Node, NetInv, HandleRequest(n)
  PROVE  Carried(S)'
<1> PICK call \in DOMAIN calls[n] :
      /\ call.op = "MISSING_BLOCK"
      /\ ProvideMissingBlock(n, call.from, call.prev)
      /\ UNCHANGED minerVars
  BY DEF HandleRequest
<1> DEFINE rest  == Finish(calls, n, MISSING_BLOCK(call.from, call.prev))
           found == PROOF_FOUND(call.prev)
<1>1. CallsOK(rest, S) /\ found.op \notin {"POST_TRANSACTION", "AddTransaction"}
  BY FinishCarries, BlockCallsCarryNothing DEF Carried
<1>2. call.from \in Node
  BY DEF NetInv, DeliverableAt
<1>3. calls' = rest \/ calls' = Spawn(rest, call.from, found)
  BY DEF ProvideMissingBlock, SendMessage
<1> HIDE DEF rest, found
<1>4. CallsOK(calls', S)
  BY <1>1, <1>2, <1>3, SpawnCarries
<1> QED
  BY <1>4, SameValues DEF ProvideMissingBlock, chainVars, minerVars

LEMMA UserStepReplay ==
  ASSUME TreeInv, NEW S \in SUBSET Posted, Carried(S), Enters(S),
         NEW n \in Node, UserStep(n)
  PROVE  Carried(S)'
<1>1. ASSUME NEW k \in Node, NEW payment, Posts(k, payment),
             NewTransaction(k, payment) \in S, UNCHANGED minerVars
      PROVE  Carried(S)'
  <2> DEFINE tx   == NewTransaction(k, payment)
             post == POST_TRANSACTION(tx)
             add  == AddTransactionCall(tx)
             sent == BroadcastAll(calls, Clients \cap MinerNode, {post})
  <2>1. tx \in S
    BY <1>1
  <2>2. post.tx = tx /\ add.tx = tx
    BY DEF POST_TRANSACTION, AddTransactionCall
  <2>3. \/ calls' = sent
        \/ calls' = Spawn(sent, k, add)
    BY <1>1 DEF Posts, PostTransaction, Broadcast
  <2>4. Nonce' = [Nonce EXCEPT ![k] = Uint(@ + 1)]
    BY <1>1 DEF Posts, PostTransaction
  <2>5. Uint(Nonce[k] + 1) \in 0 .. MaxNonce
    <3>1. Nonce[k] \in Nat /\ Nonce[k] + 1 <= MaxNonce /\ MaxNonce < UintRange
      BY <1>1, PaymentAssumption, LedgerAssumption
         DEF Posts, PostTransaction, Carried, WalletsOK
    <3> QED
      BY <3>1, UintIsAmount, PaymentAssumption, LedgerAssumption DEF Amount
  <2>6. PendingOutgoingTransactions' =
          [PendingOutgoingTransactions EXCEPT ![k] = @ \cup {tx}]
    BY <1>1 DEF Posts, PostTransaction
  <2> HIDE DEF tx, post, add, sent
  <2>7. CallsOK(calls, S)'
    <3>1. CallsOK(sent, S)
      BY <2>1, <2>2, BroadcastCarries DEF Carried, sent
    <3>2. CallsOK(Spawn(sent, k, add), S)
      BY <2>1, <2>2, <3>1, SpawnCarries
    <3> QED
      BY <2>3, <3>1, <3>2 DEF CallsOK
  <2>8. WalletsOK(S)'
    BY <2>1, <2>4, <2>5, <2>6 DEF Carried, WalletsOK
  <2>9. BlocksOK(S)' /\ PoolsOK(S)' /\ SearchesOK(S)'
    BY <1>1 DEF Posts, PostTransaction, chainVars, minerVars, Carried, BlocksOK,
                PoolsOK, SearchesOK, Initialized
  <2> QED
    BY <2>7, <2>8, <2>9 DEF Carried
<1>2. CASE ResendPendingTransactions(n) /\ UNCHANGED minerVars
  <2> DEFINE again == {POST_TRANSACTION(tx) : tx \in PendingOutgoingTransactions[n]}
  <2>1. \A c \in again : c.tx \in S
    BY DEF POST_TRANSACTION, Carried, WalletsOK
  <2>2. calls' = BroadcastAll(calls, Clients \cap MinerNode, again)
    BY <1>2 DEF ResendPendingTransactions
  <2> HIDE DEF again
  <2>3. CallsOK(calls', S)
    BY <2>1, <2>2, BroadcastCarries DEF Carried
  <2> QED
    BY <1>2, <2>3, SameValues DEF ResendPendingTransactions, chainVars, minerVars
<1> QED
  BY <1>1, <1>2 DEF UserStep, Enters, Posts

LEMMA HandleTransactionReplay ==
  ASSUME NEW S \in SUBSET Posted, Carried(S), NEW m \in MinerNode, HandleTransaction(m)
  PROVE  Carried(S)'
<1>1. PICK c, d :
        /\ c \in DOMAIN calls[m]
        /\ c.op \in {"POST_TRANSACTION", "AddTransaction"}
        /\ calls' = Finish(calls, m, d)
        /\ \/ Transactions' = Transactions
           \/ Transactions' = [Transactions EXCEPT ![m] = @ \cup {c.tx}]
        /\ UNCHANGED <<block, chainVars, walletVars, CurrentBlock>>
  BY DEF HandleTransaction, AddTransactionBytes, AddOwnTransaction
<1>2. m \in Node
  BY ClientAssumption
<1>3. c.tx \in S
  BY <1>1, <1>2 DEF Carried, CallsOK
<1>4. CallsOK(calls, S)'
  <2>1. CallsOK(Finish(calls, m, d), S)
    BY <1>2, FinishCarries DEF Carried
  <2> QED
    BY <1>1, <2>1 DEF CallsOK
<1>5. PoolsOK(S)'
  <2>1. Finite(Transactions[m] \cup {c.tx})
    BY FiniteUnion DEF Carried, PoolsOK
  <2> QED
    BY <1>1, <1>3, <2>1 DEF Carried, PoolsOK
<1>6. BlocksOK(S)' /\ WalletsOK(S)' /\ SearchesOK(S)'
  BY <1>1 DEF Carried, BlocksOK, WalletsOK, SearchesOK, Initialized,
              chainVars, walletVars
<1> QED
  BY <1>4, <1>5, <1>6 DEF Carried

LEMMA MineReplay ==
  ASSUME TreeInv, NEW S \in SUBSET Posted, Carried(S), NEW m \in MinerNode, Mine(m)
  PROVE  Carried(S)'
<1>1. m \in Node
  BY ClientAssumption
<1>2. ASSUME NEW b, calls' = AnnounceProof(m, b, Clients)
      PROVE  CallsOK(calls', S)
  <2> DEFINE found == PROOF_FOUND(b)
             sent  == BroadcastAll(calls, Clients, {found})
  <2>1. found.op \notin {"POST_TRANSACTION", "AddTransaction"}
    BY BlockCallsCarryNothing
  <2>2. calls' = Spawn(sent, m, found)
    BY <1>2 DEF AnnounceProof, Broadcast
  <2> HIDE DEF found
  <2>3. CallsOK(sent, S)
    BY <2>1, BroadcastCarries DEF Carried
  <2> HIDE DEF sent
  <2> QED
    BY <1>1, <2>1, <2>2, <2>3, SpawnCarries
<1>3. CASE Initialize(m)
  <2>1. Blocks[m][LastBlock[m]] \in LedgerType
    BY <1>1 DEF TreeInv, HeadOK, Carried, BlocksOK
  <2>2. Transactions[m] \subseteq S /\ Finite(Transactions[m])
    BY DEF Carried, PoolsOK
  <2>3. PoolsOK(S)' /\ SearchesOK(S)'
    BY <1>3, <2>1, <2>2, SearchReplay DEF Initialize
  <2>4. CallsOK(calls, S)' /\ BlocksOK(S)' /\ WalletsOK(S)'
    BY <1>3 DEF Initialize, netVars, chainVars, walletVars, Carried, CallsOK,
                BlocksOK, WalletsOK
  <2> QED
    BY <2>3, <2>4 DEF Carried
<1>4. CASE FindProof(m, Clients)
  <2> DEFINE new == <<m, clock[m]>>
             cur == CurrentBlock[m]
  <2>1. /\ cur.txs \in Seq(S)
        /\ cur = [id |-> cur.id, prev |-> cur.prev, len |-> cur.len,
                  rewardAddr |-> m, txs |-> cur.txs, chain |-> cur.chain]
    <3>1. Extends(m, cur, block[LastBlock[m]]) /\ cur.txs \in Seq(S)
      BY <1>4 DEF FindProof, TreeInv, SearchOK, Initialized, Carried, SearchesOK
    <3> QED
      BY ONLY <3>1 DEF Extends
  <2>2. /\ DOMAIN block' = DOMAIN block \cup {new}
        /\ \A b \in DOMAIN block \ {new} : block'[b] = block[b]
        /\ block'[new] = [cur EXCEPT !.id = new]
    BY <1>4 DEF FindProof, With
  <2>3. new \notin DOMAIN block
    BY DEF TreeInv, Domains, IdsAreUsedOnce
  <2>4. \A k \in MinerNode :
          CurrentBlock'[k] = IF k = m THEN [cur EXCEPT !.id = new] ELSE CurrentBlock[k]
    BY <1>4 DEF FindProof, TreeInv, Domains
  <2>5. [cur EXCEPT !.id = new].txs = cur.txs
    BY <2>1
  <2> HIDE DEF new, cur
  <2>6. BlocksOK(S)'
    <3>1. \A b \in DOMAIN block' : block'[b].txs \in Seq(S)
      BY <2>1, <2>2, <2>5 DEF Carried, BlocksOK
    <3>2. Blocks' = Blocks
      BY <1>4 DEF FindProof, chainVars
    <3>3. ASSUME NEW n \in Node, NEW b \in DOMAIN Blocks[n], b # Genesis
          PROVE  block'[b] = block[b] /\ block'[block[b].prev] = block[block[b].prev]
      BY <2>2, <2>3, <3>3 DEF TreeInv, KnownOK
    <3> QED
      BY <3>1, <3>2, <3>3 DEF Carried, BlocksOK
  <2>7. SearchesOK(S)'
    BY <2>1, <2>4, <2>5 DEF Carried, SearchesOK, Initialized
  <2>8. CallsOK(calls, S)'
    <3>1. CallsOK(calls', S)
      BY <1>2, <1>4 DEF FindProof
    <3> QED
      BY <3>1 DEF CallsOK
  <2>9. WalletsOK(S)' /\ PoolsOK(S)'
    BY <1>4 DEF FindProof, walletVars, Carried, WalletsOK, PoolsOK
  <2> QED
    BY <2>6, <2>7, <2>8, <2>9 DEF Carried
<1>5. CASE FindProofAgain(m, Clients)
  <2>1. CallsOK(calls', S)
    BY <1>2, <1>5 DEF FindProofAgain
  <2> QED
    BY <1>5, <2>1, SameValues DEF FindProofAgain, chainVars, minerVars
<1> QED
  BY <1>3, <1>4, <1>5 DEF Mine

LEMMA NextReplay ==
  ASSUME TreeInv, NetInv, NEW S \in SUBSET Posted, Carried(S), Enters(S), [Next]_vars
  PROVE  Carried(S)'
<1>1. ASSUME NEW n \in Node, Join(n)
      PROVE  Carried(S)'
  <2>1. CallsOK(calls', S)
    BY <1>1 DEF Join, Register, Carried
  <2> QED
    BY <1>1, <2>1, SameValues DEF Join, chainVars, minerVars
<1>2. CASE UNCHANGED vars
  <2>1. CallsOK(calls', S)
    BY <1>2 DEF vars, netVars, Carried
  <2> QED
    BY <1>2, <2>1, SameValues DEF vars, chainVars, minerVars
<1> QED
  BY <1>1, <1>2, HandleBlockReplay, HandleRequestReplay, UserStepReplay,
     HandleTransactionReplay, MineReplay DEF Next

\* What a user posts pays what a payment pays, with a nonce below MaxNonce.
LEMMA NewTransactionPosted ==
  ASSUME NEW S \in SUBSET Posted, Carried(S), NEW n \in Node,
         NEW payment \in Payment, PostTransaction(n, payment)
  PROVE  NewTransaction(n, payment) \in Posted
<1>1. Nonce[n] \in 0 .. MaxNonce - 1
  BY PaymentAssumption, LedgerAssumption DEF PostTransaction, Carried, WalletsOK
<1> QED
  BY <1>1, PaymentAssumption DEF NewTransaction, Posted, Transaction

\* Every ledger a node keeps is one that Rerun gave it without refusing a
\* transaction of the block, and every value is of its type.
THEOREM ReplayInvariant == Spec => []ReplayInv
<1>1. Init => TreeInv /\ NetInv /\ ReplayInv
  BY InitTree, InitNet, InitReplay DEF ReplayInv
<1>2. TreeInv /\ NetInv /\ ReplayInv /\ [Next]_vars
        => (TreeInv /\ NetInv /\ ReplayInv)'
  <2> SUFFICES ASSUME TreeInv, NetInv, ReplayInv, [Next]_vars PROVE ReplayInv'
    BY NextTree, NextNet
  <2>1. Posted \in SUBSET Posted /\ Carried(Posted)
    BY DEF ReplayInv
  <2>2. Enters(Posted)
    BY <2>1, NewTransactionPosted DEF Enters, Posts
  <2>3. Carried(Posted)'
    BY <2>1, <2>2, NextReplay
  <2> QED
    BY <2>3 DEF ReplayInv
<1> QED
  BY <1>1, <1>2, PTL DEF Spec

\* The type invariant: the values of all the variables, transactions and uint32
\* amounts included, whatever wraps around.
THEOREM TypeInvariant == Spec => []TypeOK
<1>1. NetInv /\ ReplayInv => ValuesOK
  <2> SUFFICES ASSUME NetInv, ReplayInv PROVE ValuesOK
    OBVIOUS
  <2>1. Posted \subseteq Transaction /\ Seq(Posted) \subseteq Seq(Transaction)
    <3>1. Posted \subseteq Transaction
      BY DEF Posted
    <3> QED
      BY <3>1, SeqMonotonic
  <2>2. ASSUME NEW n \in Node, NEW c \in DOMAIN calls[n]
        PROVE  /\ calls[n][c] \in Nat \ {0}
               /\ c \notin Message => c.tx \in Posted
    BY <2>1, <2>2 DEF NetInv, DeliverableAt, ReplayInv, Carried, CallsOK
  <2> QED
    BY <2>1, <2>2 DEF ReplayInv, Carried, BlocksOK, WalletsOK, PoolsOK, SearchesOK, ValuesOK
<1> QED
  BY <1>1, StructureInvariant, NetInvariant, ReplayInvariant, PTL DEF TypeOK

\* A transaction is executed once on any chain, in the order of the nonces,
\* although pools, resends and abandoned blocks hold many copies of it.
THEOREM NothingIsReplayed == Spec => []NoReplay
<1>1. TreeInv /\ ReplayInv => NoReplay
  <2> SUFFICES ASSUME TreeInv, ReplayInv, NEW n \in Node
               PROVE  \A b \in DOMAIN Blocks[n] : \A a \in Node :
                         ReplayFree(block, Blocks[n], Chain(block[b]), b, a)
    BY DEF NoReplay, ReplayFree
  <2>1. ASSUME NEW b \in DOMAIN Blocks[n]
        PROVE  ReplayedOK(block, Blocks[n], Posted, b)
    <3>1. b \in DOMAIN block
      BY DEF TreeInv, KnownOK
    <3>2. CASE b = Genesis
      BY <3>1, <3>2 DEF TreeInv, TreeOK, KnownOK, ReplayInv, Carried, BlocksOK, ReplayedOK,
                        GenesisHeader, GenesisLedger
    <3>3. CASE b # Genesis
      <4>1. block[b].len # 0
        BY <3>1, <3>3, OneGenesis DEF IsGenesisBlock
      <4> QED
        BY <3>1, <3>3, <4>1
           DEF TreeInv, TreeOK, KnownOK, ReplayInv, Carried, BlocksOK, ReplayedOK, Chain, ChainOf
    <3> QED
      BY <3>2, <3>3
  <2>2. \A b \in DOMAIN Blocks[n] : Chain(block[b]) = ChainOf(block[b])
    BY DEF Chain, ChainOf
  <2> QED
    BY <2>1, <2>2, TransactionsAreWellFormed, ReplayedIsReplayFree, ClientAssumption
<1> QED
  BY <1>1, TreeInvariant, ReplayInvariant, PTL

-----------------------------------------------------------------------------
(* The wallets.  IssuedInv: all transactions, wherever they are carried,   *)
(* were posted by their senders, each with a nonce of its own.  So a block *)
(* that has the nonce of a pending transaction has that transaction, and   *)
(* SetLastConfirmed, which compares ids, removes it.                       *)

\* S can be what has been posted so far.
IssuedOnce(S) ==
  /\ \A t, u \in S : t.from = u.from /\ t.nonce = u.nonce => t = u
  /\ \A t \in S : t.nonce < Nonce[t.from]

OwnWallets ==
  \A n \in Node : \A tx \in PendingOutgoingTransactions[n] : tx.from = n

IssuedInv ==
  /\ OwnWallets
  /\ \E S \in SUBSET Posted : Carried(S) /\ IssuedOnce(S)

\* What is carried is in any larger set.
LEMMA CarriedGrows ==
  ASSUME NEW T \in SUBSET Posted, NEW S \in SUBSET T, Carried(S)
  PROVE  Carried(T)
<1>1. Seq(S) \subseteq Seq(T)
  BY SeqMonotonic
<1>2. CallsOK(calls, T) /\ WalletsOK(T) /\ PoolsOK(T)
  BY DEF Carried, CallsOK, WalletsOK, PoolsOK
<1>3. BlocksOK(T) /\ SearchesOK(T)
  BY <1>1 DEF Carried, BlocksOK, SearchesOK
<1> QED
  BY <1>2, <1>3 DEF Carried

\* A wallet grows only when its owner posts a transaction.
LEMMA WalletsShrink ==
  ASSUME TreeInv, NEW S \in SUBSET Posted, Carried(S), [Next]_vars,
         ~ \E n \in Node : \E payment : Posts(n, payment)
  PROVE  /\ Nonce' = Nonce
         /\ \A n \in Node :
              PendingOutgoingTransactions'[n] \subseteq PendingOutgoingTransactions[n]
<1>1. ASSUME NEW n \in Node, HandleBlock(n)
      PROVE  /\ Nonce' = Nonce
             /\ \A k \in Node : PendingOutgoingTransactions'[k]
                                  \subseteq PendingOutgoingTransactions[k]
  <2>1. PICK b : ReceiveBlock(n, b)
    BY <1>1 DEF HandleBlock
  <2>2. CASE UNCHANGED walletVars
    BY <2>2 DEF walletVars
  <2>3. CASE AcceptBlock(n, b)
    BY <2>3 DEF AcceptBlock, SetLastConfirmed, Carried, WalletsOK
  <2> QED
    BY <2>1, <2>2, <2>3 DEF ReceiveBlock, IgnoreBlock, StickBlock
<1>2. ASSUME NEW n \in Node, Join(n) \/ HandleRequest(n) \/ UserStep(n)
      PROVE  UNCHANGED walletVars
  BY <1>2 DEF Join, HandleRequest, ProvideMissingBlock, UserStep, Posts,
              ResendPendingTransactions
<1>3. ASSUME NEW m \in MinerNode, HandleTransaction(m) \/ Mine(m)
      PROVE  UNCHANGED walletVars
  BY <1>3 DEF HandleTransaction, AddTransactionBytes, AddOwnTransaction, Mine,
              Initialize, FindProof, FindProofAgain
<1>4. UNCHANGED vars => UNCHANGED walletVars
  BY DEF vars
<1>5. UNCHANGED walletVars =>
        Nonce' = Nonce /\ PendingOutgoingTransactions' = PendingOutgoingTransactions
  BY DEF walletVars
<1> QED
  BY <1>1, <1>2, <1>3, <1>4, <1>5 DEF Next

\* What PostTransaction does to the wallets.
LEMMA PostedWallets ==
  ASSUME NEW S \in SUBSET Posted, Carried(S), NEW n \in Node, NEW payment,
         Posts(n, payment)
  PROVE  LET tx == NewTransaction(n, payment)
         IN  /\ tx \in Posted /\ tx.from = n /\ tx.nonce = Nonce[n]
             /\ Nonce[n] \in Nat
             /\ Nonce' = [Nonce EXCEPT ![n] = Nonce[n] + 1]
             /\ PendingOutgoingTransactions' =
                  [PendingOutgoingTransactions EXCEPT ![n] = @ \cup {tx}]
<1>1. Nonce[n] \in 0 .. MaxNonce - 1 /\ MaxNonce < UintRange /\ MaxNonce \in Nat
  BY PaymentAssumption, LedgerAssumption DEF Posts, PostTransaction, Carried, WalletsOK
<1>2. Uint(Nonce[n] + 1) = Nonce[n] + 1
  BY <1>1, UintIsAmount, LedgerAssumption DEF Amount
<1>3. NewTransaction(n, payment) \in Posted
  BY NewTransactionPosted DEF Posts
<1>4. /\ Nonce' = [Nonce EXCEPT ![n] = Uint(@ + 1)]
      /\ PendingOutgoingTransactions' =
           [PendingOutgoingTransactions EXCEPT ![n] = @ \cup {NewTransaction(n, payment)}]
  BY DEF Posts, PostTransaction
<1>5. /\ NewTransaction(n, payment).from = n
      /\ NewTransaction(n, payment).nonce = Nonce[n]
  BY DEF NewTransaction
<1>6. Nonce' = [Nonce EXCEPT ![n] = Nonce[n] + 1]
  BY <1>2, <1>4
<1>7. Nonce[n] \in Nat
  BY <1>1
<1> QED
  BY <1>3, <1>4, <1>5, <1>6, <1>7

LEMMA NextIssued ==
  ASSUME TreeInv, NetInv, IssuedInv, [Next]_vars
  PROVE  IssuedInv'
<1> PICK S \in SUBSET Posted : Carried(S) /\ IssuedOnce(S)
  BY DEF IssuedInv
<1>1. \A tx \in S : tx.from \in Node /\ tx.nonce \in Nat
  BY PaymentAssumption DEF Posted, Transaction
<1>2. CASE ~ \E n \in Node : \E payment : Posts(n, payment)
  <2>1. Carried(S)'
    BY <1>2, NextReplay DEF Enters
  <2>2. OwnWallets'
    BY <1>2, WalletsShrink DEF IssuedInv, OwnWallets
  <2>3. IssuedOnce(S)'
    BY <1>2, WalletsShrink DEF IssuedOnce
  <2> QED
    BY <2>1, <2>2, <2>3 DEF IssuedInv
<1>3. ASSUME NEW n \in Node, NEW payment, Posts(n, payment)
      PROVE  IssuedInv'
  <2> DEFINE new == NewTransaction(n, payment)
  <2>1. /\ new \in Posted /\ new.from = n /\ new.nonce = Nonce[n]
        /\ Nonce[n] \in Nat
        /\ Nonce' = [Nonce EXCEPT ![n] = Nonce[n] + 1]
        /\ PendingOutgoingTransactions' =
             [PendingOutgoingTransactions EXCEPT ![n] = @ \cup {new}]
    BY <1>3, PostedWallets
  <2> HIDE DEF new
  <2> PICK tx : tx = new
    OBVIOUS
  <2> DEFINE T == S \cup {tx}
  <2>2. T \in SUBSET Posted /\ S \in SUBSET T
    BY <2>1
  <2>3. Enters(T)
    BY <1>3 DEF Enters, new
  <2> HIDE DEF T
  <2>4. Carried(T)'
    BY <2>2, <2>3, CarriedGrows, NextReplay
  <2>5. OwnWallets'
    <3>1. OwnWallets /\ DOMAIN PendingOutgoingTransactions = Node
      BY DEF IssuedInv, Carried, WalletsOK
    <3> QED
      BY <2>1, <3>1 DEF OwnWallets
  <2>6. IssuedOnce(T)'
    <3>1. \A t \in S : t # tx /\ ~ (t.from = tx.from /\ t.nonce = tx.nonce)
      BY <1>1, <2>1 DEF IssuedOnce
    <3>2. \A t, u \in T : t.from = u.from /\ t.nonce = u.nonce => t = u
      BY <3>1 DEF IssuedOnce, T
    <3>3. DOMAIN Nonce = Node
      BY DEF Carried, WalletsOK
    <3>4. \A t \in S : t.nonce < Nonce'[t.from]
      BY <1>1, <2>1, <3>3 DEF IssuedOnce
    <3>5. tx.nonce < Nonce'[tx.from]
      BY <2>1, <3>3
    <3> QED
      BY <3>2, <3>4, <3>5 DEF IssuedOnce, T
  <2> QED
    BY <2>2, <2>4, <2>5, <2>6 DEF IssuedInv
<1> QED
  BY <1>2, <1>3

LEMMA InitIssued == Init => IssuedInv
<1> SUFFICES ASSUME Init PROVE IssuedInv
  OBVIOUS
<1>1. {} \in SUBSET Posted /\ Carried({})
  BY InitReplay
<1>2. IssuedOnce({}) /\ OwnWallets
  BY DEF IssuedOnce, OwnWallets, Init, ClientInit
<1> QED
  BY <1>1, <1>2 DEF IssuedInv

-----------------------------------------------------------------------------
(* A chain has no nonce its sender has not used, and each of its blocks    *)
(* has the nonces between the one of its parent and its own.               *)

LEMMA NextIsIssued ==
  ASSUME TreeInv, NoReplay, NEW S \in SUBSET Posted, Carried(S), IssuedOnce(S),
         NEW n \in Node, NEW b \in DOMAIN Blocks[n]
  PROVE  /\ Blocks[n][b].nextNonce[n] \in Nat
         /\ Blocks[n][b].nextNonce[n] <= Nonce[n]
<1> DEFINE next   == Blocks[n][b].nextNonce[n]
           len    == block[b].len
           chain  == Chain(block[b])
           Txs(h) == block[chain[h]].txs
<1>1. /\ next \in Nat /\ Nonce[n] \in Nat
      /\ b \in DOMAIN block /\ block[b].id = b /\ len \in Nat
  BY ClientAssumption, LedgerAssumption, PaymentAssumption
     DEF Carried, BlocksOK, WalletsOK, LedgerType, Amount, TreeInv, TreeOK, KnownOK
<1>2. \A k \in 0 .. next - 1 : \E h \in 0 .. len : \E i \in DOMAIN Txs(h) :
        Txs(h)[i].from = n /\ Txs(h)[i].nonce = k
  <2> DEFINE Own(h) == {i \in DOMAIN Txs(h) : Txs(h)[i].from = n}
  <2>1. \A k \in 0 .. next - 1 : \E h \in 0 .. len : \E i \in Own(h) : Txs(h)[i].nonce = k
    BY ONLY NoReplay, n \in Node, b \in DOMAIN Blocks[n] DEF NoReplay
  <2> HIDE DEF next, len, chain
  <2> QED
    BY ONLY <2>1
<1>3. \A h \in 0 .. len : chain[h] \in DOMAIN block
  BY <1>1 DEF Chain, TreeInv, HeightsOK
<1>4. \A h \in 0 .. len : Txs(h) \in Seq(S)
  BY <1>3 DEF Carried, BlocksOK
<1> HIDE DEF next, len, Txs, chain
<1>5. ASSUME next > Nonce[n]
      PROVE  FALSE
  <2>1. PICK h \in 0 .. len : \E i \in DOMAIN Txs(h) :
          Txs(h)[i].from = n /\ Txs(h)[i].nonce = Nonce[n]
    BY <1>1, <1>2, <1>5
  <2>2. PICK tx \in S : tx.from = n /\ tx.nonce = Nonce[n]
    BY <1>4, <2>1
  <2> QED
    BY <1>1, <2>2 DEF IssuedOnce
<1> QED
  BY <1>1, <1>5 DEF next

LEMMA OwnNonces ==
  ASSUME TreeInv, NEW S \in SUBSET Posted, Carried(S),
         NEW n \in Node, NEW b \in DOMAIN Blocks[n], b # Genesis
  PROVE  /\ block[b].prev \in DOMAIN Blocks[n]
         /\ NoncesInOrder(Blocks[n][block[b].prev].nextNonce,
                          Blocks[n][b].nextNonce, block[b].txs)
<1> DEFINE p == block[b].prev
<1>1. /\ p \in DOMAIN Blocks[n] /\ b \in DOMAIN block
      /\ Blocks[n][b] = LedgerAfter(block[p], Blocks[n][p], block[b].txs)
      /\ RerunSucceeds(block[p], Blocks[n][p], block[b].txs)
      /\ block[b].txs \in Seq(S) /\ Blocks[n][p] \in LedgerType
  BY DEF TreeInv, KnownOK, Carried, BlocksOK
<1>2. S \subseteq WellFormed /\ NoWrap(S)
  BY TransactionsAreWellFormed DEF NoWrap
<1> QED
  BY <1>1, <1>2, RerunKeepsNonces

\* A step that stays on the confirmed chain confirms the same block or a child
\* of it: a longer chain is longer by one block.
LEMMA ConfirmedMoves ==
  ASSUME TreeInv, NEW n \in Node, NEW b \in DOMAIN block, AcceptBlock(n, b),
         Longer(n, b),
         block[LastConfirmedBlock[n]] \in Lineage(block[LastConfirmedBlock'[n]])
  PROVE  LET old == LastConfirmedBlock[n]
             new == LastConfirmedBlock'[n]
         IN  /\ old \in DOMAIN Blocks[n] /\ new \in DOMAIN Blocks[n]
             /\ new = old \/ (new # Genesis /\ block[new].prev = old)
<1> DEFINE old  == LastConfirmedBlock[n]
           new  == LastConfirmedBlock'[n]
           p    == block[b].prev
           head == block[LastBlock[n]]
           Low(len) == IF len > CONFIRMED_DEPTH THEN len - CONFIRMED_DEPTH ELSE 0
<1>1. /\ b # Genesis /\ p \in DOMAIN Blocks[n] /\ p \in DOMAIN block
      /\ block[b].len = block[p].len + 1 /\ block[b].chain = Chain(block[p])
      /\ block[p].id = p /\ block[p].len \in Nat
  BY AcceptKnown DEF TreeInv, TreeOK, KnownOK
<1>2. /\ LastBlock[n] \in DOMAIN Blocks[n] /\ LastBlock[n] \in DOMAIN block
      /\ head.len \in Nat /\ block[p].len <= head.len /\ head.len < block[b].len
  BY <1>1 DEF TreeInv, TreeOK, KnownOK, HeadOK, Longer
<1>3. block[b].len = head.len + 1 /\ CONFIRMED_DEPTH \in Nat \ {0}
  BY <1>1, <1>2, ClientAssumption
<1>4. /\ old \in DOMAIN Blocks[n] /\ old \in DOMAIN block
      /\ block[old].len = Low(head.len) /\ block[old].id = old
  BY ConfirmedKnown DEF TreeInv, TreeOK, KnownOK
<1>5. /\ new \in DOMAIN Blocks[n] /\ new \in DOMAIN block
      /\ block[new].len = Low(block[b].len) /\ block[new].id = new
  <2> DEFINE low == Low(block[b].len)
  <2>1. new = Chain(block[p])[low] /\ low \in 0 .. block[p].len
    BY <1>1, <1>3, AcceptHead DEF ConfirmedAncestor
  <2> HIDE DEF Low, new, p
  <2>2. CASE low = block[p].len
    <3>1. new = p
      BY <1>1, <2>1, <2>2 DEF Chain
    <3> QED
      BY <1>1, <2>2, <3>1
  <2>3. CASE low # block[p].len
    <3>1. new = block[p].chain[low] /\ low \in 0 .. block[p].len - 1
      BY <1>1, <2>1, <2>3 DEF Chain
    <3>2. new \in DOMAIN Blocks[n] /\ block[new].len = low
      BY <1>1, <3>1 DEF TreeInv, HeightsOK, AncestorsKnown
    <3> QED
      BY <3>2 DEF TreeInv, TreeOK, KnownOK
  <2> QED
    BY <2>2, <2>3
<1>6. \/ block[new].len = block[old].len
      \/ block[new].len = block[old].len + 1
  BY <1>2, <1>3, <1>4, <1>5
<1>7. block[old].len \in Nat /\ block[new].len \in Nat
  BY <1>4, <1>5 DEF TreeInv, TreeOK
<1> HIDE DEF old, new, p, head, Low
<1>8. \/ block[old] = block[new]
      \/ \E h \in 0 .. block[new].len - 1 : block[old] = block[block[new].chain[h]]
  BY DEF Lineage, old, new
<1>9. ASSUME NEW h \in 0 .. block[new].len - 1, block[old] = block[block[new].chain[h]]
      PROVE  new # Genesis /\ block[new].prev = old
  <2>1. block[new].chain[h] \in DOMAIN block /\ block[block[new].chain[h]].len = h
    BY <1>5, <1>9 DEF TreeInv, HeightsOK
  <2>2. block[new].chain[h] = old /\ h = block[old].len
    BY <1>4, <1>9, <2>1 DEF TreeInv, TreeOK
  <2>3. block[new].len = h + 1 /\ new # Genesis
    BY <1>6, <1>7, <2>2 DEF TreeInv, TreeOK, GenesisHeader
  <2> DEFINE q == block[new].prev
  <2>4. /\ q \in DOMAIN block /\ block[q].id = q
        /\ block[new].len = block[q].len + 1 /\ block[new].chain = Chain(block[q])
        /\ block[q].len \in Nat
    BY <1>5, <2>3 DEF TreeInv, TreeOK
  <2>5. h = block[q].len
    BY <2>3, <2>4
  <2>6. block[new].chain[h] = q
    BY <2>4, <2>5 DEF Chain
  <2> QED
    BY <2>2, <2>3, <2>6
<1>10. block[old] = block[new] => old = new
  BY <1>4, <1>5
<1> QED
  BY <1>4, <1>5, <1>8, <1>9, <1>10 DEF old, new

\* SetLastConfirmed leaves pending what the newly confirmed block does not have.
LEMMA ConfirmExact ==
  ASSUME TreeInv, NEW S \in SUBSET Posted, Carried(S), IssuedOnce(S), OwnWallets,
         NEW n \in Node, WalletExact(n), NEW new \in DOMAIN Blocks[n],
         LastConfirmedBlock[n] \in DOMAIN Blocks[n],
         \/ new = LastConfirmedBlock[n]
         \/ new # Genesis /\ block[new].prev = LastConfirmedBlock[n],
         NEW left, left = {tx \in PendingOutgoingTransactions[n] :
                             ~ Contains(block[new].txs, tx)}
  PROVE  {tx.nonce : tx \in left} = Blocks[n][new].nextNonce[n] .. Nonce[n] - 1
<1> DEFINE old         == LastConfirmedBlock[n]
           txs         == block[new].txs
           pending     == PendingOutgoingTransactions[n]
           Executed(b) == Blocks[n][b].nextNonce[n]
<1>1. /\ txs \in Seq(S) /\ n \in Address /\ new \in DOMAIN block
      /\ Executed(old) \in Nat /\ Executed(new) \in Nat /\ Nonce[n] \in Nat
      /\ pending \subseteq S
      /\ \A tx \in S : tx.nonce \in Nat
  <2>1. n \in Address /\ Amount \subseteq Nat /\ MaxNonce \in Nat
    BY ClientAssumption, LedgerAssumption, PaymentAssumption DEF Amount
  <2>2. Blocks[n][old] \in LedgerType /\ Blocks[n][new] \in LedgerType
    BY DEF Carried, BlocksOK
  <2>3. Executed(old) \in Nat /\ Executed(new) \in Nat
    BY <2>1, <2>2 DEF LedgerType
  <2>4. new \in DOMAIN block /\ txs \in Seq(S)
    BY DEF TreeInv, KnownOK, Carried, BlocksOK
  <2>5. Nonce[n] \in Nat /\ pending \subseteq S
    BY <2>1 DEF Carried, WalletsOK
  <2>6. \A tx \in S : tx.nonce \in Nat
    BY <2>1 DEF Posted, Transaction
  <2> QED
    BY <2>1, <2>3, <2>4, <2>5, <2>6
<1>2. \A tx \in pending : tx.from = n
  BY DEF OwnWallets
<1>3. {tx.nonce : tx \in pending} = Executed(old) .. Nonce[n] - 1
  BY DEF WalletExact
<1>4. /\ \A i \in DOMAIN txs : txs[i].from = n => txs[i].nonce < Executed(new)
      /\ Executed(old) <= Executed(new)
      /\ new # old =>
           \A k \in Nat : Executed(old) <= k /\ k < Executed(new) =>
             \E i \in DOMAIN txs : txs[i].from = n /\ txs[i].nonce = k
  <2>1. CASE new = Genesis
    BY <1>1, <2>1 DEF TreeInv, TreeOK, GenesisHeader
  <2>2. CASE new # Genesis
    <3>1. NoncesInOrder(Blocks[n][block[new].prev].nextNonce,
                        Blocks[n][new].nextNonce, txs)
      BY <2>2, OwnNonces
    <3> QED
      BY <1>1, <3>1 DEF NoncesInOrder
  <2> QED
    BY <2>1, <2>2
<1>5. \A tx : Contains(txs, tx) <=> \E i \in DOMAIN txs : txs[i] = tx
  BY <1>1 DEF Contains
<1>6. left = {tx \in pending : ~ Contains(txs, tx)}
  OBVIOUS
<1> HIDE DEF old, txs, pending, Executed
<1>7. ASSUME NEW tx \in left
      PROVE  tx.nonce \in Executed(new) .. Nonce[n] - 1
  <2>1. tx \in pending /\ tx \in S /\ tx.from = n /\ tx.nonce \in Executed(old) .. Nonce[n] - 1
    BY <1>1, <1>2, <1>3, <1>6
  <2>2. ASSUME tx.nonce < Executed(new)
        PROVE  FALSE
    <3>1. new # old
      BY <1>1, <2>1, <2>2
    <3>2. PICK i \in DOMAIN txs : txs[i].from = n /\ txs[i].nonce = tx.nonce
      BY <1>1, <1>4, <2>1, <2>2, <3>1
    <3>3. txs[i] \in S
      BY <1>1
    <3>4. txs[i] = tx
      BY <2>1, <3>2, <3>3 DEF IssuedOnce
    <3> QED
      BY <1>5, <1>6, <3>4
  <2> QED
    BY <1>1, <2>1, <2>2
<1>8. ASSUME NEW k \in Executed(new) .. Nonce[n] - 1
      PROVE  \E tx \in left : tx.nonce = k
  <2>1. k \in Executed(old) .. Nonce[n] - 1
    BY <1>1, <1>4
  <2>2. PICK tx \in pending : tx.nonce = k
    BY <1>3, <2>1
  <2>3. ~ Contains(txs, tx)
    BY <1>1, <1>2, <1>4, <1>5, <2>2
  <2> QED
    BY <1>6, <2>2, <2>3
<1> QED
  BY <1>7, <1>8 DEF Executed

\* What the wallet of n is compared with.
ConfirmedNext(n) == Blocks[n][LastConfirmedBlock[n]].nextNonce[n]

\* A step that touches neither the wallet of n nor what n has confirmed.
LEMMA SameWallet ==
  ASSUME NEW n \in Node, WalletExact(n), Nonce'[n] = Nonce[n],
         PendingOutgoingTransactions'[n] = PendingOutgoingTransactions[n],
         ConfirmedNext(n)' = ConfirmedNext(n)
  PROVE  WalletExact(n)'
  BY DEF WalletExact, ConfirmedNext

\* A block that n accepts.
LEMMA AcceptExact ==
  ASSUME TreeInv, IssuedInv, NEW k \in Node, NEW b \in DOMAIN block, AcceptBlock(k, b),
         NEW n \in Node, WalletExact(n),
         block[LastConfirmedBlock[n]] \in Lineage(block[LastConfirmedBlock[n]])'
  PROVE  WalletExact(n)'
<1> PICK S \in SUBSET Posted : Carried(S) /\ IssuedOnce(S)
  BY DEF IssuedInv
<1>1. /\ DOMAIN PendingOutgoingTransactions = Node
      /\ LastConfirmedBlock[n] \in DOMAIN Blocks[n]
      /\ Nonce' = Nonce /\ block' = block
  <2>1. DOMAIN PendingOutgoingTransactions = Node
    BY DEF Carried, WalletsOK
  <2>2. LastConfirmedBlock[n] \in DOMAIN Blocks[n]
    BY ConfirmedKnown
  <2> QED
    BY <2>1, <2>2 DEF AcceptBlock
<1>2. CASE n # k \/ ~ Longer(k, b)
  <2>1. /\ LastConfirmedBlock'[n] = LastConfirmedBlock[n]
        /\ \A c \in DOMAIN Blocks[n] : Blocks'[n][c] = Blocks[n][c]
    BY <1>2, AcceptKnown, AcceptHead
  <2>2. PendingOutgoingTransactions'[n] = PendingOutgoingTransactions[n]
    BY <1>1, <1>2 DEF AcceptBlock, SetLastConfirmed
  <2>3. ConfirmedNext(n)' = ConfirmedNext(n)
    BY <1>1, <2>1 DEF ConfirmedNext
  <2> QED
    BY <1>1, <2>2, <2>3, SameWallet
<1>3. CASE n = k /\ Longer(k, b)
  <2> DEFINE new  == LastConfirmedBlock'[n]
             left == PendingOutgoingTransactions'[n]
  <2>1. block[LastConfirmedBlock[n]] \in Lineage(block[new])
    BY <1>1 DEF Lineage
  <2>2. /\ new \in DOMAIN Blocks[n]
        /\ \/ new = LastConfirmedBlock[n]
           \/ new # Genesis /\ block[new].prev = LastConfirmedBlock[n]
    BY <1>3, <2>1, ConfirmedMoves
  <2>3. new = ConfirmedAncestor(b) /\ Blocks'[n][new] = Blocks[n][new]
    BY <1>3, <2>2, AcceptHead, AcceptKnown
  <2>4. left = {tx \in PendingOutgoingTransactions[n] : ~ Contains(block[new].txs, tx)}
    BY <1>1, <1>3, <2>3 DEF AcceptBlock, SetLastConfirmed
  <2> HIDE DEF new, left
  <2>5. {tx.nonce : tx \in left} = Blocks[n][new].nextNonce[n] .. Nonce[n] - 1
    BY <1>1, <2>2, <2>4, ConfirmExact DEF IssuedInv
  <2> QED
    BY <1>1, <2>3, <2>5 DEF WalletExact, new, left
<1> QED
  BY <1>2, <1>3

\* A posted transaction has the next nonce, which no chain has reached.
LEMMA PostExact ==
  ASSUME TreeInv, IssuedInv, NoReplay, NEW k \in Node, NEW payment, Posts(k, payment),
         NEW n \in Node, WalletExact(n)
  PROVE  WalletExact(n)'
<1> PICK S \in SUBSET Posted : Carried(S) /\ IssuedOnce(S)
  BY DEF IssuedInv
<1> DEFINE tx   == NewTransaction(k, payment)
           next == ConfirmedNext(n)
<1>1. /\ tx.nonce = Nonce[k] /\ Nonce[k] \in Nat
      /\ Nonce' = [Nonce EXCEPT ![k] = Nonce[k] + 1]
      /\ PendingOutgoingTransactions' =
           [PendingOutgoingTransactions EXCEPT ![k] = @ \cup {tx}]
      /\ DOMAIN Nonce = Node /\ DOMAIN PendingOutgoingTransactions = Node
  BY PostedWallets DEF Carried, WalletsOK
<1>2. ConfirmedNext(n)' = ConfirmedNext(n)
  BY DEF Posts, PostTransaction, chainVars, ConfirmedNext
<1>3. CASE n # k
  BY <1>1, <1>2, <1>3, SameWallet
<1>4. CASE n = k
  <2>1. next \in Nat /\ next <= Nonce[n]
    BY ConfirmedKnown, NextIsIssued DEF ConfirmedNext
  <2>2. {t.nonce : t \in PendingOutgoingTransactions[n]} = next .. Nonce[n] - 1
    BY DEF WalletExact, ConfirmedNext
  <2> HIDE DEF tx, next
  <2>3. {t.nonce : t \in PendingOutgoingTransactions'[n]}
          = {t.nonce : t \in PendingOutgoingTransactions[n]} \cup {Nonce[n]}
    BY <1>1, <1>4
  <2>4. (next .. Nonce[n] - 1) \cup {Nonce[n]} = next .. Nonce'[n] - 1
    BY <1>1, <1>4, <2>1
  <2> QED
    BY <1>2, <2>2, <2>3, <2>4 DEF WalletExact, ConfirmedNext, next
<1> QED
  BY <1>3, <1>4

\* The other steps leave wallets and known blocks alone.
LEMMA OtherSteps ==
  ASSUME [Next]_vars
  PROVE  \/ \E n \in Node, b \in DOMAIN block : AcceptBlock(n, b)
         \/ \E n \in Node : \E payment : Posts(n, payment)
         \/ UNCHANGED <<Blocks, LastConfirmedBlock, walletVars>>
<1>1. ASSUME NEW n \in Node, HandleBlock(n)
      PROVE  \/ \E b \in DOMAIN block : AcceptBlock(n, b)
             \/ UNCHANGED <<Blocks, LastConfirmedBlock, walletVars>>
  BY <1>1 DEF HandleBlock, ReceiveBlock, IgnoreBlock, StickBlock, chainVars
<1>2. ASSUME NEW n \in Node, Join(n) \/ HandleRequest(n) \/ UserStep(n)
      PROVE  \/ \E payment : Posts(n, payment)
             \/ UNCHANGED <<Blocks, LastConfirmedBlock, walletVars>>
  BY <1>2 DEF Join, HandleRequest, ProvideMissingBlock, UserStep, Posts,
              ResendPendingTransactions, chainVars
<1>3. ASSUME NEW m \in MinerNode, HandleTransaction(m) \/ Mine(m)
      PROVE  UNCHANGED <<Blocks, LastConfirmedBlock, walletVars>>
  BY <1>3 DEF HandleTransaction, AddTransactionBytes, AddOwnTransaction, Mine,
              Initialize, FindProof, FindProofAgain, chainVars
<1>4. UNCHANGED vars => UNCHANGED <<Blocks, LastConfirmedBlock, walletVars>>
  BY DEF vars, chainVars
<1> QED
  BY <1>1, <1>2, <1>3, <1>4 DEF Next

\* A wallet holds exactly what the confirmed chain does not have, as long as no
\* step leaves that chain: although SetLastConfirmed reads one block only.
THEOREM WalletsStayExact == Spec => WalletStaysExact
<1> DEFINE Stays(n) ==
      WalletExact(n)
        /\ block[LastConfirmedBlock[n]] \in Lineage(block[LastConfirmedBlock[n]])'
      => WalletExact(n)'
<1>1. ASSUME TreeInv, IssuedInv, NoReplay, [Next]_vars, NEW n \in Node
      PROVE  Stays(n)
  <2> SUFFICES ASSUME WalletExact(n),
                      block[LastConfirmedBlock[n]]
                        \in Lineage(block[LastConfirmedBlock[n]])'
               PROVE  WalletExact(n)'
    OBVIOUS
  <2>1. CASE UNCHANGED <<Blocks, LastConfirmedBlock, walletVars>>
    BY <2>1, SameWallet DEF walletVars, ConfirmedNext
  <2> QED
    BY <1>1, <2>1, AcceptExact, PostExact, OtherSteps
<1>2. TreeInv /\ IssuedInv /\ NoReplay /\ [Next]_vars
        => [\A n \in Node : Stays(n)]_vars
  BY <1>1
<1>3. Init => TreeInv /\ NetInv /\ IssuedInv
  BY InitTree, InitNet, InitIssued
<1>4. TreeInv /\ NetInv /\ IssuedInv /\ [Next]_vars => (TreeInv /\ NetInv /\ IssuedInv)'
  BY NextTree, NextNet, NextIssued
<1> QED
  BY <1>2, <1>3, <1>4, NothingIsReplayed, PTL DEF Spec, WalletStaysExact

-----------------------------------------------------------------------------
(* The gold: how much of it a chain holds, and that every block a miner    *)
(* finds is accepted wherever its parent is known.                         *)
(*                                                                         *)
(* MinedInv bounds the blocks, hence by GoldAssumption all the gold there  *)
(* ever is; no sum of gold then wraps around.  Under that bound the block  *)
(* FillBlock makes is the one Rerun computes again, although they pay the  *)
(* reward of the parent at different times (FilledReplays).                *)

\* The blocks that were found, and who is paid for them.
Mined == {b \in DOMAIN block : ~ IsGenesisBlock(b)}

MinedInv ==
  /\ Finite(Mined)
  /\ CardOf(Mined) \in 0 .. MaxBlocks
  /\ \A b \in DOMAIN block : block[b].len <= CardOf(Mined)
  /\ \A b \in DOMAIN block \ {Genesis} : block[b].rewardAddr \in Address

-----------------------------------------------------------------------------
(* MinedInv is inductive beside TreeInv. *)

LEMMA CardinalityIs == \A S : Cardinality(S) = CardOf(S)
  BY DEF Cardinality, CardOf

LEMMA InitMined == Init => MinedInv
<1> SUFFICES ASSUME Init PROVE MinedInv
  OBVIOUS
<1>1. DOMAIN block = {Genesis} /\ block[Genesis].len = 0
  BY DEF Init, ClientInit, GenesisHeader
<1>2. Mined = {}
  BY <1>1 DEF Mined, IsGenesisBlock
<1>3. Finite({}) /\ CardOf({}) = 0
  BY FiniteUnion, LargerSet
<1> QED
  BY <1>1, <1>2, <1>3, MinerAssumption DEF MinedInv

\* Only FindProof adds a block: on top of the head of its miner.
LEMMA BlockFound ==
  ASSUME TreeInv, NEW m \in MinerNode, FindProof(m, Clients)
  PROVE  LET new  == <<m, clock[m]>>
             head == LastBlock[m]
             cur  == CurrentBlock[m]
         IN  /\ m \in Node
             /\ new \notin DOMAIN block /\ new # Genesis
             /\ head \in DOMAIN Blocks[m] /\ head \in DOMAIN block
             /\ DOMAIN block' = DOMAIN block \cup {new}
             /\ \A b \in DOMAIN block : block'[b] = block[b]
             /\ block'[new].len = block[head].len + 1
             /\ block'[new].prev = head
             /\ block'[new].rewardAddr = m
             /\ block'[new].txs = cur.txs
             /\ CurrentBlock'[m].txs = cur.txs
             /\ \A k \in MinerNode \ {m} : CurrentBlock'[k] = CurrentBlock[k]
<1> DEFINE new  == <<m, clock[m]>>
           head == LastBlock[m]
           cur  == CurrentBlock[m]
<1>1. /\ m \in Node /\ new \notin DOMAIN block /\ new # Genesis
      /\ head \in DOMAIN Blocks[m] /\ head \in DOMAIN block /\ block[head].id = head
  BY ClientAssumption DEF TreeInv, Domains, TreeOK, IdsAreUsedOnce, KnownOK, HeadOK
<1>2. cur = [id |-> cur.id, prev |-> head, len |-> block[head].len + 1,
             rewardAddr |-> m, txs |-> cur.txs, chain |-> Chain(block[head])]
  <2>1. Extends(m, cur, block[head])
    BY DEF FindProof, TreeInv, SearchOK, Initialized
  <2> QED
    BY ONLY <1>1, <2>1 DEF Extends
<1>3. /\ DOMAIN block' = DOMAIN block \cup {new}
      /\ \A b \in DOMAIN block \ {new} : block'[b] = block[b]
      /\ block'[new] = [cur EXCEPT !.id = new]
  BY DEF FindProof, With
<1>4. \A k \in MinerNode :
        CurrentBlock'[k] = IF k = m THEN [cur EXCEPT !.id = new] ELSE CurrentBlock[k]
  BY DEF FindProof, TreeInv, Domains
<1> HIDE DEF new, head, cur
<1>5. /\ [cur EXCEPT !.id = new].len = block[head].len + 1
      /\ [cur EXCEPT !.id = new].prev = head
      /\ [cur EXCEPT !.id = new].rewardAddr = m
      /\ [cur EXCEPT !.id = new].txs = cur.txs
  BY <1>2
<1> QED
  BY <1>1, <1>3, <1>4, <1>5 DEF new, head, cur

LEMMA FindProofMined ==
  ASSUME TreeInv, MinedInv, NEW m \in MinerNode, FindProof(m, Clients)
  PROVE  MinedInv'
<1> DEFINE new  == <<m, clock[m]>>
           head == LastBlock[m]
<1>1. /\ m \in Node /\ new \notin DOMAIN block
      /\ head \in DOMAIN block /\ block[head].len \in Nat
      /\ DOMAIN block' = DOMAIN block \cup {new}
      /\ \A b \in DOMAIN block : block'[b] = block[b]
      /\ block'[new].len = block[head].len + 1
      /\ block'[new].rewardAddr = m
  BY BlockFound DEF TreeInv, TreeOK
<1>2. CardOf(Mined) < MaxBlocks
  BY CardinalityIs DEF FindProof, Mined
<1> HIDE DEF new, head
<1>3. Mined' = Mined \cup {new} /\ new \notin Mined
  BY <1>1 DEF Mined, IsGenesisBlock
<1>4. /\ Finite(Mined') /\ CardOf(Mined') = CardOf(Mined) + 1
      /\ CardOf(Mined) \in Nat
  BY <1>3, LargerSet DEF MinedInv
<1>5. \A b \in DOMAIN block' : block'[b].len <= CardOf(Mined')
  <2> SUFFICES ASSUME NEW b \in DOMAIN block' PROVE block'[b].len <= CardOf(Mined')
    OBVIOUS
  <2>1. \A c \in DOMAIN block : block[c].len <= CardOf(Mined) /\ block[c].len \in Nat
    BY DEF MinedInv, TreeInv, TreeOK
  <2> QED
    BY <1>1, <1>4, <2>1
<1>6. \A b \in DOMAIN block' \ {Genesis} : block'[b].rewardAddr \in Address
  BY <1>1, ClientAssumption DEF MinedInv
<1>7. CardOf(Mined') \in 0 .. MaxBlocks
  BY <1>2, <1>4, MinerAssumption
<1> QED
  BY <1>4, <1>5, <1>6, <1>7 DEF MinedInv, CardOf

LEMMA NextMined ==
  ASSUME TreeInv, MinedInv, [Next]_vars
  PROVE  MinedInv'
<1>1. CASE block' = block
  BY <1>1 DEF MinedInv, Mined, IsGenesisBlock, CardOf
<1>2. ASSUME NEW m \in MinerNode, FindProof(m, Clients)
      PROVE  MinedInv'
  BY <1>2, FindProofMined
<1>3. \/ block' = block
      \/ \E m \in MinerNode : FindProof(m, Clients)
  <2>1. ASSUME NEW n \in Node, HandleBlock(n)
        PROVE  block' = block
    BY <2>1 DEF HandleBlock, ReceiveBlock, IgnoreBlock, StickBlock, AcceptBlock
  <2>2. ASSUME NEW n \in Node, Join(n) \/ HandleRequest(n) \/ UserStep(n)
        PROVE  block' = block
    BY <2>2 DEF Join, HandleRequest, ProvideMissingBlock, UserStep,
                PostTransaction, ResendPendingTransactions
  <2>3. ASSUME NEW m \in MinerNode, HandleTransaction(m) \/ Mine(m)
        PROVE  block' = block \/ FindProof(m, Clients)
    BY <2>3 DEF HandleTransaction, AddTransactionBytes, AddOwnTransaction, Mine,
                Initialize, FindProofAgain
  <2>4. UNCHANGED vars => block' = block
    BY DEF vars
  <2> QED
    BY <2>1, <2>2, <2>3, <2>4 DEF Next
<1> QED
  BY <1>1, <1>2, <1>3

-----------------------------------------------------------------------------
(* Gold along a chain *)

\* The fees on the chain of b.
ChainFees(b) ==
  SumFunction([h \in 0 .. block[b].len |-> FeesOf(block[Chain(block[b])[h]].txs)])

RewardedBlocks(b) == IF block[b].len = 0 THEN 0 ELSE block[b].len - 1

\* The coins that k blocks create.
Minted(k) == COINBASE_AMT_ALLOWED * k

\* What GoldConservation says of one block, and that the fees are no debt.
GoldOK(n, b) ==
  /\ ChainFees(b) \in Nat
  /\ TotalOf(Blocks[n][b].balances)
       = TotalOf(StartingBalances) + Minted(RewardedBlocks(b)) - ChainFees(b)

\* The payment of the reward of b leaves a sum of gold that fits.
HasRoom(n, b) ==
  TotalOf(Blocks[n][b].balances) + RewardOf(block[b]) < UintRange

LEMMA PostedFits == Fits(Posted) /\ Posted \subseteq WellFormed
<1>1. \A tx \in Posted : ExactTotal(tx) < UintRange
  BY GoldAssumption DEF Posted, ExactTotal
<1> QED
  BY <1>1, TransactionsAreWellFormed DEF Fits

LEMMA RewardsFit ==
  /\ Minted(0) = 0
  /\ \A k \in Nat : /\ Minted(k) \in Nat
                    /\ Minted(k + 1) = Minted(k) + COINBASE_AMT_ALLOWED
  /\ \A k \in 0 .. MaxBlocks : TotalOf(StartingBalances) + Minted(k) < UintRange
  /\ TotalOf(StartingBalances) \in Nat
<1> DEFINE start == TotalOf(StartingBalances)
<1>1. /\ COINBASE_AMT_ALLOWED \in Nat /\ MaxBlocks \in Nat /\ UintRange \in Nat
      /\ start + Minted(MaxBlocks) < UintRange
  BY LedgerAssumption, MinerAssumption, GoldAssumption DEF Minted
<1>2. start \in Nat
  BY TotalIsSum, LedgerAssumption DEF Amount
<1>3. Minted(0) = 0
  BY <1>1 DEF Minted
<1>4. \A k \in Nat : Minted(k) \in Nat /\ Minted(k + 1) = Minted(k) + COINBASE_AMT_ALLOWED
  BY <1>1 DEF Minted
<1>5. \A k \in 0 .. MaxBlocks : Minted(k) <= Minted(MaxBlocks)
  BY <1>1 DEF Minted
<1> HIDE DEF start
<1>6. \A k \in 0 .. MaxBlocks : start + Minted(k) < UintRange
  <2> SUFFICES ASSUME NEW k \in 0 .. MaxBlocks PROVE start + Minted(k) < UintRange
    OBVIOUS
  <2>1. /\ Minted(k) \in Nat /\ Minted(MaxBlocks) \in Nat
        /\ Minted(k) <= Minted(MaxBlocks)
    BY <1>1, <1>4, <1>5
  <2> QED
    BY <1>1, <1>2, <2>1
<1> QED
  BY <1>2, <1>3, <1>4, <1>6 DEF start

\* A ledger that conserves gold has room for the reward.
LEMMA GoldHasRoom ==
  ASSUME TreeInv, ReplayInv, MinedInv, NEW n \in Node, NEW b \in DOMAIN Blocks[n],
         GoldOK(n, b)
  PROVE  HasRoom(n, b)
<1> DEFINE c     == COINBASE_AMT_ALLOWED
           start == TotalOf(StartingBalances)
           gold  == TotalOf(Blocks[n][b].balances)
           fees  == ChainFees(b)
           len   == block[b].len
           r     == RewardedBlocks(b)
<1>1. b \in DOMAIN block
  BY DEF TreeInv, KnownOK
<1>2. /\ len \in Nat /\ len <= CardOf(Mined) /\ CardOf(Mined) \in 0 .. MaxBlocks
      /\ len = 0 <=> b = Genesis
  BY <1>1, OneGenesis DEF TreeInv, TreeOK, MinedInv, IsGenesisBlock
<1>3. len \in 0 .. MaxBlocks /\ r \in Nat /\ (len # 0 => len = r + 1)
  BY <1>2, MinerAssumption DEF RewardedBlocks
<1>4. RewardOf(block[b]) = IF len = 0 THEN 0 ELSE c
  <2>1. block[Genesis].rewardAddr = NoAddress
    BY DEF TreeInv, TreeOK, GenesisHeader
  <2>2. b # Genesis => block[b].rewardAddr # NoAddress
    BY <1>1, LedgerAssumption DEF MinedInv
  <2> QED
    BY <1>2, <2>1, <2>2 DEF RewardOf
<1>5. gold = start + Minted(r) - fees /\ fees \in Nat
  BY DEF GoldOK
<1>6. /\ start \in Nat /\ c \in Nat /\ UintRange \in Nat
      /\ Minted(r) \in Nat /\ Minted(r + 1) = Minted(r) + c
      /\ start + Minted(len) < UintRange
  BY <1>3, RewardsFit, LedgerAssumption
<1>7. len = 0 => Minted(r) = Minted(len)
  BY DEF RewardedBlocks
<1> HIDE DEF c, start, gold, fees, len, r
<1>8. CASE len = 0
  <2>1. gold < UintRange
    BY <1>5, <1>6, <1>7, <1>8
  <2>2. gold \in Int
    BY <1>5, <1>6
  <2> QED
    BY <1>4, <1>8, <2>1, <2>2 DEF HasRoom, gold
<1>9. CASE len # 0
  <2>1. start + Minted(r) + c < UintRange
    BY <1>3, <1>6, <1>9
  <2>2. gold + c < UintRange
    BY <1>5, <1>6, <2>1
  <2> QED
    BY <1>4, <1>9, <2>2 DEF HasRoom, gold
<1> QED
  BY <1>8, <1>9

\* The transactions of every block pay a fee that is no debt.
LEMMA FeesAreNat ==
  ASSUME ReplayInv, NEW b \in DOMAIN block
  PROVE  FeesOf(block[b].txs) \in Nat
<1>1. block[b].txs \in Seq(WellFormed)
  BY TransactionsAreWellFormed, SeqMonotonic DEF ReplayInv, Carried, BlocksOK
<1>2. CASE WellFormed = {}
  <2>1. block[b].txs = <<>>
    BY <1>1, <1>2
  <2> QED
    BY <2>1, NoFees
<1>3. CASE WellFormed # {}
  BY <1>1, <1>3, FeesGrow
<1> QED
  BY <1>2, <1>3

LEMMA ChainFeesGrow ==
  ASSUME TreeInv, ReplayInv
  PROVE  /\ ChainFees(Genesis) = 0
         /\ \A b \in DOMAIN block \ {Genesis} :
              LET p == block[b].prev
              IN  ChainFees(p) \in Nat =>
                    /\ ChainFees(b) \in Nat
                    /\ ChainFees(b) = ChainFees(p) + FeesOf(block[b].txs)
<1> DEFINE Fees(b, h) == FeesOf(block[Chain(block[b])[h]].txs)
           F(b)       == [h \in 0 .. block[b].len |-> Fees(b, h)]
<1>1. \A b : ChainFees(b) = SumOver(F(b), 0 .. block[b].len)
  BY DEF ChainFees, SumFunction, SumOver
<1>2. ChainFees(Genesis) = 0
  <2>1. /\ block[Genesis].len = 0 /\ block[Genesis].txs = <<>>
        /\ block[Genesis].id = Genesis
    BY DEF TreeInv, TreeOK, GenesisHeader
  <2>2. Fees(Genesis, 0) = 0
    BY <2>1, NoFees DEF Chain
  <2> DEFINE f == F(Genesis)
  <2>3. f[0] = 0
    BY <2>1, <2>2
  <2>4. ChainFees(Genesis) = SumOver(f, {0})
    <3>1. 0 .. 0 = {0}
      OBVIOUS
    <3> QED
      BY ONLY <1>1, <2>1, <3>1
  <2> HIDE DEF f
  <2>5. Finite({0}) /\ {0} \ {0} = {} /\ 0 \in {0}
    <3>1. {} \cup {0} = {0}
      OBVIOUS
    <3>2. Finite({} \cup {0})
      BY ONLY FiniteUnion
    <3> QED
      BY <3>1, <3>2
  <2>6. SumOver(f, {}) = 0
    BY FiniteUnion, SumTakesAny
  <2>7. \A x \in {0} : f[x] \in Nat
    BY <2>3
  <2>8. SumOver(f, {0}) = f[0] + SumOver(f, {0} \ {0})
    BY <2>5, <2>7, SumTakesEach
  <2> QED
    BY <2>3, <2>4, <2>5, <2>6, <2>8
<1>3. ASSUME NEW b \in DOMAIN block \ {Genesis}, ChainFees(block[b].prev) \in Nat
      PROVE  /\ ChainFees(b) \in Nat
             /\ ChainFees(b) = ChainFees(block[b].prev) + FeesOf(block[b].txs)
  <2> DEFINE p   == block[b].prev
             len == block[p].len
             f   == F(b)
             g   == F(p)
             own == FeesOf(block[b].txs)
  <2>1. /\ p \in DOMAIN block /\ len \in Nat /\ block[b].len = len + 1
        /\ block[b].id = b /\ block[b].chain = Chain(block[p])
    BY DEF TreeInv, TreeOK
  <2>2. \A h \in 0 .. len : /\ h \in 0 .. len + 1
                            /\ Chain(block[b])[h] = Chain(block[p])[h]
    BY <2>1 DEF Chain
  <2>3. Chain(block[b])[len + 1] = b /\ len + 1 \in 0 .. len + 1
    BY <2>1 DEF Chain
  <2>4. \A h \in 0 .. len : Chain(block[p])[h] \in DOMAIN block
    <3>1. block[p].id = p /\ \A h \in 0 .. len - 1 : block[p].chain[h] \in DOMAIN block
      BY <2>1 DEF TreeInv, TreeOK, HeightsOK
    <3>2. \A h \in 0 .. len : h = len \/ h \in 0 .. len - 1
      BY <2>1
    <3> QED
      BY <2>1, <3>1, <3>2 DEF Chain
  <2>5. \A h \in 0 .. len : Fees(b, h) \in Nat /\ Fees(b, h) = Fees(p, h)
    BY <2>2, <2>4, FeesAreNat
  <2>6. Fees(b, len + 1) = own /\ own \in Nat
    BY <2>3, FeesAreNat
  <2> HIDE DEF Fees
  <2>7. /\ \A h \in 0 .. len : f[h] = Fees(b, h) /\ g[h] = Fees(p, h)
        /\ f[len + 1] = Fees(b, len + 1)
    BY <2>1, <2>2, <2>3
  <2>8. /\ ChainFees(b) = SumOver(f, 0 .. len + 1)
        /\ ChainFees(p) = SumOver(g, 0 .. len)
    BY <1>1, <2>1
  <2> HIDE DEF F, f, g, own, len, p
  <2>9. \A h \in 0 .. len + 1 : f[h] \in Nat
    <3> SUFFICES ASSUME NEW h \in 0 .. len + 1 PROVE f[h] \in Nat
      OBVIOUS
    <3>1. h \in 0 .. len \/ h = len + 1
      BY <2>1
    <3> QED
      BY <2>5, <2>6, <2>7, <3>1
  <2>10. SumOver(f, 0 .. len + 1) = SumOver(f, 0 .. len) + f[len + 1]
    <3>1. 0 \in {0, 1} /\ len \in Nat
      BY <2>1
    <3> QED
      BY <2>9, <3>1, SumExtends
  <2>11. SumOver(f, 0 .. len) = SumOver(g, 0 .. len)
    <3> DEFINE s == 0 .. len
    <3>1. Finite(s)
      BY <2>1, FiniteInterval
    <3>2. \A h \in s : f[h] = g[h]
      BY <2>5, <2>7
    <3> HIDE DEF s
    <3>3. SumOver(f, s) = SumOver(g, s)
      BY <3>1, <3>2, SumDepends
    <3> QED
      BY <3>3 DEF s
  <2>12. ChainFees(b) = ChainFees(p) + own
    BY <2>6, <2>7, <2>8, <2>10, <2>11
  <2> QED
    BY <1>3, <2>6, <2>12 DEF p, own
<1> QED
  BY <1>2, <1>3

\* Rerun adds the reward of the parent to the gold of its ledger, and takes the
\* fees of the block away.
LEMMA ChildGold ==
  ASSUME TreeInv, ReplayInv, MinedInv, NEW n \in Node,
         NEW b \in DOMAIN Blocks[n] \ {Genesis}, GoldOK(n, block[b].prev)
  PROVE  GoldOK(n, b)
<1> DEFINE p      == block[b].prev
           parent == block[p]
           ledger == Blocks[n][p]
           txs    == block[b].txs
<1>1. /\ b \in DOMAIN block /\ p \in DOMAIN Blocks[n] /\ p \in DOMAIN block
      /\ Blocks[n][b] = LedgerAfter(parent, ledger, txs)
      /\ block[b].len = parent.len + 1 /\ parent.len \in Nat
  BY DEF TreeInv, TreeOK, KnownOK
<1>2. /\ ledger \in LedgerType /\ txs \in Seq(Posted)
      /\ RerunSucceeds(parent, ledger, txs)
  BY <1>1 DEF ReplayInv, Carried, BlocksOK
<1>3. parent.rewardAddr = (IF p = Genesis THEN NoAddress ELSE parent.rewardAddr)
      /\ parent.rewardAddr \in Address \cup {NoAddress}
      /\ (p # Genesis => parent.rewardAddr \in Address)
  BY <1>1 DEF MinedInv, TreeInv, TreeOK, GenesisHeader
<1>4. TotalOf(ledger.balances) + RewardOf(parent) < UintRange
  BY <1>1, GoldHasRoom DEF HasRoom
<1>5. /\ ChainFees(p) \in Nat /\ ChainFees(b) \in Nat
      /\ ChainFees(b) = ChainFees(p) + FeesOf(txs)
      /\ TotalOf(ledger.balances)
           = TotalOf(StartingBalances) + Minted(RewardedBlocks(p)) - ChainFees(p)
  BY <1>1, ChainFeesGrow DEF GoldOK
<1>6. Minted(RewardedBlocks(b)) = Minted(RewardedBlocks(p)) + RewardOf(parent)
  <2>1. parent.len = 0 <=> p = Genesis
    BY <1>1, OneGenesis DEF IsGenesisBlock
  <2>2. RewardedBlocks(b) = parent.len
    BY <1>1 DEF RewardedBlocks
  <2>3. CASE parent.len = 0
    BY <1>3, <2>1, <2>2, <2>3, RewardsFit DEF RewardedBlocks, RewardOf
  <2>4. CASE parent.len # 0
    <3>1. /\ RewardedBlocks(p) = parent.len - 1 /\ parent.len - 1 \in Nat
          /\ (parent.len - 1) + 1 = parent.len
      BY <1>1, <2>4 DEF RewardedBlocks
    <3>2. Minted((parent.len - 1) + 1) = Minted(parent.len - 1) + COINBASE_AMT_ALLOWED
      BY <3>1, RewardsFit
    <3>3. RewardOf(parent) = COINBASE_AMT_ALLOWED
      BY <1>3, <2>1, <2>4, LedgerAssumption DEF RewardOf
    <3> QED
      BY <2>2, <3>1, <3>2, <3>3
  <2> QED
    BY <2>3, <2>4
<1>7. /\ TotalOf(Blocks[n][b].balances) + FeesOf(txs)
           = TotalOf(ledger.balances) + RewardOf(parent)
      /\ FeesOf(txs) \in Nat
  <2> HIDE DEF parent, ledger, txs
  <2>1. /\ TotalOf(LedgerAfter(parent, ledger, txs).balances) + FeesOf(txs)
             = TotalOf(ledger.balances) + RewardOf(parent)
        /\ FeesOf(txs) \in Nat
    BY <1>2, <1>3, <1>4, PostedFits, RerunKeepsGold
  <2> QED
    BY <1>1, <2>1
<1>8. /\ TotalOf(Blocks[n][b].balances) \in Nat /\ TotalOf(ledger.balances) \in Nat
      /\ TotalOf(StartingBalances) \in Nat
      /\ Minted(RewardedBlocks(p)) \in Nat /\ RewardOf(parent) \in Nat
  <2>1. Blocks[n][b] \in LedgerType
    BY DEF ReplayInv, Carried, BlocksOK
  <2>2. RewardedBlocks(p) \in Nat
    BY <1>1 DEF RewardedBlocks
  <2> QED
    BY <1>2, <2>1, <2>2, TotalIsSum, RewardsFit, LedgerAssumption
       DEF LedgerType, RewardOf
<1> HIDE DEF p, parent, ledger, txs
<1> QED
  BY <1>5, <1>6, <1>7, <1>8 DEF GoldOK

LEMMA GoldEverywhere ==
  TreeInv /\ ReplayInv /\ MinedInv =>
    \A n \in Node : \A b \in DOMAIN Blocks[n] : GoldOK(n, b) /\ HasRoom(n, b)
<1> SUFFICES ASSUME TreeInv, ReplayInv, MinedInv, NEW n \in Node
             PROVE  \A b \in DOMAIN Blocks[n] : GoldOK(n, b)
  BY GoldHasRoom
<1> DEFINE T == {k \in Nat : \A b \in DOMAIN Blocks[n] :
                   block[b].len = k => GoldOK(n, b)}
<1>1. \A b \in DOMAIN Blocks[n] :
        /\ b \in DOMAIN block /\ block[b].len \in Nat
        /\ block[b].len = 0 <=> b = Genesis
        /\ b # Genesis => /\ block[b].prev \in DOMAIN Blocks[n]
                          /\ block[b].len = block[block[b].prev].len + 1
  BY OneGenesis DEF TreeInv, TreeOK, KnownOK, IsGenesisBlock
<1>2. GoldOK(n, Genesis)
  <2>1. /\ Blocks[n][Genesis].balances = StartingBalances
        /\ RewardedBlocks(Genesis) = 0
    BY <1>1 DEF TreeInv, TreeOK, KnownOK, GenesisLedger, GenesisHeader, RewardedBlocks
  <2> QED
    BY <2>1, ChainFeesGrow, RewardsFit DEF GoldOK
<1>3. 0 \in T
  BY <1>1, <1>2
<1>4. ASSUME NEW k \in Nat, k \in T
      PROVE  k + 1 \in T
  <2> SUFFICES ASSUME NEW b \in DOMAIN Blocks[n], block[b].len = k + 1
               PROVE  GoldOK(n, b)
    OBVIOUS
  <2>1. /\ b # Genesis /\ block[b].prev \in DOMAIN Blocks[n]
        /\ block[block[b].prev].len = k
    BY <1>1
  <2>2. GoldOK(n, block[b].prev)
    BY <1>4, <2>1
  <2> QED
    BY <2>1, <2>2, ChildGold
<1> HIDE DEF T
<1>5. \A k \in Nat : k \in T
  BY <1>3, <1>4, Add!NatSetInduction
<1> QED
  BY <1>1, <1>5 DEF T

\* The model's bound bounds the chains, and every miner is paid.
THEOREM MinedInvariant == Spec => []MinedInv
<1>1. Init => MinedInv
  BY InitMined
<1>2. TreeInv /\ MinedInv /\ [Next]_vars => MinedInv'
  BY NextMined
<1> QED
  BY <1>1, <1>2, TreeInvariant, PTL DEF Spec

\* Only rewards create gold and only fees destroy it, on every chain that a node
\* knows, whatever was paid, resent, reordered or abandoned.
THEOREM GoldIsConserved == Spec => []GoldConservation
<1>1. TreeInv /\ ReplayInv /\ MinedInv => GoldConservation
  BY GoldEverywhere
     DEF GoldConservation, GoldOK, Minted, ChainFees, RewardedBlocks
<1> QED
  BY <1>1, TreeInvariant, ReplayInvariant, MinedInvariant, PTL

-----------------------------------------------------------------------------
(* Honest blocks.  HonestInv is inductive beside the invariants above: what *)
(* a miner works on replays on its head, and so does a block wherever its   *)
(* parent is known.                                                         *)

\* The transactions replay on top of block b as n knows it.
ReplaysOn(n, b, txs) == RerunSucceeds(block[b], Blocks[n][b], txs)

BlocksReplay ==
  \A n \in Node : \A b \in DOMAIN block \ {Genesis} :
    block[b].prev \in DOMAIN Blocks[n] => ReplaysOn(n, block[b].prev, block[b].txs)

SearchReplays(m) ==
  Initialized(m) => ReplaysOn(m, LastBlock[m], CurrentBlock[m].txs)

HonestInv == BlocksReplay /\ \A m \in MinerNode : SearchReplays(m)

RoomInv == \A n \in Node : \A b \in DOMAIN Blocks[n] : HasRoom(n, b)

LEMMA InitHonest == Init => HonestInv
  BY DEF Init, ClientInit, MinerInit, HonestInv, BlocksReplay, SearchReplays,
         Initialized

\* A new search replays.
LEMMA SearchIsHonest ==
  ASSUME TreeInv, MinedInv, NEW m \in MinerNode, NEW head \in DOMAIN block,
         NEW ledger \in LedgerType,
         TotalOf(ledger.balances) + RewardOf(block[head]) < UintRange,
         NEW pool, pool \subseteq Posted, Finite(pool),
         StartNewSearch(m, head, ledger, pool)
  PROVE  /\ RerunSucceeds(block[head], ledger, CurrentBlock'[m].txs)
         /\ \A k \in MinerNode \ {m} : CurrentBlock'[k] = CurrentBlock[k]
<1>1. PICK order \in SetToSeqs(pool) :
        CurrentBlock' = [CurrentBlock EXCEPT ![m] =
                           NewBlock(m, block[head], FillBlock(ledger, order).txs)]
  BY DEF StartNewSearch
<1>2. order \in Seq(Posted)
  BY OrderIsSequence
<1>3. block[head].rewardAddr \in Address \cup {NoAddress}
  BY DEF MinedInv, TreeInv, TreeOK, GenesisHeader
<1>4. RerunSucceeds(block[head], ledger, FillBlock(ledger, order).txs)
  <2> DEFINE parent == block[head]
  <2>1. /\ parent.rewardAddr \in Address \cup {NoAddress}
        /\ TotalOf(ledger.balances) + RewardOf(parent) < UintRange
    BY <1>3
  <2> HIDE DEF parent
  <2>2. RerunSucceeds(parent, ledger, FillBlock(ledger, order).txs)
    BY <1>2, <2>1, PostedFits, FilledReplays
  <2> QED
    BY <2>2 DEF parent
<1>5. CurrentBlock'[m].txs = FillBlock(ledger, order).txs
  BY <1>1 DEF NewBlock, TreeInv, Domains
<1> QED
  BY <1>1, <1>4, <1>5 DEF TreeInv, Domains

LEMMA SameHonest ==
  ASSUME HonestInv, UNCHANGED <<block, Blocks, LastBlock, CurrentBlock>>
  PROVE  HonestInv'
  BY DEF HonestInv, BlocksReplay, SearchReplays, ReplaysOn, Initialized

LEMMA InitializeHonest ==
  ASSUME TreeInv, ReplayInv, MinedInv, RoomInv, HonestInv,
         NEW m \in MinerNode, Initialize(m)
  PROVE  HonestInv'
<1> DEFINE head   == LastBlock[m]
           ledger == Blocks[m][head]
           pool   == Transactions[m]
<1>1. /\ m \in Node /\ head \in DOMAIN Blocks[m] /\ head \in DOMAIN block
      /\ ledger \in LedgerType
      /\ pool \subseteq Posted /\ Finite(pool)
      /\ TotalOf(ledger.balances) + RewardOf(block[head]) < UintRange
  BY ClientAssumption
     DEF TreeInv, HeadOK, KnownOK, ReplayInv, Carried, BlocksOK, PoolsOK, RoomInv, HasRoom
<1>2. /\ StartNewSearch(m, head, ledger, pool)
      /\ UNCHANGED <<block, Blocks, LastBlock>>
  BY DEF Initialize, chainVars
<1> HIDE DEF head, ledger, pool
<1>3. /\ RerunSucceeds(block[head], ledger, CurrentBlock'[m].txs)
      /\ \A k \in MinerNode \ {m} : CurrentBlock'[k] = CurrentBlock[k]
  BY <1>1, <1>2, SearchIsHonest
<1>4. ReplaysOn(m, LastBlock[m], CurrentBlock[m].txs)'
  BY <1>2, <1>3 DEF ReplaysOn, head, ledger
<1>5. ASSUME NEW k \in MinerNode PROVE SearchReplays(k)'
  <2>1. CASE k = m
    BY <1>4, <2>1 DEF SearchReplays
  <2>2. CASE k # m
    BY <1>2, <1>3, <2>2 DEF HonestInv, SearchReplays, ReplaysOn, Initialized
  <2> QED
    BY <2>1, <2>2
<1>6. BlocksReplay'
  BY <1>2 DEF HonestInv, BlocksReplay, ReplaysOn
<1> QED
  BY <1>5, <1>6 DEF HonestInv

\* A block that was found replays on its parent at its miner, hence wherever the
\* parent is known: the ledgers agree.
LEMMA FindProofHonest ==
  ASSUME TreeInv, HonestInv, NEW m \in MinerNode, FindProof(m, Clients)
  PROVE  HonestInv'
<1> DEFINE new  == <<m, clock[m]>>
           head == LastBlock[m]
           cur  == CurrentBlock[m]
<1>1. /\ m \in Node /\ new \notin DOMAIN block /\ new # Genesis
      /\ head \in DOMAIN Blocks[m] /\ head \in DOMAIN block
      /\ DOMAIN block' = DOMAIN block \cup {new}
      /\ \A b \in DOMAIN block : block'[b] = block[b]
      /\ block'[new].prev = head /\ block'[new].txs = cur.txs
      /\ CurrentBlock'[m].txs = cur.txs
      /\ \A k \in MinerNode \ {m} : CurrentBlock'[k] = CurrentBlock[k]
  BY BlockFound
<1>2. Blocks' = Blocks /\ LastBlock' = LastBlock
  BY DEF FindProof, chainVars
<1>3. ReplaysOn(m, head, cur.txs)
  BY DEF FindProof, HonestInv, SearchReplays
<1> HIDE DEF new, head, cur
<1>4. \A n \in Node : DOMAIN Blocks[n] \subseteq DOMAIN block
  BY DEF TreeInv, KnownOK
<1>5. ASSUME NEW n \in Node, NEW b \in DOMAIN block' \ {Genesis},
             block'[b].prev \in DOMAIN Blocks'[n]
      PROVE  ReplaysOn(n, block[b].prev, block[b].txs)'
  <2>1. CASE b = new
    <3>1. head \in DOMAIN Blocks[n] /\ Blocks[n][head] = Blocks[m][head]
      BY <1>1, <1>2, <1>5, <2>1 DEF TreeInv, LedgerAgreement
    <3> QED
      BY <1>1, <1>2, <1>3, <2>1, <3>1 DEF ReplaysOn
  <2>2. CASE b # new
    <3>1. /\ b \in DOMAIN block /\ block'[b] = block[b]
          /\ block[b].prev \in DOMAIN Blocks[n]
          /\ block'[block[b].prev] = block[block[b].prev]
      BY <1>1, <1>2, <1>4, <1>5, <2>2
    <3>2. ReplaysOn(n, block[b].prev, block[b].txs)
      BY <1>5, <3>1 DEF HonestInv, BlocksReplay
    <3> QED
      BY <1>2, <3>1, <3>2 DEF ReplaysOn
  <2> QED
    BY <2>1, <2>2
<1>6. ASSUME NEW k \in MinerNode PROVE SearchReplays(k)'
  <2>1. k \in Node /\ block'[LastBlock[k]] = block[LastBlock[k]]
    <3>1. k \in Node
      BY ClientAssumption
    <3> QED
      BY <1>1, <1>4, <3>1 DEF TreeInv, HeadOK
  <2>2. CASE k = m
    BY <1>1, <1>2, <1>3, <2>1, <2>2 DEF SearchReplays, ReplaysOn, head
  <2>3. CASE k # m
    BY <1>1, <1>2, <2>1, <2>3 DEF HonestInv, SearchReplays, ReplaysOn, Initialized
  <2> QED
    BY <2>2, <2>3
<1>7. BlocksReplay'
  BY <1>5 DEF BlocksReplay
<1> QED
  BY <1>6, <1>7 DEF HonestInv

\* A node that accepts the parent of a block gets the ledger that the registered
\* nodes have which know the parent.
LEMMA AcceptHonest ==
  ASSUME TreeInv, ReplayInv, MinedInv, RoomInv, HonestInv, ParentsHeld, NetInv,
         TreeInv', ReplayInv', RoomInv',
         NEW n \in Node, NEW b \in DOMAIN block, Accepts(n, b)
  PROVE  HonestInv'
<1>1. AcceptBlock(n, b)
  BY DEF Accepts
<1>2. /\ b \notin DOMAIN Blocks[n]
      /\ block' = block
      /\ DOMAIN Blocks'[n] = DOMAIN Blocks[n] \cup {b}
      /\ \A c \in DOMAIN Blocks[n] : Blocks'[n][c] = Blocks[n][c]
      /\ \A k \in Node \ {n} : Blocks'[k] = Blocks[k]
  BY <1>1, AcceptKnown
<1>3. /\ \A k \in Node \ {n} : LastBlock'[k] = LastBlock[k]
      /\ Longer(n, b) => LastBlock'[n] = b
      /\ ~ Longer(n, b) => LastBlock'[n] = LastBlock[n]
  BY <1>1, AcceptHead
<1>4. \A k \in Node : \A c \in DOMAIN Blocks[k] :
        c \in DOMAIN Blocks'[k] /\ Blocks'[k][c] = Blocks[k][c]
  BY <1>2
<1>5. ASSUME NEW k \in Node, NEW c \in DOMAIN block \ {Genesis},
             block[c].prev \in DOMAIN Blocks'[k]
      PROVE  ReplaysOn(k, block[c].prev, block[c].txs)'
  <2> DEFINE p == block[c].prev
  <2>1. CASE p \in DOMAIN Blocks[k]
    BY <1>2, <1>4, <2>1 DEF HonestInv, BlocksReplay, ReplaysOn
  <2>2. CASE p \notin DOMAIN Blocks[k]
    <3>1. PICK j \in Node : p \in DOMAIN Blocks[j]
      BY DEF ParentsHeld, NetInv
    <3>2. ReplaysOn(j, p, block[c].txs)
      BY <3>1 DEF HonestInv, BlocksReplay
    <3>3. p \in DOMAIN Blocks'[j] /\ Blocks'[j][p] = Blocks[j][p]
      BY <1>4, <3>1
    <3>4. Blocks'[k][p] = Blocks'[j][p]
      BY <1>5, <3>3 DEF TreeInv, LedgerAgreement
    <3> QED
      BY <1>2, <3>2, <3>3, <3>4 DEF ReplaysOn
  <2> QED
    BY <2>1, <2>2
<1>6. BlocksReplay'
  BY <1>2, <1>5 DEF BlocksReplay
<1>7. ASSUME NEW k \in MinerNode,
             CurrentBlock'[k] = CurrentBlock[k], LastBlock'[k] = LastBlock[k]
      PROVE  SearchReplays(k)'
  <2>1. k \in Node /\ LastBlock[k] \in DOMAIN Blocks[k]
    BY ClientAssumption DEF TreeInv, HeadOK
  <2>2. Blocks'[k][LastBlock[k]] = Blocks[k][LastBlock[k]]
    BY <1>4, <2>1
  <2> QED
    BY <1>2, <1>7, <2>2 DEF HonestInv, SearchReplays, ReplaysOn, Initialized
<1>8. CASE n \in MinerNode /\ Initialized(n) /\ block[b].len >= CurrentBlock[n].len
  <2> DEFINE pool   == Transactions[n] \cup SyncTransaction(n, b)
             head   == LastBlock'[n]
             ledger == Blocks'[n][head]
  <2>1. StartNewSearch(n, head, ledger, pool)
    BY <1>8 DEF Accepts, CutOver
  <2>2. pool \subseteq Posted /\ Finite(pool)
    BY <1>8, SyncReplay, FiniteUnion DEF ReplayInv, Carried, PoolsOK
  <2>3. head \in DOMAIN Blocks'[n] /\ head \in DOMAIN block
    BY <1>2 DEF TreeInv, HeadOK, KnownOK
  <2>4. ledger \in LedgerType
    BY <2>3 DEF ReplayInv, Carried, BlocksOK
  <2>5. TotalOf(ledger.balances) + RewardOf(block[head]) < UintRange
    BY <1>2, <2>3 DEF RoomInv, HasRoom
  <2> HIDE DEF pool, head, ledger
  <2>6. /\ RerunSucceeds(block[head], ledger, CurrentBlock'[n].txs)
        /\ \A k \in MinerNode \ {n} : CurrentBlock'[k] = CurrentBlock[k]
    BY <1>8, <2>1, <2>2, <2>3, <2>4, <2>5, SearchIsHonest
  <2>7. SearchReplays(n)'
    BY <1>2, <2>6 DEF SearchReplays, ReplaysOn, head, ledger
  <2>8. ASSUME NEW k \in MinerNode \ {n} PROVE SearchReplays(k)'
    BY <1>3, <1>7, <2>6, ClientAssumption
  <2> QED
    BY <1>6, <2>7, <2>8 DEF HonestInv
<1>9. CASE ~ (n \in MinerNode /\ Initialized(n) /\ block[b].len >= CurrentBlock[n].len)
  <2>1. CurrentBlock' = CurrentBlock
    BY <1>9 DEF Accepts, CutOver
  <2>2. ASSUME NEW k \in MinerNode, Initialized(k)
        PROVE  LastBlock'[k] = LastBlock[k]
    <3>1. CASE k # n
      BY <1>3, <3>1, ClientAssumption
    <3>2. CASE k = n
      <4>1. Extends(n, CurrentBlock[n], block[LastBlock[n]])
        BY <2>2, <3>2 DEF TreeInv, SearchOK, Initialized
      <4>2. CurrentBlock[n].len = block[LastBlock[n]].len + 1
        BY ONLY <4>1 DEF Extends
      <4>3. block[LastBlock[n]].len \in Nat /\ block[b].len \in Nat
        BY DEF TreeInv, TreeOK, HeadOK, KnownOK
      <4>4. ~ Longer(n, b)
        BY <1>9, <2>2, <3>2, <4>2, <4>3 DEF Longer
      <4> QED
        BY <1>3, <3>2, <4>4
    <3> QED
      BY <3>1, <3>2
  <2>3. ASSUME NEW k \in MinerNode PROVE SearchReplays(k)'
    BY <1>7, <2>1, <2>2 DEF SearchReplays, Initialized
  <2> QED
    BY <1>6, <2>3 DEF HonestInv
<1> QED
  BY <1>8, <1>9

LEMMA NextHonest ==
  ASSUME TreeInv, NetInv, ReplayInv, MinedInv, RoomInv, ParentsHeld, HonestInv,
         TreeInv', ReplayInv', RoomInv', [Next]_vars
  PROVE  HonestInv'
<1>1. ASSUME NEW n \in Node, HandleBlock(n)
      PROVE  HonestInv'
  <2>1. PICK b \in DOMAIN block : ReceiveBlock(n, b)
    BY <1>1 DEF HandleBlock
  <2>2. CASE IgnoreBlock(n, b) /\ UNCHANGED minerVars
    BY <2>2, SameHonest DEF IgnoreBlock, chainVars, minerVars
  <2>3. CASE StickBlock(n, b, Clients) /\ UNCHANGED minerVars
    BY <2>3, SameHonest DEF StickBlock, minerVars
  <2>4. CASE Accepts(n, b)
    BY <2>4, AcceptHonest
  <2> QED
    BY <2>1, <2>2, <2>3, <2>4 DEF ReceiveBlock, Accepts
<1>2. ASSUME NEW n \in Node, Join(n) \/ HandleRequest(n) \/ UserStep(n)
      PROVE  HonestInv'
  <2>1. UNCHANGED <<block, Blocks, LastBlock, CurrentBlock>>
    BY <1>2 DEF Join, HandleRequest, ProvideMissingBlock, UserStep,
                PostTransaction, ResendPendingTransactions, chainVars, minerVars
  <2> QED
    BY <2>1, SameHonest
<1>3. ASSUME NEW m \in MinerNode, HandleTransaction(m) \/ FindProofAgain(m, Clients)
      PROVE  HonestInv'
  <2>1. UNCHANGED <<block, Blocks, LastBlock, CurrentBlock>>
    BY <1>3 DEF HandleTransaction, AddTransactionBytes, AddOwnTransaction,
                FindProofAgain, chainVars, minerVars
  <2> QED
    BY <2>1, SameHonest
<1>4. ASSUME NEW m \in MinerNode, Initialize(m) \/ FindProof(m, Clients)
      PROVE  HonestInv'
  BY <1>4, InitializeHonest, FindProofHonest
<1>5. CASE UNCHANGED vars
  BY <1>5, SameHonest DEF vars, chainVars, minerVars
<1> QED
  BY <1>1, <1>2, <1>3, <1>4, <1>5 DEF Next, Mine

\* Rerun refuses no block that was announced, at no node that has its parent:
\* no node is cut off from a branch.
THEOREM HonestBlocksAreReplayed == Spec => []HonestBlocksReplay
<1>1. TreeInv /\ HonestInv => HonestBlocksReplay
  <2> SUFFICES ASSUME TreeInv, HonestInv, NEW n \in Node, NEW b \in DOMAIN block,
                      block[b].prev \in DOMAIN Blocks[n], ~ IsGenesisBlock(b)
               PROVE  RerunSucceeds(block[block[b].prev], Blocks[n][block[b].prev],
                                    block[b].txs)
    BY DEF HonestBlocksReplay, Valid
  <2> QED
    BY OneGenesis DEF HonestInv, BlocksReplay, ReplaysOn
<1>2. TreeInv /\ ReplayInv /\ MinedInv => RoomInv
  BY GoldEverywhere DEF RoomInv
<1>3. Init => HonestInv /\ StrandInv
  BY InitHonest, InitStrand
<1>4. /\ TreeInv /\ NetInv /\ ReplayInv /\ MinedInv /\ RoomInv
      /\ TreeInv' /\ ReplayInv' /\ RoomInv'
      /\ HonestInv /\ StrandInv /\ [Next]_vars
      => HonestInv' /\ StrandInv'
  <2>1. StrandInv => ParentsHeld
    BY DEF StrandInv
  <2> QED
    BY <1>1, <2>1, NextHonest, NextStrand
<1> QED
  BY <1>1, <1>2, <1>3, <1>4, TreeInvariant, NetInvariant, ReplayInvariant,
     MinedInvariant, PTL DEF Spec

\* A block that waits for its parent is never forgotten: NoBlockIsStranded
\* without its hypothesis.
THEOREM NoBlockIsForgotten == Spec => []NoStrandedBlocks
  BY NoBlockIsStranded, HonestBlocksAreReplayed, PTL
-----------------------------------------------------------------------------
(* The funds.  What waits in a wallet never exceeds the confirmed balance, *)
(* as long as no node leaves a block that it has confirmed.  Beyond that   *)
(* nothing covers it: the nonces and the gold of an abandoned block are    *)
(* gone from the ledger, its transactions are not in the wallet any more.  *)

\* CONFIRMED_DEPTH is deep enough: a confirmed block stays on the chain.
ConfirmedIsFinal ==
  [][\A n \in Node :
       block[LastConfirmedBlock[n]] \in Lineage(block[LastConfirmedBlock[n]])']_vars

PendingGold(n) == SumOver(Payments, PendingOutgoingTransactions[n])

\* Inductive where the blocks are final.  A payment that gets confirmed takes
\* from the balance what it takes from the wallet.
FundsOK(n) ==
  /\ WalletExact(n)
  /\ Finite(PendingOutgoingTransactions[n])
  /\ PendingGold(n) <= ConfirmedBalance(n)

LEMMA FundsAreGold ==
  ASSUME TreeInv, ReplayInv, NEW n \in Node, Finite(PendingOutgoingTransactions[n])
  PROVE  /\ PendingOutgoingTransactions[n] \in SUBSET WellFormed
         /\ \A tx \in PendingOutgoingTransactions[n] : Payments[tx] \in Nat
         /\ PendingGold(n) \in Nat
         /\ ConfirmedBalance(n) \in Amount /\ ConfirmedBalance(n) \in Nat
         /\ PendingGold(n) <= ConfirmedBalance(n) =>
              AvailableGold(n) = ConfirmedBalance(n) - PendingGold(n)
<1> DEFINE P    == PendingOutgoingTransactions[n]
           gold == PendingGold(n)
           bal  == ConfirmedBalance(n)
<1>1. P \in SUBSET WellFormed
  BY TransactionsAreWellFormed DEF ReplayInv, Carried, WalletsOK
<1>2. \A tx \in P : Payments[tx] \in Nat
  <2>1. \A tx \in WellFormed : Payments[tx] \in Nat
    BY TotalOutputIsAmount, LedgerAssumption DEF Payments, Amount
  <2> QED
    BY <1>1, <2>1
<1>3. gold \in Nat
  BY <1>2, SumTakesEach DEF PendingGold
<1>4. bal \in Amount
  <2>1. LastConfirmedBlock[n] \in DOMAIN Blocks[n] /\ n \in Address
    BY ConfirmedKnown, ClientAssumption
  <2> QED
    BY <2>1 DEF ConfirmedBalance, ReplayInv, Carried, BlocksOK, LedgerType
<1>5. bal \in Nat
  BY <1>4, LedgerAssumption DEF Amount
<1>6. PendingSpent(n) = Uint(gold)
  BY <1>1, PaymentsAreSummed DEF PendingSpent, PendingGold
<1>7. AvailableGold(n) = Uint(bal - PendingSpent(n))
  BY DEF AvailableGold
<1> HIDE DEF gold, bal
<1>8. ASSUME gold <= bal
      PROVE  AvailableGold(n) = bal - gold
  <2>1. /\ UintRange \in Nat /\ bal <= UintRange - 1
        /\ Amount = 0 .. UintRange - 1
    BY <1>4, LedgerAssumption DEF Amount
  <2>2. gold \in Amount /\ bal - gold \in Amount
    BY <1>3, <1>5, <1>8, <2>1
  <2> QED
    <3>1. Uint(gold) = gold /\ Uint(bal - gold) = bal - gold
      <4>1. gold \in Int /\ bal - gold \in Int
        BY <1>3, <1>5
      <4> QED
        BY <2>2, <4>1, UintIsAmount
    <3> QED
      BY <1>6, <1>7, <3>1
<1> QED
  BY <1>1, <1>2, <1>3, <1>4, <1>5, <1>8 DEF gold, bal

\* A wallet that holds what the confirmed chain does not have holds all its own
\* transactions of the next confirmed block.
LEMMA OwnArePending ==
  ASSUME TreeInv, NoReplay, NEW S \in SUBSET Posted, Carried(S), IssuedOnce(S), OwnWallets,
         NEW n \in Node, WalletExact(n), NEW new \in DOMAIN Blocks[n], new # Genesis,
         block[new].prev = LastConfirmedBlock[n]
  PROVE  OwnOf(n, block[new].txs) \subseteq PendingOutgoingTransactions[n]
<1> DEFINE old  == LastConfirmedBlock[n]
           txs  == block[new].txs
           low  == Blocks[n][old].nextNonce[n]
           high == Blocks[n][new].nextNonce[n]
<1> SUFFICES ASSUME NEW tx \in OwnOf(n, txs)
             PROVE  tx \in PendingOutgoingTransactions[n]
  OBVIOUS
<1>1. n \in Address /\ txs \in Seq(S)
  BY ClientAssumption DEF TreeInv, KnownOK, Carried, BlocksOK
<1>2. PICK i \in DOMAIN txs : txs[i] = tx /\ tx \in S /\ tx.from = n
  BY <1>1 DEF OwnOf, ToSet
<1>3. NoncesInOrder(Blocks[n][old].nextNonce, Blocks[n][new].nextNonce, txs)
  BY OwnNonces
<1>4. low <= tx.nonce /\ tx.nonce < high
  BY <1>1, <1>2, <1>3 DEF NoncesInOrder
<1>5. high \in Nat /\ high <= Nonce[n] /\ low \in Nat
  BY NextIsIssued, ConfirmedKnown
<1>6. tx.nonce \in Nat /\ Nonce[n] \in Nat
  BY <1>2, PaymentAssumption DEF Posted, Transaction, Carried, WalletsOK
<1> HIDE DEF low, high, txs
<1>7. tx.nonce \in low .. Nonce[n] - 1
  BY <1>4, <1>5, <1>6
<1>8. PICK t \in PendingOutgoingTransactions[n] : t.nonce = tx.nonce
  BY <1>7 DEF WalletExact, low
<1>9. t \in S /\ t.from = n
  BY DEF Carried, WalletsOK, OwnWallets
<1> QED
  BY <1>2, <1>8, <1>9 DEF IssuedOnce

\* SetLastConfirmed takes from the wallet at least what the balance lost.
LEMMA ConfirmFunds ==
  ASSUME TreeInv, ReplayInv, IssuedInv, MinedInv, NoReplay,
         NEW n \in Node, FundsOK(n), NEW new \in DOMAIN Blocks[n], new # Genesis,
         block[new].prev = LastConfirmedBlock[n],
         NEW left, left = {tx \in PendingOutgoingTransactions[n] :
                             ~ Contains(block[new].txs, tx)}
  PROVE  SumOver(Payments, left) <= Blocks[n][new].balances[n]
<1> PICK S \in SUBSET Posted : Carried(S) /\ IssuedOnce(S)
  BY DEF IssuedInv
<1> DEFINE old     == LastConfirmedBlock[n]
           parent  == block[old]
           ledger  == Blocks[n][old]
           txs     == block[new].txs
           pending == PendingOutgoingTransactions[n]
           own     == OwnOf(n, txs)
           before  == ledger.balances[n]
           after   == Blocks[n][new].balances[n]
<1>1. /\ new \in DOMAIN block /\ old \in DOMAIN Blocks[n] /\ old \in DOMAIN block
      /\ Blocks[n][new] = LedgerAfter(parent, ledger, txs)
      /\ n \in Address
  BY ConfirmedKnown, ClientAssumption DEF TreeInv, KnownOK
<1>2. /\ ledger \in LedgerType /\ txs \in Seq(Posted)
      /\ RerunSucceeds(parent, ledger, txs)
  BY <1>1 DEF ReplayInv, Carried, BlocksOK
<1>3. parent.rewardAddr \in Address \cup {NoAddress}
  BY <1>1 DEF MinedInv, TreeInv, TreeOK, GenesisHeader
<1>4. TotalOf(ledger.balances) + RewardOf(parent) < UintRange
  BY <1>1, GoldEverywhere DEF HasRoom
<1>5. before <= after + SpentBy(n, txs)
  <2> HIDE DEF parent, ledger, txs
  <2>1. ledger.balances[n]
          <= LedgerAfter(parent, ledger, txs).balances[n] + SpentBy(n, txs)
    BY <1>1, <1>2, <1>3, <1>4, PostedFits, RerunSpends
  <2> QED
    BY <1>1, <2>1
<1>6. /\ Finite(pending) /\ \A tx \in pending : Payments[tx] \in Nat
      /\ PendingGold(n) \in Nat /\ PendingGold(n) <= before
      /\ before \in Nat
  BY FundsAreGold DEF FundsOK, ConfirmedBalance
<1>7. own \subseteq pending
  BY OwnArePending DEF IssuedInv, FundsOK
<1>8. left = pending \ own
  <2>1. \A tx \in pending : tx.from = n
    BY DEF IssuedInv, OwnWallets
  <2>2. \A tx : Contains(txs, tx) <=> tx \in ToSet(txs)
    BY <1>2 DEF Contains, ToSet
  <2> QED
    BY <2>1, <2>2 DEF OwnOf
<1>9. after \in Nat
  <2>1. Blocks[n][new] \in LedgerType
    BY DEF ReplayInv, Carried, BlocksOK
  <2> QED
    BY <1>1, <2>1, LedgerAssumption DEF LedgerType, Amount
<1>10. /\ PendingGold(n) = SpentBy(n, txs) + SumOver(Payments, left)
       /\ SpentBy(n, txs) \in Nat /\ SumOver(Payments, left) \in Nat
  <2>1. PendingGold(n) = SumOver(Payments, pending) /\ SpentBy(n, txs) = SumOver(Payments, own)
    BY DEF PendingGold, SpentBy
  <2> HIDE DEF pending, own
  <2> QED
    BY <1>6, <1>7, <1>8, <2>1, SumSplits
<1> HIDE DEF before, after, txs
<1> QED
  BY <1>5, <1>6, <1>9, <1>10 DEF after

\* A step that touches neither the wallet of n nor its confirmed balance.
LEMMA SameFunds ==
  ASSUME NEW n \in Node, FundsOK(n), WalletExact(n)',
         PendingOutgoingTransactions'[n] = PendingOutgoingTransactions[n],
         ConfirmedBalance(n)' = ConfirmedBalance(n)
  PROVE  FundsOK(n)'
  BY DEF FundsOK, PendingGold

LEMMA AcceptFunds ==
  ASSUME TreeInv, ReplayInv, IssuedInv, MinedInv, NoReplay,
         NEW k \in Node, NEW b \in DOMAIN block, AcceptBlock(k, b),
         NEW n \in Node, FundsOK(n), WalletExact(n)',
         block[LastConfirmedBlock[n]] \in Lineage(block[LastConfirmedBlock[n]])'
  PROVE  FundsOK(n)'
<1> DEFINE old  == LastConfirmedBlock[n]
           new  == LastConfirmedBlock'[n]
           left == PendingOutgoingTransactions'[n]
<1>1. /\ DOMAIN PendingOutgoingTransactions = Node
      /\ old \in DOMAIN Blocks[n] /\ block' = block
  BY ConfirmedKnown DEF ReplayInv, Carried, WalletsOK, AcceptBlock
<1>2. \A c \in DOMAIN Blocks[n] : Blocks'[n][c] = Blocks[n][c]
  BY AcceptKnown
<1>3. CASE n # k \/ ~ Longer(k, b)
  <2>1. LastConfirmedBlock'[n] = old
    BY <1>3, AcceptHead
  <2>2. PendingOutgoingTransactions'[n] = PendingOutgoingTransactions[n]
    BY <1>1, <1>3 DEF AcceptBlock, SetLastConfirmed
  <2>3. ConfirmedBalance(n)' = ConfirmedBalance(n)
    BY <1>1, <1>2, <2>1 DEF ConfirmedBalance
  <2> QED
    BY <2>2, <2>3, SameFunds
<1>4. CASE n = k /\ Longer(k, b)
  <2>1. block[old] \in Lineage(block[new])
    BY <1>1 DEF Lineage
  <2>2. new \in DOMAIN Blocks[n] /\ (new = old \/ (new # Genesis /\ block[new].prev = old))
    BY <1>4, <2>1, ConfirmedMoves
  <2>3. new = ConfirmedAncestor(b) /\ Blocks'[n][new] = Blocks[n][new]
    BY <1>2, <1>4, <2>2, AcceptHead
  <2>4. left = {tx \in PendingOutgoingTransactions[n] : ~ Contains(block[new].txs, tx)}
    BY <1>1, <1>4, <2>3 DEF AcceptBlock, SetLastConfirmed
  <2>5. SumOver(Payments, left) <= Blocks[n][new].balances[n] /\ Finite(left)
    <3>1. Finite(left)
      <4>1. left \in SUBSET PendingOutgoingTransactions[n]
        BY <2>4
      <4> QED
        BY <4>1, SubsetFinite DEF FundsOK
    <3>2. CASE new = old
      <4> DEFINE P    == PendingOutgoingTransactions[n]
                 rest == P \ left
      <4>1. /\ Finite(P) /\ \A tx \in P : Payments[tx] \in Nat
            /\ PendingGold(n) \in Nat /\ ConfirmedBalance(n) \in Nat
            /\ PendingGold(n) <= ConfirmedBalance(n)
        BY FundsAreGold DEF FundsOK
      <4>2. left \in SUBSET P
        BY <2>4
      <4> HIDE DEF left, P, new, old
      <4>3. /\ SumOver(Payments, left) \in Nat /\ SumOver(Payments, rest) \in Nat
            /\ SumOver(Payments, P) = SumOver(Payments, left) + SumOver(Payments, rest)
        BY <4>1, <4>2, SumSplits
      <4>4. /\ PendingGold(n) = SumOver(Payments, P)
            /\ ConfirmedBalance(n) = Blocks[n][new].balances[n]
        BY <3>2 DEF PendingGold, ConfirmedBalance, P, old
      <4> HIDE DEF rest
      <4>5. SumOver(Payments, left) <= ConfirmedBalance(n)
        BY <4>1, <4>3, <4>4
      <4> QED
        BY <3>1, <4>4, <4>5
    <3>3. CASE new # Genesis /\ block[new].prev = old
      <4> HIDE DEF left, new
      <4>1. SumOver(Payments, left) <= Blocks[n][new].balances[n]
        BY <2>2, <2>4, <3>3, ConfirmFunds
      <4> QED
        BY <3>1, <4>1
    <3> QED
      BY <2>2, <3>2, <3>3
  <2> QED
    BY <2>3, <2>5 DEF FundsOK, PendingGold, ConfirmedBalance
<1> QED
  BY <1>3, <1>4

\* PostTransaction spends what AvailableGold says is left.
LEMMA PostFunds ==
  ASSUME TreeInv, ReplayInv, IssuedInv, NEW k \in Node, NEW payment, Posts(k, payment),
         NEW n \in Node, FundsOK(n), WalletExact(n)'
  PROVE  FundsOK(n)'
<1> DEFINE tx  == NewTransaction(k, payment)
           P   == PendingOutgoingTransactions[n]
<1>1. /\ tx \in Posted /\ tx.nonce = Nonce[k] /\ Nonce[k] \in Nat
      /\ PendingOutgoingTransactions' =
           [PendingOutgoingTransactions EXCEPT ![k] = @ \cup {tx}]
      /\ DOMAIN PendingOutgoingTransactions = Node
  BY PostedWallets DEF ReplayInv, Carried, WalletsOK
<1>2. ConfirmedBalance(n)' = ConfirmedBalance(n)
  BY DEF Posts, PostTransaction, chainVars, ConfirmedBalance
<1>3. CASE n # k
  BY <1>1, <1>2, <1>3, SameFunds
<1>4. CASE n = k
  <2>1. tx \notin P
    <3>1. PICK S \in SUBSET Posted : Carried(S) /\ IssuedOnce(S)
      BY DEF IssuedInv
    <3>2. \A t \in P : t \in S /\ t.from = n
      BY <3>1 DEF Carried, WalletsOK, IssuedInv, OwnWallets
    <3>3. \A t \in P : t.nonce < Nonce[n]
      BY <3>1, <3>2 DEF IssuedOnce
    <3> QED
      BY <1>1, <1>4, <3>3
  <2>2. /\ Finite(P) /\ P \in SUBSET WellFormed /\ \A t \in P : Payments[t] \in Nat
        /\ PendingGold(n) \in Nat /\ ConfirmedBalance(n) \in Nat
        /\ AvailableGold(n) = ConfirmedBalance(n) - PendingGold(n)
    BY FundsAreGold DEF FundsOK
  <2>3. TotalOutput(tx) <= AvailableGold(n) /\ Payments[tx] = TotalOutput(tx)
        /\ Payments[tx] \in Nat
    <3>1. tx \in WellFormed
      BY <1>1, TransactionsAreWellFormed
    <3>2. TotalOutput(tx) \in Nat
      BY <3>1, TotalOutputIsAmount, LedgerAssumption DEF Amount
    <3> QED
      BY <1>4, <3>1, <3>2 DEF Posts, PostTransaction, Payments
  <2>4. PendingOutgoingTransactions'[n] = P \cup {tx}
    BY <1>1, <1>4
  <2> DEFINE all == P \cup {tx}
  <2> HIDE DEF tx, P
  <2>5. Finite(all) /\ (\A t \in all : Payments[t] \in Nat) /\ tx \in all /\ all \ {tx} = P
    BY <2>1, <2>2, <2>3, FiniteUnion
  <2> HIDE DEF all
  <2>6. SumOver(Payments, all) = Payments[tx] + SumOver(Payments, all \ {tx})
    BY <2>5, SumTakesEach
  <2>7. SumOver(Payments, all) = Payments[tx] + PendingGold(n)
    BY <2>5, <2>6 DEF PendingGold, P
  <2>8. SumOver(Payments, all) <= ConfirmedBalance(n)
    BY <2>2, <2>3, <2>7
  <2> QED
    BY <1>2, <2>4, <2>5, <2>8 DEF FundsOK, PendingGold, all
<1> QED
  BY <1>3, <1>4

\* Any step that leaves what n has confirmed on its confirmed chain.
LEMMA StepFunds ==
  ASSUME TreeInv, ReplayInv, IssuedInv, MinedInv, NoReplay, [Next]_vars,
         NEW n \in Node, FundsOK(n),
         block[LastConfirmedBlock[n]] \in Lineage(block[LastConfirmedBlock[n]])'
  PROVE  FundsOK(n)'
<1>1. WalletExact(n)
  BY DEF FundsOK
<1>2. CASE UNCHANGED <<Blocks, LastConfirmedBlock, walletVars>>
  <2>1. WalletExact(n)'
    BY <1>1, <1>2, SameWallet DEF walletVars, ConfirmedNext
  <2> QED
    BY <1>2, <2>1, SameFunds DEF walletVars, ConfirmedBalance
<1>3. ASSUME NEW k \in Node, NEW b \in DOMAIN block, AcceptBlock(k, b)
      PROVE  FundsOK(n)'
  BY <1>1, <1>3, AcceptExact, AcceptFunds
<1>4. ASSUME NEW k \in Node, NEW payment, Posts(k, payment)
      PROVE  FundsOK(n)'
  BY <1>1, <1>4, PostExact, PostFunds
<1> QED
  BY <1>2, <1>3, <1>4, OtherSteps

\* All that these lemmas ask for.
LEMMA FundsContext == Spec => [](TreeInv /\ ReplayInv /\ IssuedInv /\ MinedInv /\ NoReplay)
<1>1. Init => TreeInv /\ NetInv /\ IssuedInv
  BY InitTree, InitNet, InitIssued
<1>2. TreeInv /\ NetInv /\ IssuedInv /\ [Next]_vars => (TreeInv /\ NetInv /\ IssuedInv)'
  BY NextTree, NextNet, NextIssued
<1> QED
  BY <1>1, <1>2, TreeInvariant, ReplayInvariant, MinedInvariant, NothingIsReplayed, PTL
     DEF Spec

FiniteWallets == \A n \in Node : Finite(PendingOutgoingTransactions[n])

\* FundsOK is the condition of FundsStayCovered, with the sum taken over a set
\* that is finite.
FundsAreOK ==
  \A n \in Node : FundsOK(n) <=> WalletExact(n) /\ FundsCovered(n)

LEMMA WalletsAreFinite == Spec => []FiniteWallets
<1>1. Init => FiniteWallets
  BY FiniteUnion DEF Init, ClientInit, FiniteWallets
<1>2. ASSUME ReplayInv, FiniteWallets, [Next]_vars
      PROVE  FiniteWallets'
  <2> SUFFICES ASSUME NEW n \in Node PROVE Finite(PendingOutgoingTransactions'[n])
    BY DEF FiniteWallets
  <2>1. Finite(PendingOutgoingTransactions[n]) /\ DOMAIN PendingOutgoingTransactions = Node
    BY <1>2 DEF FiniteWallets, ReplayInv, Carried, WalletsOK
  <2>2. CASE UNCHANGED <<Blocks, LastConfirmedBlock, walletVars>>
    BY <2>1, <2>2 DEF walletVars
  <2>3. ASSUME NEW k \in Node, NEW b \in DOMAIN block, AcceptBlock(k, b)
        PROVE  Finite(PendingOutgoingTransactions'[n])
    <3>1. PendingOutgoingTransactions'[n] \in SUBSET PendingOutgoingTransactions[n]
      BY <2>1, <2>3 DEF AcceptBlock, SetLastConfirmed
    <3> QED
      BY <2>1, <3>1, SubsetFinite
  <2>4. ASSUME NEW k \in Node, NEW payment, Posts(k, payment)
        PROVE  Finite(PendingOutgoingTransactions'[n])
    <3> DEFINE tx == NewTransaction(k, payment)
    <3>1. \/ PendingOutgoingTransactions'[n] = PendingOutgoingTransactions[n]
          \/ PendingOutgoingTransactions'[n] = PendingOutgoingTransactions[n] \cup {tx}
      BY <2>1, <2>4 DEF Posts, PostTransaction
    <3> HIDE DEF tx
    <3> QED
      BY <2>1, <3>1, FiniteUnion
  <2> QED
    BY <1>2, <2>2, <2>3, <2>4, OtherSteps
<1>3. FiniteWallets /\ UNCHANGED vars => FiniteWallets'
  BY DEF FiniteWallets, vars, walletVars
<1> QED
  BY <1>1, <1>2, <1>3, ReplayInvariant, PTL DEF Spec

LEMMA FundsAreSummed ==
  ASSUME TreeInv, ReplayInv, FiniteWallets
  PROVE  FundsAreOK
<1> SUFFICES ASSUME NEW n \in Node
             PROVE  FundsOK(n) <=> WalletExact(n) /\ FundsCovered(n)
  BY DEF FundsAreOK
<1>1. /\ Finite(PendingOutgoingTransactions[n])
      /\ PendingOutgoingTransactions[n] \in SUBSET WellFormed
  BY FundsAreGold DEF FiniteWallets
<1>2. MapThenSumSet(TotalOutput, PendingOutgoingTransactions[n]) = PendingGold(n)
  BY <1>1, PaymentsAreSummed DEF PendingGold
<1> QED
  BY <1>1, <1>2 DEF FundsOK, FundsCovered

\* What a wallet has promised stays covered in every step that does not leave
\* its confirmed chain.
THEOREM WalletsStayCovered == Spec => FundsStayCovered
<1> DEFINE Inv      == TreeInv /\ ReplayInv /\ IssuedInv /\ MinedInv /\ NoReplay
           Stays(n) ==
             WalletExact(n) /\ FundsCovered(n)
               /\ block[LastConfirmedBlock[n]] \in Lineage(block[LastConfirmedBlock[n]])'
             => FundsCovered(n)'
<1>1. ASSUME Inv, FundsAreOK, FundsAreOK', [Next]_vars, NEW n \in Node
      PROVE  Stays(n)
  <2> SUFFICES ASSUME WalletExact(n), FundsCovered(n),
                      block[LastConfirmedBlock[n]]
                        \in Lineage(block[LastConfirmedBlock[n]])'
               PROVE  FundsCovered(n)'
    OBVIOUS
  <2>1. FundsOK(n)
    BY <1>1 DEF FundsAreOK
  <2>2. FundsOK(n)'
    BY <1>1, <2>1, StepFunds
  <2>3. FundsOK(n)' <=> WalletExact(n)' /\ FundsCovered(n)'
    BY <1>1 DEF FundsAreOK
  <2> QED
    BY <2>2, <2>3
<1>2. Inv /\ FundsAreOK /\ FundsAreOK' /\ [Next]_vars => [\A n \in Node : Stays(n)]_vars
  BY <1>1
<1>3. Inv /\ FiniteWallets => FundsAreOK
  BY FundsAreSummed
<1>4. Spec => []Inv /\ []FiniteWallets
  BY FundsContext, WalletsAreFinite, PTL
<1> HIDE DEF Inv
<1> QED
  BY <1>2, <1>3, <1>4, PTL DEF Spec, FundsStayCovered

\* AvailableGold, an unsigned subtraction, never goes below zero, and each
\* wallet holds exactly what its confirmed chain does not have, in all
\* behaviours in which no node leaves a block it has confirmed.
THEOREM GoldIsPromisedOnce ==
  Spec /\ ConfirmedIsFinal => [](AvailableGoldCovered /\ \A n \in Node : WalletExact(n))
<1> DEFINE FundsInv == \A n \in Node : FundsOK(n)
           Final    == \A n \in Node :
                         block[LastConfirmedBlock[n]] \in Lineage(block[LastConfirmedBlock[n]])'
           Inv      == TreeInv /\ ReplayInv /\ IssuedInv /\ MinedInv /\ NoReplay
<1>1. Init /\ TreeInv /\ ReplayInv => FundsInv
  <2> SUFFICES ASSUME Init, TreeInv, ReplayInv, NEW n \in Node PROVE FundsOK(n)
    OBVIOUS
  <2>1. /\ PendingOutgoingTransactions[n] = {} /\ Nonce[n] = 0
        /\ LastConfirmedBlock[n] = Genesis /\ Blocks[n][Genesis] = GenesisLedger
        /\ n \in Address
    BY ClientAssumption DEF Init, ClientInit
  <2>2. WalletExact(n)
    BY <2>1 DEF WalletExact, GenesisLedger
  <2>3. Finite({}) /\ SumOver(Payments, {}) = 0
    BY FiniteUnion, SumTakesAny
  <2>4. ConfirmedBalance(n) \in Nat
    BY <2>1, <2>3, FundsAreGold
  <2> QED
    BY <2>1, <2>2, <2>3, <2>4 DEF FundsOK, PendingGold
<1>2. ASSUME Inv, FundsInv, [Next]_vars, Final
      PROVE  FundsInv'
  BY <1>2, StepFunds
<1>3. Inv /\ FundsInv /\ UNCHANGED vars => FundsInv'
  <2> SUFFICES ASSUME FundsInv, UNCHANGED vars, NEW n \in Node PROVE FundsOK(n)'
    OBVIOUS
  <2>1. FundsOK(n) /\ WalletExact(n)
    BY DEF FundsOK
  <2>2. WalletExact(n)'
    BY <2>1 DEF vars, chainVars, walletVars, WalletExact
  <2> QED
    BY <2>1, <2>2, SameFunds DEF vars, chainVars, walletVars, ConfirmedBalance
<1>4. Inv /\ FundsInv => AvailableGoldCovered /\ \A n \in Node : WalletExact(n)
  <2> SUFFICES ASSUME Inv, NEW n \in Node, FundsOK(n)
               PROVE  AvailableGold(n) <= ConfirmedBalance(n) /\ WalletExact(n)
    BY DEF AvailableGoldCovered
  <2>1. /\ PendingGold(n) \in Nat /\ ConfirmedBalance(n) \in Nat
        /\ AvailableGold(n) = ConfirmedBalance(n) - PendingGold(n)
    BY FundsAreGold DEF FundsOK
  <2> QED
    BY <2>1 DEF FundsOK
<1>5. Spec => []Inv
  BY FundsContext
<1> HIDE DEF FundsInv, Inv
<1> QED
  BY <1>1, <1>2, <1>3, <1>4, <1>5, PTL DEF Spec, ConfirmedIsFinal, Inv
=============================================================================
