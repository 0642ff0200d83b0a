-------------------------- MODULE TcpNetworkProofs ---------------------------
(***************************************************************************)
(* Proofs about TcpNetwork: the chains and the transactions of processes   *)
(* that end, start again and lose messages.                                *)
(*                                                                         *)
(* ForestInv is TreeInv of SpartanGoldProofs for many roots.  Every        *)
(* process adds a root, and what a node knows is closed under              *)
(* PrevBlockHash but may hold any of the roots, as it gets the chains of   *)
(* others from their genesis blocks upwards.  Nothing is assumed of whom a *)
(* broadcast reaches, nor of what waits in calls: the chains stay right    *)
(* whatever is lost.                                                       *)
(*                                                                         *)
(* SentInv follows the transactions through calls, pools, searches and     *)
(* blocks.  The set of what may be there grows: a payment enters it when   *)
(* the wallet counts its nonce, and the payments of a restarted process    *)
(* are all in it, for its wallet counts from 0 again.                      *)
(*                                                                         *)
(* HonestInv gives every block of the forest one ledger, whether or not a  *)
(* process is left that has it.  MergeInv is about processes that all run  *)
(* since the start and knew each other then, where nothing gets lost.      *)
(*                                                                         *)
(* IssuedInv tells the payments of a key's first process apart by their    *)
(* nonces.  With it FundsInv follows a wallet from CheckFunds through      *)
(* PostTransaction to the block that confirms the payment.                 *)
(***************************************************************************)
EXTENDS TcpNetwork, TLAPS

\* The variables ForestInv is about.
forestVars == <<block, Blocks, LastBlock, LastConfirmedBlock, CurrentBlock, clock>>

Domains ==
  /\ DOMAIN Blocks = Node
  /\ DOMAIN LastBlock = Node
  /\ DOMAIN LastConfirmedBlock = Node
  /\ DOMAIN CurrentBlock = Node
  /\ clock \in [Node -> Nat]

\* A block is a genesis block or a child.
ForestOK ==
  /\ DOMAIN block \subseteq Node \X Nat
  /\ \A b \in DOMAIN block :
       /\ block[b].id = b /\ block[b].len \in Nat
       /\ H!IsGenesisBlock(b) => block[b] = H!GenesisHeader(b)
       /\ ~ H!IsGenesisBlock(b) =>
            LET p == block[b].prev
            IN  /\ p \in DOMAIN block
                /\ block[b].len = block[p].len + 1
                /\ block[b].chain = H!Chain(block[p])

\* Across restarts as well.
IdsAreUsedOnce ==
  \A n \in Node : \A k \in Nat : <<n, k>> \in DOMAIN block => k < clock[n]

\* The ancestor at height h has length h.
HeightsOK ==
  \A b \in DOMAIN block : \A h \in 0 .. block[b].len - 1 :
    /\ block[b].chain[h] \in DOMAIN block
    /\ block[block[b].chain[h]].len = h

\* What a node knows.
KnownOK(n) ==
  /\ DOMAIN Blocks[n] \subseteq DOMAIN block
  /\ \A b \in DOMAIN Blocks[n] :
       LET p == block[b].prev
       IN  /\ H!IsGenesisBlock(b) => Blocks[n][b] = H!GenesisLedger
           /\ ~ H!IsGenesisBlock(b) =>
                /\ p \in DOMAIN Blocks[n]
                /\ Blocks[n][b] = H!LedgerAfter(block[p], Blocks[n][p], block[b].txs)

AncestorsKnown(n) ==
  \A b \in DOMAIN Blocks[n] : \A h \in 0 .. block[b].len - 1 :
    block[b].chain[h] \in DOMAIN Blocks[n]

\* The confirmed block of a genesis block is the genesis block.
HeadOK(n) ==
  /\ LastBlock[n] \in DOMAIN Blocks[n]
  /\ \A b \in DOMAIN Blocks[n] : block[b].len <= block[LastBlock[n]].len
  /\ LastConfirmedBlock[n] =
       IF H!IsGenesisBlock(LastBlock[n]) THEN LastBlock[n]
       ELSE H!ConfirmedAncestor(LastBlock[n])

\* A header on top of parent, and the block n works on, which is one.
Extends(n, header, parent) ==
  header = [id |-> header.id, prev |-> parent.id, len |-> parent.len + 1,
            rewardAddr |-> n, txs |-> header.txs, chain |-> H!Chain(parent)]

SearchOK(n) ==
  \/ CurrentBlock[n] = NoBlock
  \/ Extends(n, CurrentBlock[n], block[LastBlock[n]])

ForestInv ==
  /\ Domains
  /\ ForestOK
  /\ IdsAreUsedOnce
  /\ HeightsOK
  /\ \A n \in Node : KnownOK(n) /\ AncestorsKnown(n) /\ HeadOK(n) /\ SearchOK(n)
  /\ LedgerAgreement

-----------------------------------------------------------------------------
(* ForestInv holds initially and is kept by the steps that change chains.  *)

LEMMA InitForest == Init => ForestInv
<1> SUFFICES ASSUME Init PROVE ForestInv
  OBVIOUS
<1> USE DEF Init, OwnGenesis
<1>1. /\ DOMAIN block = {<<n, 0>> : n \in Node}
      /\ \A b \in DOMAIN block : block[b] = H!GenesisHeader(b)
      /\ \A n \in Node : /\ DOMAIN Blocks[n] = {<<n, 0>>}
                         /\ Blocks[n][<<n, 0>>] = H!GenesisLedger
                         /\ LastBlock[n] = <<n, 0>>
                         /\ LastConfirmedBlock[n] = <<n, 0>>
                         /\ clock[n] = 1
  OBVIOUS
<1>2. \A b \in DOMAIN block : block[b].id = b /\ block[b].len = 0 /\ H!IsGenesisBlock(b)
  BY <1>1 DEF H!GenesisHeader, H!IsGenesisBlock
<1>3. Domains
  BY DEF Domains
<1>4. ForestOK /\ HeightsOK
  <2>1. DOMAIN block \subseteq Node \X Nat
    BY ONLY <1>1
  <2> QED
    BY ONLY <1>1, <1>2, <2>1 DEF ForestOK, HeightsOK
<1>5. IdsAreUsedOnce
  <2> SUFFICES ASSUME NEW n \in Node, NEW k \in Nat, <<n, k>> \in DOMAIN block
               PROVE  k < clock[n]
    BY DEF IdsAreUsedOnce
  <2>1. PICK m \in Node : <<n, k>> = <<m, 0>>
    BY ONLY <1>1, <<n, k>> \in DOMAIN block
  <2>2. k = 0
    BY ONLY <2>1
  <2>3. clock[n] = 1
    BY ONLY <1>1, n \in Node
  <2> QED
    BY ONLY <2>2, <2>3
<1>6. ASSUME NEW n \in Node
      PROVE  KnownOK(n) /\ AncestorsKnown(n) /\ HeadOK(n)
  <2>1. /\ <<n, 0>> \in DOMAIN block
        /\ DOMAIN Blocks[n] = {<<n, 0>>} /\ Blocks[n][<<n, 0>>] = H!GenesisLedger
        /\ LastBlock[n] = <<n, 0>> /\ LastConfirmedBlock[n] = <<n, 0>>
        /\ block[<<n, 0>>].len = 0 /\ H!IsGenesisBlock(<<n, 0>>)
    BY ONLY <1>1, <1>2, <1>6
  <2>2. KnownOK(n)
    BY ONLY <2>1 DEF KnownOK
  <2>3. AncestorsKnown(n)
    BY ONLY <2>1 DEF AncestorsKnown
  <2>4. HeadOK(n)
    BY ONLY <2>1 DEF HeadOK
  <2> QED
    BY <2>2, <2>3, <2>4
<1>7. ASSUME NEW n \in Node
      PROVE  SearchOK(n)
  BY DEF SearchOK, Extends, H!NewBlock
<1>8. LedgerAgreement
  BY <1>1 DEF LedgerAgreement, H!LedgerAgreement
<1> QED
  BY <1>3, <1>4, <1>5, <1>6, <1>7, <1>8 DEF ForestInv

\* Steps that leave the chains alone.
LEMMA SameForest ==
  ASSUME ForestInv, UNCHANGED forestVars
  PROVE  ForestInv'
<1> USE DEF forestVars, H!IsGenesisBlock
<1>1. /\ Domains' /\ ForestOK' /\ IdsAreUsedOnce' /\ HeightsOK' /\ LedgerAgreement'
  <2>1. ForestOK'
    BY DEF ForestInv, ForestOK, H!Chain, H!GenesisHeader
  <2> QED
    BY <2>1 DEF ForestInv, Domains, IdsAreUsedOnce, HeightsOK, LedgerAgreement,
                H!LedgerAgreement
<1>2. ASSUME NEW n \in Node
      PROVE  KnownOK(n)' /\ AncestorsKnown(n)' /\ HeadOK(n)'
  BY <1>2 DEF ForestInv, KnownOK, AncestorsKnown, HeadOK, H!ConfirmedAncestor
<1>3. ASSUME NEW n \in Node
      PROVE  SearchOK(n)'
  BY <1>3 DEF ForestInv, SearchOK, Extends
<1> QED
  BY <1>1, <1>2, <1>3 DEF ForestInv

\* What a new search leaves in CurrentBlock.
LEMMA NewSearch ==
  ASSUME NEW n \in Node, NEW head, NEW ledger, NEW pool, DOMAIN CurrentBlock = Node,
         H!StartNewSearch(n, head, ledger, pool)
  PROVE  /\ DOMAIN CurrentBlock' = Node
         /\ Extends(n, CurrentBlock'[n], block[head])
         /\ \A k \in Node \ {n} : CurrentBlock'[k] = CurrentBlock[k]
<1> PICK order :
      CurrentBlock' = [CurrentBlock EXCEPT ![n] =
        H!NewBlock(n, block[head], H!FillBlock(ledger, order).txs)]
  BY DEF H!StartNewSearch
<1> QED
  BY DEF H!NewBlock, Extends

\* A block with an unused id, at the end of a known chain or a root, leaves
\* what is known of the others as it was.
LEMMA GrowForest ==
  ASSUME ForestInv, NEW n \in Node, NEW header,
         LET new == <<n, clock[n]>>
             p   == header.prev
         IN  /\ header.id = new
             /\ \/ header = H!GenesisHeader(new)
                \/ /\ p \in DOMAIN block
                   /\ header.len = block[p].len + 1
                   /\ header.chain = H!Chain(block[p])
             /\ block' = H!With(block, new, header)
             /\ clock' = [clock EXCEPT ![n] = @ + 1]
  PROVE  LET new == <<n, clock[n]>>
         IN  /\ new \notin DOMAIN block
             /\ DOMAIN block' = DOMAIN block \cup {new}
             /\ block'[new] = header
             /\ \A b \in DOMAIN block : block'[b] = block[b]
             /\ clock' \in [Node -> Nat]
             /\ ForestOK' /\ IdsAreUsedOnce' /\ HeightsOK'
<1> DEFINE new == <<n, clock[n]>>
           p   == header.prev
<1>1. /\ new \in Node \X Nat /\ new \notin DOMAIN block
      /\ clock' \in [Node -> Nat]
  BY DEF ForestInv, Domains, ForestOK, IdsAreUsedOnce
<1>2. /\ DOMAIN block' = DOMAIN block \cup {new}
      /\ block'[new] = header
      /\ \A b \in DOMAIN block : block'[b] = block[b]
  BY <1>1 DEF H!With
<1>3. \A b \in DOMAIN block : /\ H!IsGenesisBlock(b)' <=> H!IsGenesisBlock(b)
                              /\ ~ H!IsGenesisBlock(b) => block[b].prev \in DOMAIN block
  BY <1>2 DEF ForestInv, ForestOK, H!IsGenesisBlock
<1>4. CASE header = H!GenesisHeader(new)
  <2>1. header.id = new /\ header.len = 0
    BY <1>4 DEF H!GenesisHeader
  <2>2. ForestOK'
    BY <1>1, <1>2, <1>3, <1>4, <2>1 DEF ForestInv, ForestOK, H!IsGenesisBlock
  <2>3. HeightsOK'
    BY <1>2, <2>1 DEF ForestInv, HeightsOK
  <2> QED
    BY <1>1, <1>2, <2>2, <2>3 DEF ForestInv, Domains, IdsAreUsedOnce
<1>5. CASE /\ p \in DOMAIN block
           /\ header.len = block[p].len + 1
           /\ header.chain = H!Chain(block[p])
  <2>1. /\ block[p].id = p /\ block[p].len \in Nat
        /\ header.id = new /\ header.len \in Nat \ {0}
    BY <1>5 DEF ForestInv, ForestOK
  <2>2. ForestOK'
    <3>1. block'[new].len # 0 /\ block'[p] = block[p]
      BY <1>2, <1>5, <2>1
    <3> QED
      BY <1>1, <1>2, <1>3, <1>5, <2>1, <3>1 DEF ForestInv, ForestOK, H!IsGenesisBlock
  <2>3. HeightsOK'
    <3> SUFFICES ASSUME NEW b \in DOMAIN block', NEW h \in 0 .. block'[b].len - 1
                 PROVE  /\ block'[b].chain[h] \in DOMAIN block'
                        /\ block'[block'[b].chain[h]].len = h
      BY DEF HeightsOK
    <3>1. CASE b \in DOMAIN block
      BY <1>2, <3>1 DEF ForestInv, HeightsOK
    <3>2. CASE b = new
      <4>1. /\ h \in 0 .. block[p].len
            /\ block'[b].chain[h] = IF h = block[p].len THEN p ELSE block[p].chain[h]
        BY <1>2, <1>5, <2>1, <3>2 DEF H!Chain
      <4>2. CASE h = block[p].len
        BY <1>2, <1>5, <4>1, <4>2
      <4>3. CASE h # block[p].len
        <5>1. h \in 0 .. block[p].len - 1
          BY <2>1, <4>1, <4>3
        <5> QED
          BY <1>2, <1>5, <4>1, <4>3, <5>1 DEF ForestInv, HeightsOK
      <4> QED
        BY <4>2, <4>3
    <3> QED
      BY <1>2, <3>1, <3>2
  <2> QED
    BY <1>1, <1>2, <2>2, <2>3 DEF ForestInv, Domains, IdsAreUsedOnce
<1> QED
  BY <1>4, <1>5

\* What a node knows is not disturbed by a new block.
LEMMA GrownKnown ==
  ASSUME ForestInv, NEW n \in Node,
         DOMAIN block \subseteq DOMAIN block',
         \A b \in DOMAIN block : block'[b] = block[b],
         Blocks'[n] = Blocks[n], LastBlock'[n] = LastBlock[n],
         LastConfirmedBlock'[n] = LastConfirmedBlock[n]
  PROVE  /\ KnownOK(n)' /\ AncestorsKnown(n)' /\ HeadOK(n)'
         /\ block'[LastBlock'[n]] = block[LastBlock[n]]
<1>1. /\ DOMAIN Blocks[n] \subseteq DOMAIN block /\ LastBlock[n] \in DOMAIN block
      /\ \A b \in DOMAIN Blocks[n] : block'[b] = block[b]
      /\ block'[LastBlock[n]] = block[LastBlock[n]]
  BY DEF ForestInv, KnownOK, HeadOK
<1>2. \A b \in DOMAIN Blocks[n] : H!IsGenesisBlock(b)' <=> H!IsGenesisBlock(b)
  BY <1>1 DEF H!IsGenesisBlock
<1>3. KnownOK(n)'
  <2>1. \A b \in DOMAIN Blocks[n] : ~ H!IsGenesisBlock(b) =>
          /\ block[b].prev \in DOMAIN Blocks[n]
          /\ block'[block[b].prev] = block[block[b].prev]
    BY <1>1 DEF ForestInv, KnownOK
  <2> QED
    BY <1>1, <1>2, <2>1 DEF ForestInv, KnownOK
<1>4. AncestorsKnown(n)'
  BY <1>1 DEF ForestInv, AncestorsKnown
<1>5. HeadOK(n)'
  BY <1>1, <1>2 DEF ForestInv, HeadOK, H!ConfirmedAncestor
<1> QED
  BY <1>1, <1>3, <1>4, <1>5

\* A proof adds a child of the miner's head.
LEMMA FindProofForest ==
  ASSUME ForestInv, NEW n \in Node, NEW receivers, H!FindProof(n, receivers)
  PROVE  ForestInv'
<1> DEFINE new  == <<n, clock[n]>>
           head == LastBlock[n]
           cur  == CurrentBlock[n]
           found == [cur EXCEPT !.id = new]
<1> USE DEF H!FindProof, H!chainVars
<1>1. /\ head \in DOMAIN block /\ block[head].id = head
      /\ cur = [id |-> cur.id, prev |-> head, len |-> block[head].len + 1,
                rewardAddr |-> n, txs |-> cur.txs, chain |-> H!Chain(block[head])]
  BY DEF ForestInv, ForestOK, KnownOK, HeadOK, SearchOK, H!Initialized, Extends
<1>2. /\ found.id = new /\ found.prev = head
      /\ found.len = block[head].len + 1 /\ found.chain = H!Chain(block[head])
      /\ Extends(n, found, block[head])
  BY <1>1 DEF Extends
<1>3. /\ DOMAIN block' = DOMAIN block \cup {new}
      /\ \A b \in DOMAIN block : block'[b] = block[b]
      /\ clock' \in [Node -> Nat]
      /\ ForestOK' /\ IdsAreUsedOnce' /\ HeightsOK'
  <2> HIDE DEF found
  <2>1. /\ block' = H!With(block, new, found)
        /\ clock' = [clock EXCEPT ![n] = @ + 1]
    BY DEF found
  <2> QED
    BY <1>1, <1>2, <2>1, GrowForest
<1>4. Domains'
  BY <1>3 DEF ForestInv, Domains
<1>5. ASSUME NEW k \in Node
      PROVE  /\ KnownOK(k)' /\ AncestorsKnown(k)' /\ HeadOK(k)'
             /\ block'[LastBlock'[k]] = block[LastBlock[k]]
  BY <1>3, GrownKnown
<1>6. ASSUME NEW k \in Node
      PROVE  SearchOK(k)'
  <2>1. CASE k = n
    <3>1. CurrentBlock'[n] = found
      BY DEF ForestInv, Domains
    <3> HIDE DEF found
    <3> QED
      BY <1>2, <1>5, <2>1, <3>1 DEF SearchOK, Extends
  <2>2. CASE k # n
    <3>1. CurrentBlock'[k] = CurrentBlock[k]
      BY <2>2 DEF ForestInv, Domains
    <3> QED
      BY <1>5, <3>1 DEF ForestInv, SearchOK, Extends
  <2> QED
    BY <2>1, <2>2
<1>7. LedgerAgreement'
  BY DEF ForestInv, LedgerAgreement, H!LedgerAgreement
<1> QED
  BY <1>3, <1>4, <1>5, <1>6, <1>7 DEF ForestInv

\* A new process knows its own root and nothing else.
LEMMA StartForest ==
  ASSUME ForestInv, NEW n \in Node, StartProcess(n)
  PROVE  ForestInv'
<1> DEFINE new    == <<n, clock[n]>>
           header == H!GenesisHeader(new)
<1> USE DEF StartProcess, StartChain, OwnGenesis
<1>1. header.id = new /\ header.len = 0
  BY DEF H!GenesisHeader
<1>2. /\ DOMAIN block' = DOMAIN block \cup {new}
      /\ block'[new] = header
      /\ \A b \in DOMAIN block : block'[b] = block[b]
      /\ clock' \in [Node -> Nat]
      /\ ForestOK' /\ IdsAreUsedOnce' /\ HeightsOK'
      /\ new \notin DOMAIN block
  BY <1>1, GrowForest
<1>3. /\ DOMAIN Blocks' = Node /\ DOMAIN LastBlock' = Node
      /\ DOMAIN LastConfirmedBlock' = Node /\ DOMAIN CurrentBlock' = Node
      /\ DOMAIN Blocks'[n] = {new} /\ Blocks'[n][new] = H!GenesisLedger
      /\ LastBlock'[n] = new /\ LastConfirmedBlock'[n] = new
      /\ CurrentBlock'[n] = H!NewBlock(n, header, <<>>)
      /\ \A k \in Node \ {n} :
           /\ Blocks'[k] = Blocks[k] /\ LastBlock'[k] = LastBlock[k]
           /\ LastConfirmedBlock'[k] = LastConfirmedBlock[k]
           /\ CurrentBlock'[k] = CurrentBlock[k]
  BY DEF ForestInv, Domains
<1>4. ASSUME NEW k \in Node
      PROVE  KnownOK(k)' /\ AncestorsKnown(k)' /\ HeadOK(k)' /\ SearchOK(k)'
  <2>1. CASE k = n
    <3>1. block'[new].len = 0
      BY <1>1, <1>2
    <3>2. KnownOK(n)' /\ AncestorsKnown(n)' /\ HeadOK(n)'
      <4>1. PICK g : g = new
        OBVIOUS
      <4>2. /\ DOMAIN Blocks'[n] = {g} /\ Blocks'[n][g] = H!GenesisLedger
            /\ LastBlock'[n] = g /\ LastConfirmedBlock'[n] = g
            /\ g \in DOMAIN block' /\ block'[g].len = 0
        BY <1>2, <1>3, <3>1, <4>1
      <4>3. KnownOK(n)'
        BY ONLY <4>2 DEF KnownOK, H!IsGenesisBlock
      <4>4. AncestorsKnown(n)'
        BY ONLY <4>2 DEF AncestorsKnown
      <4>5. HeadOK(n)'
        BY ONLY <4>2 DEF HeadOK, H!IsGenesisBlock
      <4> QED
        BY <4>3, <4>4, <4>5
    <3>3. SearchOK(n)'
      BY <1>2, <1>3 DEF SearchOK, Extends, H!NewBlock
    <3> QED
      BY <2>1, <3>2, <3>3
  <2>2. CASE k # n
    <3>1. /\ KnownOK(k)' /\ AncestorsKnown(k)' /\ HeadOK(k)'
          /\ block'[LastBlock'[k]] = block[LastBlock[k]]
      BY <1>2, <1>3, <2>2, GrownKnown
    <3>2. SearchOK(k)'
      BY <1>3, <2>2, <3>1 DEF ForestInv, SearchOK, Extends
    <3> QED
      BY <3>1, <3>2
  <2> QED
    BY <2>1, <2>2
<1>5. LedgerAgreement'
  <2> SUFFICES ASSUME NEW j \in Node, NEW k \in Node,
                      NEW b \in DOMAIN Blocks'[j] \cap DOMAIN Blocks'[k]
               PROVE  Blocks'[j][b] = Blocks'[k][b]
    BY DEF LedgerAgreement, H!LedgerAgreement
  <2>1. CASE j # n /\ k # n
    BY <1>3, <2>1 DEF ForestInv, LedgerAgreement, H!LedgerAgreement
  <2>2. CASE j = n \/ k = n
    <3>1. \A i \in Node \ {n} : new \notin DOMAIN Blocks'[i]
      BY <1>2, <1>3 DEF ForestInv, KnownOK
    <3> QED
      BY <1>3, <2>2, <3>1
  <2> QED
    BY <2>1, <2>2
<1> QED
  BY <1>2, <1>3, <1>4, <1>5 DEF ForestInv, Domains

\* A node accepts a block that is a root or has a known parent.
LEMMA AcceptKnown ==
  ASSUME ForestInv, NEW n \in Node, NEW b \in DOMAIN block, H!AcceptBlock(n, b)
  PROVE  LET p == block[b].prev
         IN  /\ b \notin DOMAIN Blocks[n]
             /\ block' = block
             /\ DOMAIN Blocks' = Node
             /\ DOMAIN Blocks'[n] = DOMAIN Blocks[n] \cup {b}
             /\ \A c \in DOMAIN Blocks[n] : Blocks'[n][c] = Blocks[n][c]
             /\ H!IsGenesisBlock(b) => Blocks'[n][b] = H!GenesisLedger
             /\ ~ H!IsGenesisBlock(b) =>
                  /\ p \in DOMAIN Blocks[n]
                  /\ Blocks'[n][b] = H!LedgerAfter(block[p], Blocks[n][p], block[b].txs)
             /\ \A k \in Node \ {n} : Blocks'[k] = Blocks[k]
<1>1. b \notin DOMAIN Blocks[n]
  BY DEF H!AcceptBlock, H!Refused
<1>2. ~ H!IsGenesisBlock(b) => block[b].prev \in DOMAIN Blocks[n]
  BY DEF H!AcceptBlock, H!ParentKnown
<1> QED
  BY <1>1, <1>2 DEF ForestInv, Domains, H!AcceptBlock, H!With, H!AcceptedLedger

LEMMA AcceptHead ==
  ASSUME ForestInv, NEW n \in Node, NEW b \in DOMAIN block, H!AcceptBlock(n, b)
  PROVE  /\ DOMAIN LastBlock' = Node /\ DOMAIN LastConfirmedBlock' = Node
         /\ \A k \in Node \ {n} : LastBlock'[k] = LastBlock[k]
                               /\ LastConfirmedBlock'[k] = LastConfirmedBlock[k]
         /\ H!Longer(n, b) => /\ LastBlock'[n] = b
                              /\ LastConfirmedBlock'[n] = H!ConfirmedAncestor(b)
         /\ ~ H!Longer(n, b) => /\ LastBlock'[n] = LastBlock[n]
                                /\ LastConfirmedBlock'[n] = LastConfirmedBlock[n]
  BY DEF ForestInv, Domains, H!AcceptBlock, H!SetLastConfirmed

\* The part of ReceiveBlock that accepts b at n, with its cutover.
LEMMA AcceptForest ==
  ASSUME ForestInv, NEW n \in Node, NEW b \in DOMAIN block,
         H!AcceptBlock(n, b), UNCHANGED clock, H!CutOver(n, b)
  PROVE  ForestInv'
<1> DEFINE p == block[b].prev
<1>1. /\ b \notin DOMAIN Blocks[n]
      /\ block' = block
      /\ DOMAIN Blocks' = Node
      /\ DOMAIN Blocks'[n] = DOMAIN Blocks[n] \cup {b}
      /\ \A c \in DOMAIN Blocks[n] : Blocks'[n][c] = Blocks[n][c]
      /\ H!IsGenesisBlock(b) => Blocks'[n][b] = H!GenesisLedger
      /\ ~ H!IsGenesisBlock(b) =>
           /\ p \in DOMAIN Blocks[n]
           /\ Blocks'[n][b] = H!LedgerAfter(block[p], Blocks[n][p], block[b].txs)
      /\ \A k \in Node \ {n} : Blocks'[k] = Blocks[k]
  BY AcceptKnown
<1>2. /\ block[b].len \in Nat
      /\ H!IsGenesisBlock(b) <=> block[b].len = 0
      /\ ~ H!IsGenesisBlock(b) =>
           /\ p \in DOMAIN block /\ block[p].len \in Nat
           /\ block[b].len = block[p].len + 1
           /\ block[b].chain = H!Chain(block[p]) /\ block[p].id = p
      /\ LastBlock[n] \in DOMAIN block /\ block[LastBlock[n]].len \in Nat
  BY DEF ForestInv, ForestOK, KnownOK, HeadOK, H!IsGenesisBlock
<1>3. ForestOK' /\ IdsAreUsedOnce' /\ HeightsOK'
  <2>1. \A c \in DOMAIN block : H!IsGenesisBlock(c)' <=> H!IsGenesisBlock(c)
    BY <1>1 DEF H!IsGenesisBlock
  <2> QED
    BY <1>1, <2>1 DEF ForestInv, ForestOK, IdsAreUsedOnce, HeightsOK
<1>4. ASSUME NEW k \in Node
      PROVE  KnownOK(k)'
  <2>1. \A c \in DOMAIN block : H!IsGenesisBlock(c)' <=> H!IsGenesisBlock(c)
    BY <1>1 DEF H!IsGenesisBlock
  <2>2. DOMAIN Blocks[k] \subseteq DOMAIN block
    BY DEF ForestInv, KnownOK
  <2>3. CASE k = n
    BY <1>1, <2>1, <2>2, <2>3 DEF ForestInv, KnownOK
  <2>4. CASE k # n
    BY <1>1, <2>1, <2>2, <2>4 DEF ForestInv, KnownOK
  <2> QED
    BY <2>3, <2>4
<1>5. ASSUME NEW k \in Node
      PROVE  AncestorsKnown(k)'
  <2>1. CASE k = n
    <3> SUFFICES ASSUME NEW c \in DOMAIN Blocks'[n], NEW h \in 0 .. block[c].len - 1
                 PROVE  block[c].chain[h] \in DOMAIN Blocks'[n]
      BY <1>1, <2>1 DEF AncestorsKnown
    <3>1. CASE c # b
      BY <1>1, <3>1 DEF ForestInv, AncestorsKnown
    <3>2. CASE c = b
      <4>1. /\ ~ H!IsGenesisBlock(b)
            /\ h \in 0 .. block[p].len
            /\ block[c].chain[h] = IF h = block[p].len THEN p ELSE block[p].chain[h]
        BY <1>2, <3>2 DEF H!Chain
      <4> QED
        BY <1>1, <1>2, <4>1 DEF ForestInv, AncestorsKnown
    <3> QED
      BY <3>1, <3>2
  <2>2. CASE k # n
    BY <1>1, <2>2 DEF ForestInv, AncestorsKnown
  <2> QED
    BY <2>1, <2>2
<1>6. ASSUME NEW k \in Node
      PROVE  HeadOK(k)'
  <2>1. CASE k = n /\ H!Longer(n, b)
    <3>1. /\ LastBlock'[n] = b /\ LastConfirmedBlock'[n] = H!ConfirmedAncestor(b)
          /\ block[LastBlock[n]].len < block[b].len
      BY <2>1, AcceptHead DEF H!Longer
    <3>2. ~ H!IsGenesisBlock(b)
      BY <1>2, <3>1
    <3>3. \A c \in DOMAIN Blocks[n] : block[c].len \in Nat /\ block[c].len <= block[LastBlock[n]].len
      BY DEF ForestInv, ForestOK, KnownOK, HeadOK
    <3> QED
      BY <1>1, <1>2, <2>1, <3>1, <3>2, <3>3
         DEF HeadOK, H!ConfirmedAncestor, H!IsGenesisBlock
  <2>2. CASE k = n /\ ~ H!Longer(n, b)
    BY <1>1, <1>2, <2>2, AcceptHead
       DEF ForestInv, HeadOK, H!Longer, H!ConfirmedAncestor, H!IsGenesisBlock
  <2>3. CASE k # n
    BY <1>1, <2>3, AcceptHead
       DEF ForestInv, HeadOK, H!ConfirmedAncestor, H!IsGenesisBlock
  <2> QED
    BY <2>1, <2>2, <2>3
<1>7. LedgerAgreement'
  <2> SUFFICES ASSUME NEW k \in Node, NEW c \in DOMAIN Blocks'[n] \cap DOMAIN Blocks'[k],
                      k # n
               PROVE  Blocks'[n][c] = Blocks'[k][c]
    BY <1>1 DEF ForestInv, LedgerAgreement, H!LedgerAgreement
  <2>1. CASE c # b
    BY <1>1, <2>1 DEF ForestInv, LedgerAgreement, H!LedgerAgreement
  <2>2. CASE c = b /\ H!IsGenesisBlock(b)
    BY <1>1, <2>2 DEF ForestInv, KnownOK
  <2>3. CASE c = b /\ ~ H!IsGenesisBlock(b)
    <3>1. /\ p \in DOMAIN Blocks[k]
          /\ Blocks[k][b] = H!LedgerAfter(block[p], Blocks[k][p], block[b].txs)
      BY <1>1, <2>3 DEF ForestInv, KnownOK
    <3>2. Blocks[k][p] = Blocks[n][p]
      BY <1>1, <2>3, <3>1 DEF ForestInv, LedgerAgreement, H!LedgerAgreement
    <3> QED
      BY <1>1, <2>3, <3>1, <3>2
  <2> QED
    BY <2>1, <2>2, <2>3
<1>8. Domains' /\ (\A k \in Node : SearchOK(k)')
  <2>1. CASE H!Initialized(n) /\ block[b].len >= CurrentBlock[n].len
    <3>1. /\ DOMAIN CurrentBlock' = Node
          /\ Extends(n, CurrentBlock'[n], block[LastBlock'[n]])
          /\ \A k \in Node \ {n} : CurrentBlock'[k] = CurrentBlock[k]
      <4>1. H!StartNewSearch(n, LastBlock'[n], Blocks'[n][LastBlock'[n]],
                             Transactions[n] \cup H!SyncTransaction(n, b))
        BY <2>1 DEF H!CutOver
      <4> QED
        BY <4>1, NewSearch DEF ForestInv, Domains
    <3>2. Domains'
      BY <1>1, <3>1, AcceptHead DEF ForestInv, Domains
    <3>3. ASSUME NEW k \in Node
          PROVE  SearchOK(k)'
      <4>1. CASE k = n
        BY <1>1, <3>1, <4>1 DEF SearchOK
      <4>2. CASE k # n
        BY <1>1, <3>1, <4>2, AcceptHead DEF ForestInv, SearchOK
      <4> QED
        BY <4>1, <4>2
    <3> QED
      BY <3>2, <3>3
  <2>2. CASE ~ (H!Initialized(n) /\ block[b].len >= CurrentBlock[n].len)
    <3>1. CurrentBlock' = CurrentBlock
      BY <2>2 DEF H!CutOver
    <3>2. Domains'
      BY <1>1, <3>1, AcceptHead DEF ForestInv, Domains
    <3>3. ASSUME NEW k \in Node
          PROVE  SearchOK(k)'
      <4>1. CASE CurrentBlock[k] = NoBlock
        BY <3>1, <4>1 DEF SearchOK
      <4>2. CASE CurrentBlock[k] # NoBlock
        <5>1. CurrentBlock[k].len = block[LastBlock[k]].len + 1
          <6>1. Extends(k, CurrentBlock[k], block[LastBlock[k]])
            BY <4>2 DEF ForestInv, SearchOK
          <6> QED
            BY ONLY <6>1 DEF Extends
        <5>2. LastBlock'[k] = LastBlock[k]
          BY <1>2, <2>2, <4>2, <5>1, AcceptHead DEF H!Initialized, H!Longer
        <5> QED
          BY <1>1, <3>1, <5>2 DEF ForestInv, SearchOK
      <4> QED
        BY <4>1, <4>2
    <3> QED
      BY <3>2, <3>3
  <2> QED
    BY <2>1, <2>2
<1> QED
  BY <1>3, <1>4, <1>5, <1>6, <1>7, <1>8 DEF ForestInv

-----------------------------------------------------------------------------
(* ForestInv holds always. *)

LEMMA NextForest ==
  ASSUME ForestInv, [Next]_vars
  PROVE  ForestInv'
<1>1. ASSUME NEW n \in Node, Exit(n)
      PROVE  ForestInv'
  BY <1>1, SameForest DEF Exit, EndProcess, forestVars, chainVars, minerVars
<1>2. ASSUME NEW n \in Node, User(n)
      PROVE  ForestInv'
  BY <1>2, SameForest
     DEF User, Transfer, CheckFunds, EndProcess, PostTransaction, AddTransaction,
         ResendPendingTransactions, forestVars, chainVars, minerVars
<1>3. ASSUME NEW n \in Node, HandleBlock(n)
      PROVE  ForestInv'
  <2>1. PICK b \in DOMAIN block : ReceiveBlock(n, b)
    BY <1>3 DEF HandleBlock
  <2>2. CASE H!IgnoreBlock(n, b) /\ UNCHANGED minerVars
    BY <2>2, SameForest DEF H!IgnoreBlock, forestVars, H!chainVars, minerVars
  <2>3. CASE (\E receivers \in Reach(n) : H!StickBlock(n, b, receivers)) /\ UNCHANGED minerVars
    BY <2>3, SameForest DEF H!StickBlock, forestVars, minerVars
  <2>4. CASE H!AcceptBlock(n, b) /\ UNCHANGED clock /\ H!CutOver(n, b)
    BY <2>4, AcceptForest
  <2> QED
    BY <2>1, <2>2, <2>3, <2>4 DEF ReceiveBlock
<1>4. ASSUME NEW n \in Node, HandleRequest(n)
      PROVE  ForestInv'
  BY <1>4, SameForest
     DEF HandleRequest, ProvideMissingBlock, forestVars, chainVars, minerVars
<1>5. ASSUME NEW n \in Node, HandleTransaction(n)
      PROVE  ForestInv'
  BY <1>5, SameForest
     DEF HandleTransaction, H!AddTransactionBytes, forestVars, H!chainVars
<1>6. ASSUME NEW n \in Node, Mine(n)
      PROVE  ForestInv'
  <2>1. PICK receivers \in Reach(n) : \/ H!FindProof(n, receivers)
                                      \/ H!FindProofAgain(n, receivers)
    BY <1>6 DEF Mine
  <2>2. CASE H!FindProof(n, receivers)
    BY <2>2, FindProofForest
  <2>3. CASE H!FindProofAgain(n, receivers)
    BY <2>3, SameForest DEF H!FindProofAgain, forestVars, H!chainVars, H!minerVars
  <2> QED
    BY <2>1, <2>2, <2>3
<1>7. ASSUME NEW n \in Node, NEW p \in Node, Meet(n, p)
      PROVE  ForestInv'
  BY <1>7, SameForest DEF Meet, forestVars, chainVars, minerVars
<1>8. CASE UNCHANGED vars
  BY <1>8, SameForest DEF vars, forestVars, chainVars, minerVars
<1> QED
  BY <1>1, <1>2, <1>3, <1>4, <1>5, <1>6, <1>7, <1>8, StartForest DEF Next

\* The blocks form a forest, of which each process knows a closed part.
THEOREM ForestInvariant == Spec => []ForestInv
  BY InitForest, NextForest, PTL DEF Spec

\* Two processes agree on the ledger of every block they know, one that
\* restarted and those before it included.
THEOREM TcpLedgersAgree == Spec => []LedgerAgreement
<1>1. ForestInv => LedgerAgreement
  BY DEF ForestInv
<1> QED
  BY <1>1, ForestInvariant, PTL

\* A process searches on the head of its longest chain, also when a cutover
\* takes it to the chain of another genesis block.
THEOREM TcpMinersOnHead == Spec => []MiningOnHead
<1>1. ForestInv => MiningOnHead
  <2> SUFFICES ASSUME ForestInv, NEW n \in Node, H!Initialized(n)
               PROVE  CurrentBlock[n].prev = LastBlock[n]
    BY DEF MiningOnHead, H!MiningOnHead
  <2>1. Extends(n, CurrentBlock[n], block[LastBlock[n]])
    BY DEF ForestInv, SearchOK, H!Initialized
  <2>2. CurrentBlock[n].prev = block[LastBlock[n]].id
    BY ONLY <2>1 DEF Extends
  <2> QED
    BY <2>2 DEF ForestInv, ForestOK, KnownOK, HeadOK
<1> QED
  BY <1>1, ForestInvariant, PTL

\* The head is a longest known chain, its confirmed block is CONFIRMED_DEPTH
\* below it or a genesis block, and every walk down meets known blocks only.
THEOREM TcpLongestHead == Spec => []HeadIsLongest
<1>1. ForestInv => H!ChainsAreComplete
  <2> SUFFICES ASSUME ForestInv, NEW n \in Node, NEW b \in DOMAIN Blocks[n],
                      block[b].prev # NoBlock
               PROVE  /\ block[b].prev \in DOMAIN Blocks[n]
                      /\ block[b].len = block[block[b].prev].len + 1
                      /\ block[b].chain = H!Chain(block[block[b].prev])
    BY DEF H!ChainsAreComplete
  <2>1. b \in DOMAIN block /\ ~ H!IsGenesisBlock(b)
    BY DEF ForestInv, ForestOK, KnownOK, H!GenesisHeader
  <2> QED
    BY <2>1 DEF ForestInv, ForestOK, KnownOK
<1>2. ForestInv => H!HeadIsLongest
  <2> SUFFICES ASSUME ForestInv, NEW n \in Node
               PROVE  LET head == block[LastBlock[n]]
                          low  == IF head.len > CONFIRMED_DEPTH
                                  THEN head.len - CONFIRMED_DEPTH ELSE 0
                      IN  /\ \A b \in DOMAIN Blocks[n] : block[b].len <= head.len
                          /\ block[LastConfirmedBlock[n]].len = low
                          /\ block[LastConfirmedBlock[n]] \in H!Lineage(head)
    BY DEF H!HeadIsLongest
  <2> DEFINE head == block[LastBlock[n]]
             low  == IF head.len > CONFIRMED_DEPTH
                     THEN head.len - CONFIRMED_DEPTH ELSE 0
  <2>1. /\ LastBlock[n] \in DOMAIN block /\ head.len \in Nat
        /\ \A b \in DOMAIN Blocks[n] : block[b].len <= head.len
    BY DEF ForestInv, ForestOK, KnownOK, HeadOK
  <2>2. CASE H!IsGenesisBlock(LastBlock[n])
    <3>1. LastConfirmedBlock[n] = LastBlock[n] /\ head.len = 0 /\ low = 0
      BY <2>1, <2>2, TcpMinerAssumption DEF ForestInv, HeadOK, H!IsGenesisBlock
    <3> QED
      BY <2>1, <3>1 DEF H!Lineage
  <2>3. CASE ~ H!IsGenesisBlock(LastBlock[n])
    <3>1. head.len \in Nat \ {0}
      BY <2>1, <2>3 DEF H!IsGenesisBlock
    <3>2. low \in 0 .. head.len - 1
      BY <3>1, TcpMinerAssumption
    <3>3. LastConfirmedBlock[n] = head.chain[low]
      BY <2>3 DEF ForestInv, HeadOK, H!ConfirmedAncestor
    <3>4. \A h \in 0 .. head.len - 1 : block[head.chain[h]].len = h
      BY <2>1 DEF ForestInv, HeightsOK
    <3> HIDE DEF head, low
    <3>5. /\ block[LastConfirmedBlock[n]].len = low
          /\ block[LastConfirmedBlock[n]] \in H!Lineage(head)
      BY ONLY <3>2, <3>3, <3>4 DEF H!Lineage
    <3> QED
      BY <2>1, <3>5 DEF head, low
  <2> QED
    BY <2>2, <2>3
<1>3. ForestInv => HeadIsLongest
  BY <1>1, <1>2 DEF HeadIsLongest
<1> QED
  BY <1>3, ForestInvariant, PTL

-----------------------------------------------------------------------------
(* TcpNetwork implements LongestChain with restarts. *)

LEMMA TreeEntries ==
  /\ DOMAIN H!Tree = DOMAIN block
  /\ \A b \in DOMAIN block :
       H!Tree[b] = [parent |-> block[b].prev, height |-> block[b].len]
  BY DEF H!Tree

LEMMA InitChains == Init => Chains!Init
<1> SUFFICES ASSUME Init PROVE Chains!Init
  OBVIOUS
<1> USE DEF Init
<1>1. {[n \in Node |-> OwnGenesis(n, 0)][k] : k \in Node} = {OwnGenesis(n, 0) : n \in Node}
  OBVIOUS
<1>2. H!Tree = [b \in {OwnGenesis(n, 0) : n \in Node} |-> Chains!Root]
  BY DEF H!Tree, Chains!Root, H!GenesisHeader
<1>3. H!Known = [n \in Node |-> {OwnGenesis(n, 0)}]
  BY DEF H!Known
<1> QED
  BY <1>1, <1>2, <1>3 DEF Chains!Init

\* A found proof extends the chain its miner follows.
LEMMA FindProofExtends ==
  ASSUME ForestInv, NEW n \in Node, NEW receivers, H!FindProof(n, receivers)
  PROVE  Chains!Extend(n)
<1> DEFINE new  == <<n, clock[n]>>
           head == LastBlock[n]
           cur  == CurrentBlock[n]
<1> USE DEF H!FindProof, H!chainVars
<1>1. new \notin DOMAIN block /\ head \in DOMAIN block /\ block[head].id = head
  BY DEF ForestInv, Domains, ForestOK, IdsAreUsedOnce, KnownOK, HeadOK
<1>2. /\ cur.prev = head /\ cur.len = block[head].len + 1
      /\ cur = [id |-> cur.id, prev |-> head, len |-> block[head].len + 1,
                rewardAddr |-> n, txs |-> cur.txs, chain |-> H!Chain(block[head])]
  BY <1>1 DEF ForestInv, SearchOK, H!Initialized, Extends
<1>3. /\ DOMAIN block' = DOMAIN block \cup {new}
      /\ \A b \in DOMAIN block : block'[b] = block[b]
      /\ block'[new].prev = head
      /\ block'[new].len = block[head].len + 1
  BY <1>1, <1>2 DEF H!With
<1>4. /\ new \in DOMAIN H!Tree'
      /\ Chains!Grow(new, Chains!ChildOf(head))
  BY <1>1, <1>3 DEF H!Tree, Chains!Grow, Chains!ChildOf
<1>5. UNCHANGED <<H!Known, LastBlock>>
  BY DEF H!Known
<1> QED
  BY <1>4, <1>5 DEF Chains!Extend

\* An accepted block is learned.
LEMMA AcceptLearns ==
  ASSUME ForestInv, NEW n \in Node, NEW b \in DOMAIN block, H!AcceptBlock(n, b)
  PROVE  Chains!Learn(n, b)
<1>1. /\ b \notin DOMAIN Blocks[n]
      /\ block' = block
      /\ DOMAIN Blocks'[n] = DOMAIN Blocks[n] \cup {b}
      /\ \A k \in Node \ {n} : Blocks'[k] = Blocks[k]
      /\ ~ H!IsGenesisBlock(b) => block[b].prev \in DOMAIN Blocks[n]
  BY AcceptKnown
<1>2. /\ b \notin H!Known[n]
      /\ H!Tree[b] = Chains!Root \/ H!Tree[b].parent \in H!Known[n]
  <2>1. H!Known[n] = DOMAIN Blocks[n]
    BY DEF H!Known
  <2>2. CASE H!IsGenesisBlock(b)
    <3>1. block[b].prev = NoBlock /\ block[b].len = 0
      BY <2>2 DEF ForestInv, ForestOK, H!GenesisHeader
    <3> QED
      BY <1>1, <2>1, <3>1, TreeEntries DEF Chains!Root
  <2>3. CASE ~ H!IsGenesisBlock(b)
    BY <1>1, <2>1, <2>3, TreeEntries
  <2> QED
    BY <2>2, <2>3
<1>3. H!Known' = [H!Known EXCEPT ![n] = @ \cup {b}]
  <2>1. \A k \in Node : DOMAIN Blocks'[k] =
                         IF k = n THEN DOMAIN Blocks[n] \cup {b} ELSE DOMAIN Blocks[k]
    BY <1>1
  <2>2. H!Known' = [k \in Node |-> IF k = n THEN DOMAIN Blocks[n] \cup {b}
                                           ELSE DOMAIN Blocks[k]]
    BY <2>1 DEF H!Known
  <2> QED
    BY ONLY <2>2, n \in Node DEF H!Known
<1>4. H!Tree' = H!Tree
  BY <1>1 DEF H!Tree
<1>5. LastBlock[n] \in DOMAIN block
  BY DEF ForestInv, KnownOK, HeadOK
<1>6. H!Longer(n, b) <=> H!Tree[b].height > H!Tree[LastBlock[n]].height
  BY <1>5, TreeEntries DEF ForestInv, ForestOK, H!Longer
<1>7. LastBlock' = IF H!Tree[b].height > H!Tree[LastBlock[n]].height
                   THEN [LastBlock EXCEPT ![n] = b] ELSE LastBlock
  BY <1>6 DEF H!AcceptBlock
<1> QED
  BY <1>2, <1>3, <1>4, <1>7 DEF Chains!Learn

\* A process that starts forgets all but its new root.
LEMMA StartRestarts ==
  ASSUME ForestInv, NEW n \in Node, StartProcess(n)
  PROVE  Chains!Restart(n)
<1> DEFINE new == <<n, clock[n]>>
<1> USE DEF StartProcess, StartChain, OwnGenesis
<1>1. new \notin DOMAIN block
  BY DEF ForestInv, Domains, IdsAreUsedOnce
<1>2. /\ DOMAIN block' = DOMAIN block \cup {new}
      /\ \A b \in DOMAIN block : block'[b] = block[b]
      /\ block'[new].prev = NoBlock /\ block'[new].len = 0
  BY <1>1 DEF H!With, H!GenesisHeader
<1>3. /\ new \in DOMAIN H!Tree'
      /\ Chains!Grow(new, Chains!Root)
  BY <1>1, <1>2 DEF H!Tree, Chains!Grow, Chains!Root
<1>4. H!Known' = [H!Known EXCEPT ![n] = {new}]
  <2>1. \A k \in Node : DOMAIN Blocks'[k] = IF k = n THEN {new} ELSE DOMAIN Blocks[k]
    BY DEF ForestInv, Domains
  <2>2. H!Known' = [k \in Node |-> IF k = n THEN {new} ELSE DOMAIN Blocks[k]]
    BY <2>1 DEF H!Known
  <2> QED
    BY ONLY <2>2, n \in Node DEF H!Known
<1> QED
  BY <1>3, <1>4 DEF Chains!Restart

\* Steps that LongestChain does not see.
LEMMA SameChains ==
  ASSUME UNCHANGED <<block, Blocks, LastBlock>>
  PROVE  UNCHANGED Chains!vars
  BY DEF Chains!vars, H!Tree, H!Known

\* The steps that change what is known, and where the heads are.
LEMMA ChainSteps ==
  ASSUME [Next]_vars
  PROVE  \/ \E n \in Node, b \in DOMAIN block : H!AcceptBlock(n, b)
         \/ \E n \in Node : \E receivers \in Reach(n) : H!FindProof(n, receivers)
         \/ \E n \in Node : StartProcess(n)
         \/ UNCHANGED <<block, Blocks, LastBlock>>
<1> DEFINE Step ==
      \/ \E n \in Node, b \in DOMAIN block : H!AcceptBlock(n, b)
      \/ \E n \in Node : \E receivers \in Reach(n) : H!FindProof(n, receivers)
      \/ \E n \in Node : StartProcess(n)
      \/ UNCHANGED <<block, Blocks, LastBlock>>
<1>1. ASSUME NEW n \in Node, HandleBlock(n)
      PROVE  Step
  <2>1. PICK b \in DOMAIN block : ReceiveBlock(n, b)
    BY <1>1 DEF HandleBlock
  <2> QED
    BY <2>1 DEF ReceiveBlock, H!IgnoreBlock, H!StickBlock, H!chainVars
<1>2. ASSUME NEW n \in Node,
             \/ Exit(n) \/ HandleRequest(n) \/ HandleTransaction(n)
             \/ \E p \in Node : Meet(n, p)
      PROVE  Step
  BY <1>2
     DEF Exit, EndProcess, HandleRequest, ProvideMissingBlock, Meet,
         HandleTransaction, H!AddTransactionBytes, chainVars, H!chainVars
<1>3. ASSUME NEW n \in Node, User(n)
      PROVE  Step
  BY <1>3
     DEF User, Transfer, CheckFunds, EndProcess, PostTransaction, AddTransaction,
         ResendPendingTransactions, chainVars
<1>4. ASSUME NEW n \in Node, Mine(n)
      PROVE  Step
  BY <1>4 DEF Mine, H!FindProofAgain, H!chainVars
<1>5. CASE UNCHANGED vars
  BY <1>5 DEF vars, chainVars
<1> QED
  BY <1>1, <1>2, <1>3, <1>4, <1>5 DEF Next

LEMMA NextChains ==
  ASSUME ForestInv, [Next]_vars
  PROVE  [Chains!Next \/ \E n \in Node : Chains!Restart(n)]_Chains!vars
<1>1. ASSUME NEW n \in Node, NEW b \in DOMAIN block, H!AcceptBlock(n, b)
      PROVE  Chains!Next
  BY <1>1, AcceptLearns, TreeEntries DEF Chains!Next
<1>2. ASSUME NEW n \in Node, NEW receivers, H!FindProof(n, receivers)
      PROVE  Chains!Next
  BY <1>2, FindProofExtends DEF Chains!Next
<1> QED
  BY <1>1, <1>2, ChainSteps, StartRestarts, SameChains

\* TcpNetwork implements LongestChain: whatever messages are lost, a process
\* extends the chain it follows, learns a block after its ancestors, starts
\* over with a root of its own, or does nothing LongestChain sees.
THEOREM TcpImplementsLongestChain == Spec => FollowsLongestChain
<1>1. Spec => Chains!RestartSpec
  BY InitChains, NextChains, ForestInvariant, PTL DEF Spec, Chains!RestartSpec
<1> QED
  BY <1>1 DEF FollowsLongestChain

-----------------------------------------------------------------------------
(* Transactions.  The lemmas about ledgers are those of LedgerProofs: its  *)
(* assumption holds here, and its operators are those of the handlers.     *)

L == INSTANCE LedgerProofs

LEMMA LedgerInstance == L!LedgerAssumption
  BY TcpMinerAssumption
     DEF L!LedgerAssumption, L!IsFiniteSet, IsFiniteSet

LEMMA NodesHaveAmounts == Node \subseteq Address /\ L!Amount \subseteq Nat
  BY TcpMinerAssumption DEF L!Amount

LEMMA SameRerun ==
  ASSUME NEW parent, NEW ledger, NEW txs
  PROVE  /\ L!Rerun(parent, ledger, txs) = H!Rerun(parent, ledger, txs)
         /\ L!LedgerAfter(parent, ledger, txs) = H!LedgerAfter(parent, ledger, txs)
         /\ L!RerunSucceeds(parent, ledger, txs) <=> H!RerunSucceeds(parent, ledger, txs)
<1>1. L!Rerun(parent, ledger, txs) = H!Rerun(parent, ledger, txs)
  BY DEF L!Rerun, L!FoldLeft, L!AddTransaction, L!AcceptsTransaction,
         L!ApplyTransaction, L!PayReward, L!NewDraft, L!Uint, L!TotalOutput,
         L!MapThenFoldSet, L!Max, L!Contains,
         H!Rerun, H!FoldLeft, H!AddTransaction, H!AcceptsTransaction,
         H!ApplyTransaction, H!PayReward, H!NewDraft, H!Uint, H!TotalOutput,
         H!MapThenFoldSet, H!Max, H!Contains
<1> QED
  BY <1>1 DEF L!LedgerAfter, L!RerunSucceeds, H!LedgerAfter, H!RerunSucceeds

LEMMA SameFill ==
  ASSUME NEW ledger, NEW order
  PROVE  L!FillBlock(ledger, order) = H!FillBlock(ledger, order)
  BY DEF L!FillBlock, L!FoldLeft, L!AddTransaction, L!AcceptsTransaction,
         L!ApplyTransaction, L!NewDraft, L!Uint, L!TotalOutput,
         L!MapThenFoldSet, L!Max, L!Contains,
         H!FillBlock, H!FoldLeft, H!AddTransaction, H!AcceptsTransaction,
         H!ApplyTransaction, H!NewDraft, H!Uint, H!TotalOutput,
         H!MapThenFoldSet, H!Max, H!Contains

LEMMA SameOrders ==
  ASSUME NEW pool
  PROVE  L!SetToSeqs(pool) = H!SetToSeqs(pool)
  BY DEF L!SetToSeqs, H!SetToSeqs, L!Cardinality, H!Cardinality

\* The wallet of n is the first with its key, and never falls behind.
Fresh(tx) == OnlyProcess(tx.from) => tx.nonce < Nonce[tx.from]

IsPayment(tx) ==
  \E payment \in Payment : tx.fee = payment.fee /\ tx.outputs = payment.outputs

\* What has been sent: of the first process with a key, nothing but what its
\* wallet counted.
Sent == {tx \in L!WellFormed : /\ tx.from \in Node /\ tx.nonce < MaxNonce
                               /\ IsPayment(tx) /\ Fresh(tx)}

LEMMA SentIsWellFormed == Sent \subseteq L!WellFormed /\ L!NoWrap(Sent)
<1>1. MaxNonce \in Nat /\ MaxNonce <= UintRange - 1
  BY TcpPaymentAssumption, TcpMinerAssumption
<1>2. \A tx \in Sent : tx.nonce \in Nat /\ tx.nonce < MaxNonce
  BY DEF Sent, L!WellFormed
<1>3. L!NoWrap(Sent)
  BY <1>1, <1>2, TcpMinerAssumption DEF L!NoWrap
<1> QED
  BY <1>3 DEF Sent

CallsIn(pool, S) ==
  /\ DOMAIN pool = Node
  /\ \A n \in Node : \A c \in DOMAIN pool[n] :
       c.op = "POST_TRANSACTION" => c.tx \in S

\* Wherever there are transactions they are of S.
Carried(S) ==
  /\ CallsIn(calls, S)
  /\ \A b \in DOMAIN block : block[b].txs \in Seq(S)
  /\ DOMAIN PendingOutgoingTransactions = Node
  /\ DOMAIN Transactions = Node
  /\ \A n \in Node :
       /\ PendingOutgoingTransactions[n] \subseteq S
       /\ Transactions[n] \subseteq S /\ L!Finite(Transactions[n])
       /\ H!Initialized(n) => CurrentBlock[n].txs \in Seq(S)

\* The ledgers are those of accepted blocks.
LedgersOK ==
  \A n \in Node : \A b \in DOMAIN Blocks[n] :
    /\ Blocks[n][b] \in L!LedgerType
    /\ ~ H!IsGenesisBlock(b) =>
         LET p == block[b].prev
         IN  H!RerunSucceeds(block[p], Blocks[n][p], block[b].txs)

\* The thread of the menu works on one transaction, with the next nonce.
UserOK(n) ==
  \/ user[n] = Menu
  \/ /\ n \in up
     /\ \E tx \in L!WellFormed : \E step \in {"check", "post", "add"} :
          /\ user[n] = [step |-> step, tx |-> tx]
          /\ tx.from = n /\ tx.nonce < MaxNonce /\ IsPayment(tx)
          /\ step # "add" => tx.nonce = Nonce[n]
          /\ step = "add" => tx \in Sent

UsersOK ==
  /\ up \subseteq Node /\ DOMAIN user = Node /\ DOMAIN Nonce = Node
  /\ \A n \in Node : Nonce[n] \in Nat /\ UserOK(n)

\* The first process of each node is remembered by its genesis block.
RootsOK == \A n \in Node : <<n, 0>> \in DOMAIN block /\ H!IsGenesisBlock(<<n, 0>>)

SentInv == Carried(Sent) /\ LedgersOK /\ UsersOK /\ RootsOK

LEMMA EmptySequence == \A S : <<>> \in Seq(S)
  OBVIOUS

LEMMA InitSent == Init => SentInv
<1> SUFFICES ASSUME Init PROVE SentInv
  OBVIOUS
<1> USE DEF Init, OwnGenesis
<1>1. /\ DOMAIN block = {<<n, 0>> : n \in Node}
      /\ \A b \in DOMAIN block : block[b] = H!GenesisHeader(b)
      /\ \A n \in Node : /\ DOMAIN Blocks[n] = {<<n, 0>>}
                         /\ Blocks[n][<<n, 0>>] = H!GenesisLedger
  OBVIOUS
<1>2. \A b \in DOMAIN block : block[b].txs = <<>> /\ block[b].len = 0
  BY <1>1 DEF H!GenesisHeader
<1>3. <<>> \in Seq(Sent) /\ L!Finite({})
  <2>1. <<>> \in Seq(Sent)
    BY EmptySequence
  <2>2. L!Finite({})
    BY LedgerInstance, L!FiniteUnion
  <2> QED
    BY ONLY <2>1, <2>2
<1>4. Carried(Sent)
  <2>1. CallsIn(calls, Sent)
    <3>1. calls = [n \in Node |-> <<>>]
      OBVIOUS
    <3> QED
      BY ONLY <3>1 DEF CallsIn
  <2>2. \A n \in Node : CurrentBlock[n].txs = <<>>
    BY DEF H!NewBlock
  <2> QED
    BY <1>2, <1>3, <2>1, <2>2 DEF Carried
<1>5. LedgersOK
  <2>1. H!GenesisLedger \in L!LedgerType
    BY ONLY LedgerInstance DEF L!LedgerAssumption, H!GenesisLedger, L!LedgerType, L!Amount
  <2>2. \A n \in Node : <<n, 0>> \in DOMAIN block /\ H!IsGenesisBlock(<<n, 0>>)
    BY ONLY <1>1, <1>2 DEF H!IsGenesisBlock
  <2> QED
    BY ONLY <1>1, <2>1, <2>2 DEF LedgersOK
<1>6. UsersOK
  BY DEF UsersOK, UserOK
<1>7. RootsOK
  BY ONLY <1>1, <1>2 DEF RootsOK, H!IsGenesisBlock
<1> QED
  BY <1>4, <1>5, <1>6, <1>7 DEF SentInv

-----------------------------------------------------------------------------
(* What the calls carry *)

LEMMA FinishIn ==
  ASSUME NEW S, NEW pool, CallsIn(pool, S), NEW n \in Node, NEW c
  PROVE  CallsIn(H!Finish(pool, n, c), S)
<1>1. DOMAIN H!BagRemove(pool[n], c) \subseteq DOMAIN pool[n]
  BY DEF H!BagRemove
<1> QED
  BY <1>1 DEF H!Finish, CallsIn

LEMMA SpawnIn ==
  ASSUME NEW S, NEW pool, CallsIn(pool, S), NEW n, NEW c,
         c.op = "POST_TRANSACTION" => c.tx \in S
  PROVE  CallsIn(H!Spawn(pool, n, c), S)
<1>1. DOMAIN H!BagAdd(pool[n], c) \subseteq DOMAIN pool[n] \cup {c}
  BY DEF H!BagAdd
<1> QED
  BY <1>1 DEF H!Spawn, CallsIn

LEMMA AddAllIn ==
  ASSUME NEW S, NEW pool, CallsIn(pool, S), NEW new, DOMAIN new = Node,
         \A n \in Node : new[n] = pool[n] \/
           \E cs : /\ new[n] = H!AddAll(pool[n], cs)
                   /\ \A c \in cs : c.op = "POST_TRANSACTION" => c.tx \in S
  PROVE  CallsIn(new, S)
<1>1. \A bag, cs : DOMAIN H!AddAll(bag, cs) = DOMAIN bag \cup cs
  BY DEF H!AddAll
<1> SUFFICES ASSUME NEW n \in Node, NEW c \in DOMAIN new[n], c.op = "POST_TRANSACTION"
             PROVE  c.tx \in S
  BY DEF CallsIn
<1>2. CASE new[n] = pool[n]
  BY <1>2 DEF CallsIn
<1>3. CASE new[n] # pool[n]
  <2>1. PICK cs : /\ new[n] = H!AddAll(pool[n], cs)
                  /\ \A d \in cs : d.op = "POST_TRANSACTION" => d.tx \in S
    BY <1>3
  <2>2. c \in DOMAIN pool[n] \/ c \in cs
    <3>1. DOMAIN new[n] = DOMAIN pool[n] \cup cs
      BY ONLY <1>1, <2>1
    <3> QED
      BY ONLY <3>1, c \in DOMAIN new[n]
  <2> QED
    BY <2>1, <2>2 DEF CallsIn
<1> QED
  BY <1>2, <1>3

LEMMA BroadcastIn ==
  ASSUME NEW S, NEW pool, CallsIn(pool, S), NEW receivers, NEW c,
         c.op = "POST_TRANSACTION" => c.tx \in S
  PROVE  CallsIn(H!Broadcast(pool, receivers, c), S)
<1>1. H!Broadcast(pool, receivers, c) =
        [n \in Node |-> IF n \in receivers THEN H!AddAll(pool[n], {c}) ELSE pool[n]]
  BY DEF H!Broadcast, H!BroadcastAll
<1> QED
  BY <1>1, AddAllIn

\* A message about a block carries no transaction.
LEMMA BlockCallsCarryNone ==
  \A b, n : /\ H!PROOF_FOUND(b).op # "POST_TRANSACTION"
            /\ H!MISSING_BLOCK(n, b).op # "POST_TRANSACTION"
  BY DEF H!PROOF_FOUND, H!MISSING_BLOCK

LEMMA AnnounceIn ==
  ASSUME NEW S, CallsIn(calls, S), NEW n \in Node, NEW b, NEW receivers
  PROVE  CallsIn(H!AnnounceProof(n, b, receivers), S)
<1>1. CallsIn(H!Broadcast(calls, receivers, H!PROOF_FOUND(b)), S)
  BY BroadcastIn, BlockCallsCarryNone
<1> QED
  BY <1>1, SpawnIn, BlockCallsCarryNone DEF H!AnnounceProof

-----------------------------------------------------------------------------
(* Searches, pools and blocks *)

\* A miner fills its block from a finite pool.
LEMMA SearchIn ==
  ASSUME ForestInv, NEW S, S \subseteq L!WellFormed, Carried(S), NEW n \in Node,
         NEW head, NEW ledger \in L!LedgerType, NEW pool, pool \subseteq S,
         L!Finite(pool), H!StartNewSearch(n, head, ledger, pool)
  PROVE  /\ DOMAIN Transactions' = Node
         /\ \A k \in Node :
              /\ Transactions'[k] \subseteq S /\ L!Finite(Transactions'[k])
              /\ CurrentBlock'[k] # NoBlock => CurrentBlock'[k].txs \in Seq(S)
<1>1. PICK order \in H!SetToSeqs(pool) :
        CurrentBlock' = [CurrentBlock EXCEPT ![n] =
                           H!NewBlock(n, block[head], H!FillBlock(ledger, order).txs)]
  BY DEF H!StartNewSearch
<1>2. order \in Seq(S)
  BY LedgerInstance, SameOrders, L!OrderIsSequence
<1>3. H!FillBlock(ledger, order).txs \in Seq(S)
  <2>1. L!NewDraft(ledger) \in L!DraftType(S)
    BY LedgerInstance, L!NewDraftType
  <2>2. L!FillBlock(ledger, order) \in L!DraftType(S)
    BY <1>2, <2>1, LedgerInstance, L!EntriesKeepType DEF L!FillBlock
  <2> QED
    BY <2>2, SameFill DEF L!DraftType
<1>4. CurrentBlock'[n].txs \in Seq(S)
  BY <1>1, <1>3 DEF H!NewBlock, ForestInv, Domains
<1>5. \A k \in Node \ {n} : CurrentBlock'[k] = CurrentBlock[k]
  BY <1>1 DEF ForestInv, Domains
<1>6. Transactions' = [Transactions EXCEPT ![n] = {}] /\ L!Finite({})
  <2>1. L!Finite({})
    BY LedgerInstance, L!FiniteUnion
  <2> QED
    BY <2>1 DEF H!StartNewSearch
<1> QED
  BY <1>4, <1>5, <1>6 DEF Carried, H!Initialized

\* What SyncTransaction returns to a pool was in blocks, and is finite.
LEMMA SyncIn ==
  ASSUME ForestInv, NEW S, Carried(S), NEW n \in Node, H!Initialized(n), NEW b
  PROVE  /\ H!SyncTransaction(n, b) \subseteq S
         /\ L!Finite(H!SyncTransaction(n, b))
<1> DEFINE cur  == CurrentBlock[n]
           head == block[LastBlock[n]]
           at   == [h \in 0 .. cur.len |->
                      IF h = cur.len THEN cur ELSE block[cur.chain[h]]]
<1>1. /\ head.len \in Nat /\ cur.len = head.len + 1 /\ cur.chain = H!Chain(head)
      /\ head.id \in DOMAIN block
      /\ \A h \in 0 .. head.len - 1 : head.chain[h] \in DOMAIN block
  <2>1. LastBlock[n] \in DOMAIN block
    BY DEF ForestInv, HeadOK, KnownOK
  <2>2. /\ head.len \in Nat /\ head.id \in DOMAIN block
        /\ \A h \in 0 .. head.len - 1 : head.chain[h] \in DOMAIN block
    BY <2>1 DEF ForestInv, ForestOK, HeightsOK
  <2>3. Extends(n, cur, head)
    BY DEF ForestInv, SearchOK, H!Initialized
  <2>4. cur.len = head.len + 1 /\ cur.chain = H!Chain(head)
    BY ONLY <2>3 DEF Extends
  <2> QED
    BY <2>2, <2>4
<1> HIDE DEF cur, head
<1>2. \A h \in 0 .. cur.len - 1 : cur.chain[h] \in DOMAIN block
  BY <1>1 DEF H!Chain
<1>3. \A x \in H!Lineage(cur) : x.txs \in Seq(S)
  BY <1>2 DEF H!Lineage, Carried, cur
<1>4. H!Lineage(cur) \subseteq {at[h] : h \in 0 .. cur.len}
  <2>1. cur = at[cur.len] /\ cur.len \in 0 .. cur.len
    BY <1>1
  <2>2. \A h \in 0 .. cur.len - 1 : h \in 0 .. cur.len /\ block[cur.chain[h]] = at[h]
    BY <1>1
  <2> HIDE DEF at
  <2> QED
    BY <2>1, <2>2 DEF H!Lineage
<1>5. PICK headers :
        /\ headers \subseteq H!Lineage(cur)
        /\ \A x \in headers : x.txs # <<>>
        /\ H!SyncTransaction(n, b) = {H!Last(x.txs) : x \in headers}
  <2> DEFINE cb == H!Lineage(CurrentBlock[n]) \ H!Lineage(block[b])
             nb == H!Lineage(block[b]) \ H!Lineage(CurrentBlock[n])
             LastOf(headers) == {H!Last(h.txs) : h \in {x \in headers : x.txs # <<>>}}
             Survives(h) == \E i \in DOMAIN h.txs : h.txs[i] \notin LastOf(nb)
             kept == {x \in {h \in cb : Survives(h)} : x.txs # <<>>}
  <2>1. H!SyncTransaction(n, b) = {H!Last(x.txs) : x \in kept}
    BY DEF H!SyncTransaction
  <2>2. kept \subseteq H!Lineage(cur) /\ \A x \in kept : x.txs # <<>>
    BY DEF cur
  <2> QED
    BY <2>1, <2>2
<1>6. \A x \in headers : H!Last(x.txs) \in S
  <2> SUFFICES ASSUME NEW x \in headers PROVE H!Last(x.txs) \in S
    OBVIOUS
  <2>1. x.txs \in Seq(S) /\ x.txs # <<>>
    BY <1>3, <1>5
  <2>2. Len(x.txs) \in 1 .. Len(x.txs)
    BY <2>1
  <2> QED
    BY <2>1, <2>2 DEF H!Last
<1>7. L!Finite(headers)
  <2>1. L!Finite(0 .. cur.len) /\ at = [h \in 0 .. cur.len |-> at[h]]
    BY <1>1, LedgerInstance, L!FiniteInterval
  <2> HIDE DEF at
  <2>2. headers \subseteq {at[h] : h \in 0 .. cur.len}
    BY <1>4, <1>5
  <2> QED
    BY <2>1, <2>2, LedgerInstance, L!FiniteImage
<1>8. L!Finite({H!Last(x.txs) : x \in headers})
  <2> DEFINE last == [x \in headers |-> H!Last(x.txs)]
  <2>1. {H!Last(x.txs) : x \in headers} \subseteq {last[x] : x \in headers}
    OBVIOUS
  <2>2. last = [x \in headers |-> last[x]]
    OBVIOUS
  <2> HIDE DEF last
  <2> QED
    BY <1>7, <2>1, <2>2, LedgerInstance, L!FiniteImage
<1> QED
  BY <1>5, <1>6, <1>8

\* Steps that touch no block and no search.
LEMMA SameCarried ==
  ASSUME NEW S, Carried(S), CallsIn(calls', S),
         UNCHANGED <<block, CurrentBlock>>,
         \/ UNCHANGED PendingOutgoingTransactions
         \/ \E n \in Node, tx \in S : PendingOutgoingTransactions' =
              [PendingOutgoingTransactions EXCEPT ![n] = @ \cup {tx}],
         \/ UNCHANGED Transactions
         \/ \E n \in Node, tx \in S : Transactions' =
              [Transactions EXCEPT ![n] = @ \cup {tx}]
  PROVE  Carried(S)'
<1>1. CallsIn(calls, S)'
  BY DEF CallsIn
<1>2. /\ DOMAIN Transactions' = Node
      /\ \A n \in Node : Transactions'[n] \subseteq S /\ L!Finite(Transactions'[n])
  <2>1. ASSUME NEW n \in Node, NEW tx \in S,
               Transactions' = [Transactions EXCEPT ![n] = @ \cup {tx}]
        PROVE  <1>2
    <3>1. L!Finite(Transactions[n] \cup {tx})
      BY LedgerInstance, L!FiniteUnion DEF Carried
    <3> QED
      BY <2>1, <3>1 DEF Carried
  <2>2. CASE UNCHANGED Transactions
    BY <2>2 DEF Carried
  <2> QED
    BY <2>1, <2>2
<1>3. /\ DOMAIN PendingOutgoingTransactions' = Node
      /\ \A n \in Node : PendingOutgoingTransactions'[n] \subseteq S
  BY DEF Carried
<1> QED
  BY <1>1, <1>2, <1>3 DEF Carried, H!Initialized

\* The part of ReceiveBlock that accepts b at n, with its cutover.
LEMMA AcceptIn ==
  ASSUME ForestInv, NEW S, S \subseteq L!WellFormed, Carried(S), LedgersOK,
         NEW n \in Node, NEW b \in DOMAIN block,
         H!AcceptBlock(n, b), UNCHANGED clock, H!CutOver(n, b)
  PROVE  Carried(S)' /\ LedgersOK'
<1> DEFINE p == block[b].prev
<1>1. /\ b \notin DOMAIN Blocks[n]
      /\ block' = block
      /\ DOMAIN Blocks'[n] = DOMAIN Blocks[n] \cup {b}
      /\ \A c \in DOMAIN Blocks[n] : Blocks'[n][c] = Blocks[n][c]
      /\ H!IsGenesisBlock(b) => Blocks'[n][b] = H!GenesisLedger
      /\ ~ H!IsGenesisBlock(b) =>
           /\ p \in DOMAIN Blocks[n]
           /\ Blocks'[n][b] = H!LedgerAfter(block[p], Blocks[n][p], block[b].txs)
      /\ \A k \in Node \ {n} : Blocks'[k] = Blocks[k]
  BY AcceptKnown
<1>2. \A c \in DOMAIN block : block[c].txs \in Seq(S)
  BY DEF Carried
<1>3. Blocks'[n][b] \in L!LedgerType
  <2>1. CASE H!IsGenesisBlock(b)
    <3>1. H!GenesisLedger \in L!LedgerType
      BY ONLY LedgerInstance DEF L!LedgerAssumption, H!GenesisLedger, L!LedgerType, L!Amount
    <3> QED
      BY <1>1, <2>1, <3>1
  <2>2. CASE ~ H!IsGenesisBlock(b)
    <3>1. Blocks[n][p] \in L!LedgerType
      BY <1>1, <2>2 DEF LedgersOK
    <3>2. block[b].txs \in Seq(L!WellFormed)
      BY <1>2, LedgerInstance, L!SeqMonotonic
    <3>3. L!LedgerAfter(block[p], Blocks[n][p], block[b].txs) \in L!LedgerType
      BY <3>1, <3>2, LedgerInstance, L!RerunKeepsType
    <3> QED
      BY <1>1, <2>2, <3>3, SameRerun
  <2> QED
    BY <2>1, <2>2
<1>4. ~ H!IsGenesisBlock(b) => H!RerunSucceeds(block[p], Blocks[n][p], block[b].txs)
  BY DEF H!AcceptBlock, H!Valid
<1>5. LedgersOK'
  <2> SUFFICES ASSUME NEW k \in Node, NEW c \in DOMAIN Blocks'[k]
               PROVE  /\ Blocks'[k][c] \in L!LedgerType
                      /\ block[c].len # 0 =>
                           H!RerunSucceeds(block[block[c].prev],
                                           Blocks'[k][block[c].prev], block[c].txs)
    BY <1>1 DEF LedgersOK, H!IsGenesisBlock
  <2>1. CASE k = n /\ c = b
    BY <1>1, <1>3, <1>4, <2>1 DEF H!IsGenesisBlock
  <2>2. CASE ~ (k = n /\ c = b)
    <3>1. c \in DOMAIN Blocks[k] /\ Blocks'[k][c] = Blocks[k][c]
      BY <1>1, <2>2
    <3>2. CASE block[c].len = 0
      BY <3>1, <3>2 DEF LedgersOK
    <3>3. CASE block[c].len # 0
      <4>1. ~ H!IsGenesisBlock(c)
        BY <3>3 DEF H!IsGenesisBlock
      <4>2. /\ Blocks[k][c] \in L!LedgerType
            /\ H!RerunSucceeds(block[block[c].prev], Blocks[k][block[c].prev],
                               block[c].txs)
        BY <3>1, <4>1 DEF LedgersOK
      <4>3. block[c].prev \in DOMAIN Blocks[k]
        BY <3>1, <4>1 DEF ForestInv, KnownOK
      <4>4. Blocks'[k][block[c].prev] = Blocks[k][block[c].prev]
        BY <1>1, <4>3
      <4> QED
        BY <3>1, <4>2, <4>4
    <3> QED
      BY <3>2, <3>3
  <2> QED
    BY <2>1, <2>2
<1>6. CallsIn(calls, S)'
  <2> DEFINE new  == {H!PROOF_FOUND(u) : u \in H!StuckOn(n, b)}
             rest == H!Finish(calls, n, H!PROOF_FOUND(b))
  <2>1. calls' = H!SpawnAll(rest, n, new)
    BY DEF H!AcceptBlock
  <2>2. CallsIn(rest, S)
    BY FinishIn DEF Carried
  <2>3. \A c \in new : c.op # "POST_TRANSACTION"
    BY BlockCallsCarryNone
  <2> HIDE DEF new, rest
  <2>4. CallsIn(calls', S)
    <3>1. DOMAIN rest = Node
      BY <2>2 DEF CallsIn
    <3>2. /\ DOMAIN calls' = Node
          /\ calls'[n] = H!AddAll(rest[n], new)
          /\ \A k \in Node \ {n} : calls'[k] = rest[k]
      BY <2>1, <3>1 DEF H!SpawnAll
    <3> QED
      BY <2>2, <2>3, <3>2, AddAllIn
  <2> QED
    BY <2>4 DEF CallsIn
<1>7. /\ DOMAIN PendingOutgoingTransactions' = Node
      /\ \A k \in Node : PendingOutgoingTransactions'[k] \subseteq S
  BY DEF H!AcceptBlock, H!SetLastConfirmed, Carried
<1>8. /\ DOMAIN Transactions' = Node
      /\ \A k \in Node :
           /\ Transactions'[k] \subseteq S /\ L!Finite(Transactions'[k])
           /\ CurrentBlock'[k] # NoBlock => CurrentBlock'[k].txs \in Seq(S)
  <2>1. CASE H!Initialized(n) /\ block[b].len >= CurrentBlock[n].len
    <3> DEFINE pool == Transactions[n] \cup H!SyncTransaction(n, b)
               head == LastBlock'[n]
    <3>1. H!StartNewSearch(n, head, Blocks'[n][head], pool)
      BY <2>1 DEF H!CutOver
    <3>2. pool \subseteq S /\ L!Finite(pool)
      <4>1. /\ H!SyncTransaction(n, b) \subseteq S
            /\ L!Finite(H!SyncTransaction(n, b))
        BY <2>1, SyncIn
      <4>2. Transactions[n] \subseteq S /\ L!Finite(Transactions[n])
        BY DEF Carried
      <4> QED
        BY <4>1, <4>2, LedgerInstance, L!FiniteUnion
    <3>3. head \in DOMAIN Blocks'[n]
      BY <1>1, AcceptHead DEF ForestInv, HeadOK
    <3>4. Blocks'[n][head] \in L!LedgerType
      BY <1>5, <3>3 DEF LedgersOK
    <3> HIDE DEF pool, head
    <3> QED
      BY <3>1, <3>2, <3>4, SearchIn
  <2>2. CASE ~ (H!Initialized(n) /\ block[b].len >= CurrentBlock[n].len)
    <3>1. UNCHANGED <<CurrentBlock, Transactions>>
      BY <2>2 DEF H!CutOver
    <3> QED
      BY <3>1 DEF Carried, H!Initialized
  <2> QED
    BY <2>1, <2>2
<1> QED
  BY <1>1, <1>2, <1>5, <1>6, <1>7, <1>8 DEF Carried, H!Initialized

\* A found block carries what its miner filled it with.
LEMMA FindProofIn ==
  ASSUME ForestInv, NEW S, Carried(S), LedgersOK,
         NEW n \in Node, NEW receivers, H!FindProof(n, receivers)
  PROVE  Carried(S)' /\ LedgersOK'
<1> DEFINE new   == <<n, clock[n]>>
           cur   == CurrentBlock[n]
           found == [cur EXCEPT !.id = new]
<1>1. H!Initialized(n) /\ cur.txs \in Seq(S)
  BY DEF H!FindProof, Carried
<1>2. cur = [id |-> cur.id, prev |-> cur.prev, len |-> cur.len,
             rewardAddr |-> n, txs |-> cur.txs, chain |-> cur.chain]
  <2>1. Extends(n, cur, block[LastBlock[n]])
    BY <1>1 DEF ForestInv, SearchOK, H!Initialized
  <2> QED
    BY ONLY <2>1 DEF Extends
<1>3. found.txs = cur.txs
  BY <1>2
<1>4. /\ DOMAIN block' = DOMAIN block \cup {new}
      /\ block'[new] = found
      /\ \A b \in DOMAIN block \ {new} : block'[b] = block[b]
      /\ new \notin DOMAIN block
  BY DEF H!FindProof, H!With, ForestInv, Domains, IdsAreUsedOnce
<1>5. \A k \in Node : CurrentBlock'[k] = IF k = n THEN found ELSE CurrentBlock[k]
  BY DEF H!FindProof, ForestInv, Domains
<1> HIDE DEF new, cur, found
<1>6. CallsIn(calls, S)'
  <2>1. CallsIn(calls', S)
    BY AnnounceIn DEF H!FindProof, Carried
  <2> QED
    BY <2>1 DEF CallsIn
<1>7. \A b \in DOMAIN block' : block'[b].txs \in Seq(S)
  BY <1>1, <1>3, <1>4 DEF Carried
<1>8. UNCHANGED <<PendingOutgoingTransactions, Transactions, Blocks>>
  BY DEF H!FindProof, H!walletVars, H!chainVars
<1>9. Carried(S)'
  BY <1>1, <1>3, <1>5, <1>6, <1>7, <1>8 DEF Carried, H!Initialized
<1>10. LedgersOK'
  <2>1. ASSUME NEW k \in Node, NEW b \in DOMAIN Blocks[k]
        PROVE  /\ b \in DOMAIN block /\ block'[b] = block[b]
               /\ block[b].len # 0 => block'[block[b].prev] = block[block[b].prev]
    BY <1>4 DEF ForestInv, KnownOK, H!IsGenesisBlock
  <2> QED
    BY <1>8, <2>1 DEF LedgersOK, H!IsGenesisBlock
<1> QED
  BY <1>9, <1>10

-----------------------------------------------------------------------------
(* The other steps *)

LEMMA SameLedgers ==
  ASSUME LedgersOK, UNCHANGED <<block, Blocks>>
  PROVE  LedgersOK'
  BY DEF LedgersOK, H!IsGenesisBlock

\* A new process starts without transactions.
LEMMA StartIn ==
  ASSUME ForestInv, NEW S, Carried(S), LedgersOK, NEW n \in Node, StartProcess(n)
  PROVE  Carried(S)' /\ LedgersOK'
<1> DEFINE new == <<n, clock[n]>>
<1> USE DEF StartProcess, StartChain, OwnGenesis
<1>1. /\ new \notin DOMAIN block
      /\ DOMAIN block' = DOMAIN block \cup {new}
      /\ block'[new].txs = <<>> /\ block'[new].len = 0
      /\ \A b \in DOMAIN block : block'[b] = block[b]
  BY DEF ForestInv, Domains, IdsAreUsedOnce, H!With, H!GenesisHeader
<1>2. <<>> \in Seq(S) /\ L!Finite({})
  BY EmptySequence, LedgerInstance, L!FiniteUnion
<1>3. Carried(S)'
  <2>1. CallsIn(calls, S)'
    BY DEF Carried, CallsIn
  <2>2. \A b \in DOMAIN block' : block'[b].txs \in Seq(S)
    BY <1>1, <1>2 DEF Carried
  <2>3. \A k \in Node : CurrentBlock'[k] # NoBlock => CurrentBlock'[k].txs \in Seq(S)
    <3>1. CurrentBlock'[n].txs = <<>>
      BY DEF H!NewBlock, ForestInv, Domains
    <3>2. \A k \in Node \ {n} : CurrentBlock'[k] = CurrentBlock[k]
      BY DEF ForestInv, Domains
    <3> QED
      BY <1>2, <3>1, <3>2 DEF Carried, H!Initialized
  <2>4. /\ DOMAIN PendingOutgoingTransactions' = Node
        /\ DOMAIN Transactions' = Node
        /\ \A k \in Node : /\ PendingOutgoingTransactions'[k] \subseteq S
                           /\ Transactions'[k] \subseteq S /\ L!Finite(Transactions'[k])
    BY <1>2 DEF Carried
  <2> QED
    BY <2>1, <2>2, <2>3, <2>4 DEF Carried, H!Initialized
<1>4. LedgersOK'
  <2>1. /\ DOMAIN Blocks'[n] = {new} /\ Blocks'[n][new] = H!GenesisLedger
        /\ \A k \in Node \ {n} : Blocks'[k] = Blocks[k]
    BY DEF ForestInv, Domains
  <2>2. H!GenesisLedger \in L!LedgerType
    BY ONLY LedgerInstance DEF L!LedgerAssumption, H!GenesisLedger, L!LedgerType, L!Amount
  <2> SUFFICES ASSUME NEW k \in Node, NEW b \in DOMAIN Blocks'[k]
               PROVE  /\ Blocks'[k][b] \in L!LedgerType
                      /\ block'[b].len # 0 =>
                           H!RerunSucceeds(block'[block'[b].prev],
                             Blocks'[k][block'[b].prev], block'[b].txs)
    BY DEF LedgersOK, H!IsGenesisBlock
  <2>3. CASE k = n
    BY <1>1, <2>1, <2>2, <2>3
  <2>4. CASE k # n
    <3>1. b \in DOMAIN Blocks[k] /\ b \in DOMAIN block /\ Blocks'[k] = Blocks[k]
      BY <2>1, <2>4 DEF ForestInv, KnownOK
    <3>2. block'[b] = block[b]
      BY <1>1, <3>1
    <3>3. block[b].len # 0 => block'[block[b].prev] = block[block[b].prev]
      BY <1>1, <3>1 DEF ForestInv, ForestOK, H!IsGenesisBlock
    <3> QED
      BY <3>1, <3>2, <3>3 DEF LedgersOK, H!IsGenesisBlock
  <2> QED
    BY <2>3, <2>4
<1> QED
  BY <1>3, <1>4

\* The calls that the process of n waited for end with it.
LEMMA EndIn ==
  ASSUME NEW S, Carried(S), LedgersOK, NEW n \in Node, EndProcess(n)
  PROVE  Carried(S)' /\ LedgersOK'
<1>1. CallsIn(calls', S)
  BY DEF EndProcess, Carried, CallsIn
<1> QED
  BY <1>1, SameCarried, SameLedgers DEF EndProcess, chainVars, walletVars, minerVars

LEMMA UserIn ==
  ASSUME NEW S, Carried(S), LedgersOK, NEW n \in Node, User(n),
         PostTransaction(n) \/ AddTransaction(n) => user[n].tx \in S
  PROVE  Carried(S)' /\ LedgersOK'
<1>1. LedgersOK'
  BY SameLedgers
     DEF User, Transfer, CheckFunds, EndProcess, PostTransaction, AddTransaction,
         ResendPendingTransactions, chainVars
<1>2. CASE Transfer(n)
  <2>1. UNCHANGED <<calls, block, walletVars, minerVars>>
    BY <1>2 DEF Transfer
  <2>2. CallsIn(calls', S)
    BY <2>1 DEF Carried
  <2> QED
    BY <1>1, <2>1, <2>2, SameCarried DEF walletVars, minerVars
<1>3. CASE CheckFunds(n)
  <2>1. CASE EndProcess(n)
    BY <2>1, EndIn
  <2>2. CASE UNCHANGED <<netVars, calls, block, chainVars, walletVars, minerVars>>
    <3>1. CallsIn(calls', S)
      BY <2>2 DEF Carried
    <3> QED
      BY <1>1, <2>2, <3>1, SameCarried DEF walletVars, minerVars
  <2> QED
    BY <1>3, <2>1, <2>2 DEF CheckFunds
<1>4. CASE PostTransaction(n)
  <2>1. PICK receivers \in Reach(n) :
          calls' = H!Broadcast(calls, receivers, H!POST_TRANSACTION(user[n].tx))
    BY <1>4 DEF PostTransaction
  <2>2. H!POST_TRANSACTION(user[n].tx).tx \in S
    BY <1>4 DEF H!POST_TRANSACTION
  <2>3. CallsIn(calls', S)
    BY <2>1, <2>2, BroadcastIn DEF Carried
  <2>4. /\ UNCHANGED <<block, CurrentBlock, Transactions>>
        /\ PendingOutgoingTransactions' =
             [PendingOutgoingTransactions EXCEPT ![n] = @ \cup {user[n].tx}]
    BY <1>4 DEF PostTransaction, minerVars
  <2> QED
    BY <1>4, <2>3, <2>4, SameCarried, <1>1
<1>5. CASE AddTransaction(n)
  <2>1. /\ UNCHANGED <<calls, block, CurrentBlock, PendingOutgoingTransactions>>
        /\ Transactions' = [Transactions EXCEPT ![n] = @ \cup {user[n].tx}]
    BY <1>5 DEF AddTransaction, walletVars
  <2>2. CallsIn(calls', S)
    BY <2>1 DEF Carried
  <2> QED
    BY <1>1, <1>5, <2>1, <2>2, SameCarried
<1>6. CASE ResendPendingTransactions(n)
  <2> DEFINE pending == PendingOutgoingTransactions[n]
  <2>1. PICK receivers \in [pending -> Reach(n)] :
          calls' = [k \in Node |->
             H!AddAll(calls[k], {H!POST_TRANSACTION(tx) :
                                   tx \in {t \in pending : k \in receivers[t]}})]
    BY <1>6 DEF ResendPendingTransactions
  <2>2. \A tx \in pending : tx \in S /\ H!POST_TRANSACTION(tx).tx = tx
    BY DEF Carried, H!POST_TRANSACTION
  <2> HIDE DEF pending
  <2>3. ASSUME NEW k \in Node
        PROVE  \E cs : /\ calls'[k] = H!AddAll(calls[k], cs)
                       /\ \A c \in cs : c.tx \in S
    <3> DEFINE cs == {H!POST_TRANSACTION(tx) : tx \in {t \in pending : k \in receivers[t]}}
    <3>1. calls'[k] = H!AddAll(calls[k], cs)
      BY <2>1
    <3>2. \A c \in cs : c.tx \in S
      BY <2>2
    <3> HIDE DEF cs
    <3> QED
      BY <3>1, <3>2
  <2>4. DOMAIN calls' = Node
    BY <2>1
  <2>5. CallsIn(calls', S)
    <3>1. CallsIn(calls, S)
      BY DEF Carried
    <3>2. ASSUME NEW k \in Node
          PROVE  \E cs : /\ calls'[k] = H!AddAll(calls[k], cs)
                         /\ \A c \in cs : c.op = "POST_TRANSACTION" => c.tx \in S
      BY <2>3
    <3> QED
      BY <2>4, <3>1, <3>2, AddAllIn
  <2>6. UNCHANGED <<block, CurrentBlock, PendingOutgoingTransactions, Transactions>>
    BY <1>6 DEF ResendPendingTransactions, walletVars, minerVars
  <2> QED
    BY <1>1, <2>5, <2>6, SameCarried
<1> QED
  BY <1>1, <1>2, <1>3, <1>4, <1>5, <1>6 DEF User

\* What is handled was in calls, and what is sent then is about blocks.
LEMMA HandlersIn ==
  ASSUME ForestInv, NEW S, S \subseteq L!WellFormed, Carried(S), LedgersOK,
         NEW n \in Node,
         HandleBlock(n) \/ HandleRequest(n) \/ HandleTransaction(n) \/ Mine(n)
  PROVE  Carried(S)' /\ LedgersOK'
<1>1. ASSUME NEW c
      PROVE  CallsIn(H!Finish(calls, n, c), S)
  BY FinishIn DEF Carried
<1>2. CASE HandleBlock(n)
  <2>1. PICK b \in DOMAIN block : ReceiveBlock(n, b)
    BY <1>2 DEF HandleBlock
  <2>2. CASE H!IgnoreBlock(n, b) /\ UNCHANGED minerVars
    <3>1. CallsIn(calls', S)
      BY <1>1, <2>2 DEF H!IgnoreBlock
    <3> QED
      BY <2>2, <3>1, SameCarried, SameLedgers
         DEF H!IgnoreBlock, H!chainVars, H!walletVars, minerVars
  <2>3. CASE (\E receivers \in Reach(n) : H!StickBlock(n, b, receivers)) /\ UNCHANGED minerVars
    <3>1. PICK receivers \in Reach(n) : H!StickBlock(n, b, receivers)
      BY <2>3
    <3>2. CallsIn(calls', S)
      <4> DEFINE rest    == H!Finish(calls, n, H!PROOF_FOUND(b))
                 request == H!MISSING_BLOCK(n, block[b].prev)
      <4>1. calls' = rest \/ calls' = H!Broadcast(rest, receivers, request)
        BY <3>1 DEF H!StickBlock, H!RequestMissingBlock
      <4>2. request.op # "POST_TRANSACTION" /\ CallsIn(rest, S)
        BY <1>1, BlockCallsCarryNone
      <4> HIDE DEF rest, request
      <4> QED
        BY <4>1, <4>2, BroadcastIn
    <3> QED
      BY <2>3, <3>1, <3>2, SameCarried, SameLedgers
         DEF H!StickBlock, H!walletVars, minerVars
  <2>4. CASE H!AcceptBlock(n, b) /\ UNCHANGED clock /\ H!CutOver(n, b)
    BY <2>4, AcceptIn
  <2> QED
    BY <2>1, <2>2, <2>3, <2>4 DEF ReceiveBlock
<1>3. CASE HandleRequest(n)
  <2>1. PICK from, prev : ProvideMissingBlock(n, from, prev)
    BY <1>3 DEF HandleRequest
  <2>2. CallsIn(calls', S)
    <3> DEFINE rest   == H!Finish(calls, n, H!MISSING_BLOCK(from, prev))
               answer == H!PROOF_FOUND(prev)
    <3>1. calls' = rest \/ calls' = H!Spawn(rest, from, answer)
      BY <2>1 DEF ProvideMissingBlock, H!SendMessage
    <3>2. answer.op # "POST_TRANSACTION" /\ CallsIn(rest, S)
      BY <1>1, BlockCallsCarryNone
    <3> HIDE DEF rest, answer
    <3> QED
      BY <3>1, <3>2, SpawnIn
  <2> QED
    BY <2>1, <2>2, SameCarried, SameLedgers
       DEF ProvideMissingBlock, chainVars, walletVars, minerVars
<1>4. CASE HandleTransaction(n)
  <2>1. PICK c \in DOMAIN calls[n] :
          c.op = "POST_TRANSACTION" /\ H!AddTransactionBytes(n, c.tx)
    BY <1>4 DEF HandleTransaction
  <2>2. c.tx \in S
    BY <2>1 DEF Carried, CallsIn
  <2>3. CallsIn(calls', S)
    BY <1>1, <2>1 DEF H!AddTransactionBytes
  <2>4. /\ UNCHANGED <<block, Blocks, CurrentBlock, PendingOutgoingTransactions>>
        /\ \/ UNCHANGED Transactions
           \/ Transactions' = [Transactions EXCEPT ![n] = @ \cup {c.tx}]
    BY <2>1 DEF H!AddTransactionBytes, H!chainVars, H!walletVars
  <2> QED
    BY <2>2, <2>3, <2>4, SameCarried, SameLedgers
<1>5. CASE Mine(n)
  <2>1. PICK receivers \in Reach(n) : \/ H!FindProof(n, receivers)
                                      \/ H!FindProofAgain(n, receivers)
    BY <1>5 DEF Mine
  <2>2. CASE H!FindProof(n, receivers)
    BY <2>2, FindProofIn
  <2>3. CASE H!FindProofAgain(n, receivers)
    <3>1. CallsIn(calls', S)
      BY <2>3, AnnounceIn DEF H!FindProofAgain, Carried
    <3> QED
      BY <2>3, <3>1, SameCarried, SameLedgers
         DEF H!FindProofAgain, H!chainVars, H!walletVars, H!minerVars
  <2> QED
    BY <2>1, <2>2, <2>3
<1> QED
  BY <1>2, <1>3, <1>4, <1>5

-----------------------------------------------------------------------------
(* What has been sent stays so. *)

\* No block goes away, and but for StartProcess none gets a sibling root.
LEMMA BlocksPersist ==
  ASSUME ForestInv, [Next]_vars
  PROVE  /\ \A b \in DOMAIN block : b \in DOMAIN block' /\ block'[b] = block[b]
         /\ \A n \in Node : StartProcess(n) =>
              \E k \in Nat : /\ <<n, k>> \notin DOMAIN block
                             /\ <<n, k>> \in DOMAIN block'
                             /\ block'[<<n, k>>].len = 0
<1>1. ASSUME NEW n \in Node, NEW receivers, H!FindProof(n, receivers)
      PROVE  \A b \in DOMAIN block : b \in DOMAIN block' /\ block'[b] = block[b]
  BY <1>1 DEF H!FindProof, H!With, ForestInv, Domains, IdsAreUsedOnce
<1>2. ASSUME NEW n \in Node, StartProcess(n)
      PROVE  /\ \A b \in DOMAIN block : b \in DOMAIN block' /\ block'[b] = block[b]
             /\ clock[n] \in Nat /\ <<n, clock[n]>> \notin DOMAIN block
             /\ <<n, clock[n]>> \in DOMAIN block' /\ block'[<<n, clock[n]>>].len = 0
  BY <1>2 DEF StartProcess, OwnGenesis, H!With, H!GenesisHeader, ForestInv, Domains,
              IdsAreUsedOnce
<1>3. ASSUME NEW n \in Node, NEW b \in DOMAIN block, H!AcceptBlock(n, b)
      PROVE  block' = block
  BY <1>3 DEF H!AcceptBlock
<1> QED
  BY <1>1, <1>2, <1>3, ChainSteps

LEMMA RootsPersist ==
  ASSUME ForestInv, RootsOK, [Next]_vars
  PROVE  RootsOK'
  BY BlocksPersist DEF RootsOK, H!IsGenesisBlock

\* Once a second process of n was started it is not the only one again.
LEMMA OnlyBefore ==
  ASSUME ForestInv, RootsOK, [Next]_vars, NEW n \in Node, OnlyProcess(n)'
  PROVE  OnlyProcess(n) /\ ~ StartProcess(n)
<1>1. \A b \in DOMAIN block' : block'[b].len = 0 /\ b[1] = n => b = <<n, 0>>
  BY DEF OnlyProcess, Processes, H!IsGenesisBlock, OwnGenesis
<1>2. /\ <<n, 0>> \in DOMAIN block /\ block[<<n, 0>>].len = 0
      /\ \A b \in DOMAIN block : block[b].len = 0 /\ b[1] = n => b = <<n, 0>>
  BY <1>1, BlocksPersist DEF RootsOK, H!IsGenesisBlock
<1>3. OnlyProcess(n)
  <2>1. Processes(n) = {b \in DOMAIN block : block[b].len = 0 /\ b[1] = n}
    BY DEF Processes, H!IsGenesisBlock
  <2> QED
    BY ONLY <1>2, <2>1, n \in Node DEF OnlyProcess, OwnGenesis
<1>4. ~ StartProcess(n)
  <2> SUFFICES ASSUME StartProcess(n) PROVE FALSE
    OBVIOUS
  <2>1. PICK k \in Nat : /\ <<n, k>> \notin DOMAIN block
                         /\ <<n, k>> \in DOMAIN block' /\ block'[<<n, k>>].len = 0
    BY BlocksPersist
  <2>2. <<n, k>> = <<n, 0>>
    BY <1>1, <2>1
  <2> QED
    BY <1>2, <2>1, <2>2
<1> QED
  BY <1>3, <1>4

\* A payment counts the nonce by one, without wrapping around; nothing but a
\* new process resets it.
LEMMA NonceSteps ==
  ASSUME UsersOK, [Next]_vars
  PROVE  /\ DOMAIN Nonce' = Node
         /\ \A n \in Node :
              /\ Nonce'[n] \in Nat
              /\ ~ StartProcess(n) => Nonce[n] <= Nonce'[n]
              /\ PostTransaction(n) => Nonce'[n] = Nonce[n] + 1
              /\ ~ StartProcess(n) /\ ~ PostTransaction(n) => Nonce'[n] = Nonce[n]
<1>1. \/ UNCHANGED Nonce
      \/ \E n \in Node : PostTransaction(n) \/ StartProcess(n)
  <2>1. ASSUME NEW n \in Node,
               \/ Exit(n) \/ HandleRequest(n) \/ HandleTransaction(n)
               \/ \E p \in Node : Meet(n, p)
        PROVE  UNCHANGED Nonce
    BY <2>1
       DEF Exit, EndProcess, HandleRequest, ProvideMissingBlock, Meet,
           HandleTransaction, H!AddTransactionBytes, walletVars, H!walletVars
  <2>2. ASSUME NEW n \in Node, HandleBlock(n)
        PROVE  UNCHANGED Nonce
    BY <2>2 DEF HandleBlock, ReceiveBlock, H!IgnoreBlock, H!StickBlock, H!AcceptBlock,
                H!walletVars
  <2>3. ASSUME NEW n \in Node, User(n), ~ PostTransaction(n)
        PROVE  UNCHANGED Nonce
    BY <2>3
       DEF User, Transfer, CheckFunds, EndProcess, AddTransaction,
           ResendPendingTransactions, walletVars
  <2>4. ASSUME NEW n \in Node, Mine(n)
        PROVE  UNCHANGED Nonce
    BY <2>4 DEF Mine, H!FindProof, H!FindProofAgain, H!walletVars
  <2>5. CASE UNCHANGED vars
    BY <2>5 DEF vars, walletVars
  <2> QED
    BY <2>1, <2>2, <2>3, <2>4, <2>5 DEF Next
<1>2. ASSUME NEW n \in Node, PostTransaction(n)
      PROVE  /\ Nonce[n] \in Nat
             /\ Nonce' = [Nonce EXCEPT ![n] = Nonce[n] + 1]
  <2>1. Nonce[n] \in Nat /\ Nonce[n] < MaxNonce
    <3>1. user[n].step = "post"
      BY <1>2 DEF PostTransaction
    <3>2. PICK tx \in L!WellFormed, step \in {"check", "post", "add"} :
            /\ user[n] = [step |-> step, tx |-> tx]
            /\ tx.nonce < MaxNonce
            /\ step # "add" => tx.nonce = Nonce[n]
      BY <3>1 DEF UsersOK, UserOK, Menu
    <3>3. step = "post" /\ Nonce[n] \in Nat
      BY <3>1, <3>2 DEF UsersOK
    <3> QED
      BY <3>2, <3>3
  <2>2. H!Uint(Nonce[n] + 1) = Nonce[n] + 1
    <3>1. Nonce[n] + 1 \in Int /\ Nonce[n] + 1 \in 0 .. UintRange - 1
      BY <2>1, TcpPaymentAssumption, TcpMinerAssumption
    <3>2. L!Uint(Nonce[n] + 1) = Nonce[n] + 1
      BY <3>1, LedgerInstance, L!UintIsAmount DEF L!Amount
    <3> QED
      BY ONLY <3>2 DEF L!Uint, H!Uint
  <2> QED
    BY <1>2, <2>1, <2>2 DEF PostTransaction, Counted
<1>3. ASSUME NEW n \in Node, StartProcess(n)
      PROVE  Nonce' = [Nonce EXCEPT ![n] = 0]
  BY <1>3 DEF StartProcess
<1>4. DOMAIN Nonce = Node /\ \A n \in Node : Nonce[n] \in Nat
  BY DEF UsersOK
<1>5. ASSUME NEW n \in Node, NEW k \in Node, PostTransaction(n), StartProcess(k)
      PROVE  FALSE
  BY <1>5 DEF PostTransaction, StartProcess, netVars
<1>6. CASE UNCHANGED Nonce
  <2>1. ASSUME NEW n \in Node
        PROVE  ~ PostTransaction(n)
    <3>1. ASSUME PostTransaction(n) PROVE FALSE
      <4>1. Nonce[n] \in Nat /\ Nonce'[n] = Nonce[n] + 1
        BY <1>2, <1>4, <3>1
      <4> QED
        BY <1>6, <4>1
    <3> QED
      BY <3>1
  <2> QED
    BY <1>4, <1>6, <2>1
<1>7. ASSUME NEW k \in Node, PostTransaction(k)
      PROVE  /\ Nonce' = [Nonce EXCEPT ![k] = Nonce[k] + 1]
             /\ \A n \in Node : PostTransaction(n) => n = k
  <2>1. Nonce' = [Nonce EXCEPT ![k] = Nonce[k] + 1]
    BY <1>2, <1>7
  <2>2. ASSUME NEW n \in Node, PostTransaction(n), n # k
        PROVE  FALSE
    <3>1. Nonce[n] \in Nat /\ Nonce'[n] = Nonce[n] + 1
      BY <1>2, <1>4, <2>2
    <3> QED
      BY <1>4, <2>1, <2>2, <3>1
  <2> QED
    BY <2>1, <2>2
<1>8. CASE \E k \in Node : PostTransaction(k)
  BY <1>4, <1>5, <1>7, <1>8
<1>9. ASSUME NEW k \in Node, StartProcess(k)
      PROVE  \A n \in Node : StartProcess(n) => n = k
  BY <1>9 DEF StartProcess
<1>10. CASE \E k \in Node : StartProcess(k)
  BY <1>3, <1>4, <1>5, <1>9, <1>10
<1> QED
  BY <1>1, <1>6, <1>8, <1>10

LEMMA SentGrows ==
  ASSUME ForestInv, RootsOK, UsersOK, [Next]_vars
  PROVE  Sent \subseteq Sent'
<1> SUFFICES ASSUME NEW tx \in Sent, OnlyProcess(tx.from)'
             PROVE  tx.nonce < Nonce'[tx.from]
  BY DEF Sent, Fresh
<1>1. tx.from \in Node /\ tx.nonce \in Nat /\ Fresh(tx)
  BY DEF Sent, L!WellFormed
<1>2. OnlyProcess(tx.from) /\ ~ StartProcess(tx.from)
  BY <1>1, OnlyBefore
<1>3. /\ tx.nonce < Nonce[tx.from] /\ Nonce[tx.from] \in Nat
      /\ Nonce[tx.from] <= Nonce'[tx.from] /\ Nonce'[tx.from] \in Nat
  BY <1>1, <1>2, NonceSteps DEF Fresh, UsersOK
<1> QED
  BY <1>1, <1>3

\* What the menus' threads work on stays well-formed, and comes to be sent.
LEMMA UsersStep ==
  ASSUME ForestInv, RootsOK, UsersOK, [Next]_vars
  PROVE  UsersOK'
<1>1. Sent \subseteq Sent'
  BY SentGrows
<1>2. DOMAIN Nonce' = Node /\ \A n \in Node : Nonce'[n] \in Nat
  BY NonceSteps
<1>3. ASSUME NEW n \in Node, Exit(n) \/ EndProcess(n)
      PROVE  UsersOK'
  <2>1. EndProcess(n)
    BY <1>3 DEF Exit
  <2>2. /\ DOMAIN user' = Node /\ user'[n] = Menu
        /\ \A k \in Node \ {n} : user'[k] = user[k] /\ (k \in up => k \in up')
        /\ Nonce' = Nonce /\ up' = up \ {n}
    BY <2>1 DEF EndProcess, walletVars, UsersOK
  <2> QED
    BY <1>1, <1>2, <2>2 DEF UsersOK, UserOK
<1>4. ASSUME NEW n \in Node, StartProcess(n)
      PROVE  UsersOK'
  <2>1. /\ user' = user /\ n \notin up /\ up' = up \cup {n}
        /\ \A k \in Node \ {n} : Nonce'[k] = Nonce[k]
    BY <1>4 DEF StartProcess, UsersOK
  <2>2. user'[n] = Menu
    BY <2>1 DEF UsersOK, UserOK
  <2> QED
    BY <1>1, <1>2, <2>1, <2>2 DEF UsersOK, UserOK
<1>5. ASSUME NEW n \in Node, PostTransaction(n)
      PROVE  UsersOK'
  <2>1. /\ DOMAIN user' = Node /\ user'[n] = [user[n] EXCEPT !.step = "add"]
        /\ \A k \in Node \ {n} : user'[k] = user[k] /\ Nonce'[k] = Nonce[k]
        /\ up' = up
    BY <1>5 DEF PostTransaction, Goes, netVars, UsersOK
  <2>2. PICK tx \in L!WellFormed, step \in {"check", "post", "add"} :
          /\ n \in up
          /\ user[n] = [step |-> step, tx |-> tx]
          /\ tx.from = n /\ tx.nonce < MaxNonce /\ IsPayment(tx)
          /\ step # "add" => tx.nonce = Nonce[n]
    <3>1. user[n].step = "post"
      BY <1>5 DEF PostTransaction
    <3> QED
      BY <3>1 DEF UsersOK, UserOK, Menu
  <2>3. step = "post" /\ tx.nonce = Nonce[n] /\ Nonce[n] \in Nat
    BY <1>5, <2>2 DEF PostTransaction, UsersOK
  <2>4. Nonce'[n] = Nonce[n] + 1
    BY <1>5, NonceSteps
  <2>5. tx \in Sent'
    BY <2>2, <2>3, <2>4 DEF Sent, Fresh
  <2>6. user'[n] = [step |-> "add", tx |-> tx]
    BY ONLY <2>1, <2>2
  <2>7. UserOK(n)'
    BY <2>1, <2>2, <2>5, <2>6 DEF UserOK
  <2>8. ASSUME NEW k \in Node, k # n
        PROVE  UserOK(k)'
    BY <1>1, <2>1, <2>8 DEF UsersOK, UserOK
  <2> QED
    BY <1>2, <2>1, <2>7, <2>8 DEF UsersOK
<1>6. ASSUME NEW n \in Node, user' = [user EXCEPT ![n] = user'[n]], UserOK(n)',
             UNCHANGED <<up, Nonce>>
      PROVE  UsersOK'
  BY <1>1, <1>2, <1>6 DEF UsersOK, UserOK
<1>7. ASSUME NEW n \in Node, Transfer(n)
      PROVE  UsersOK'
  <2>1. PICK payment \in Payment :
          /\ payment.from = n
          /\ Goes(n, [step |-> "check", tx |-> H!NewTransaction(n, payment)])
    BY <1>7 DEF Transfer
  <2>2. /\ n \in up /\ UNCHANGED <<up, Nonce>>
        /\ Nonce[n] < MaxNonce /\ Nonce[n] \in Nat
    BY <1>7 DEF Transfer, AtMenu, netVars, walletVars, UsersOK
  <2>3. H!NewTransaction(n, payment) \in L!WellFormed
    BY <2>1, <2>2, TcpPaymentAssumption, TcpMinerAssumption
       DEF H!NewTransaction, L!WellFormed, L!Amount, L!Output
  <2>4. /\ H!NewTransaction(n, payment).from = n
        /\ H!NewTransaction(n, payment).nonce = Nonce[n]
        /\ IsPayment(H!NewTransaction(n, payment))
    BY <2>1 DEF H!NewTransaction, IsPayment
  <2> DEFINE tx == H!NewTransaction(n, payment)
  <2>5. user'[n] = [step |-> "check", tx |-> tx] /\ user' = [user EXCEPT ![n] = user'[n]]
    BY <2>1 DEF Goes, UsersOK
  <2> HIDE DEF tx
  <2>6. UserOK(n)'
    BY <2>2, <2>3, <2>4, <2>5 DEF UserOK, tx
  <2> QED
    BY <1>6, <2>2, <2>5, <2>6
<1>8. ASSUME NEW n \in Node, CheckFunds(n), ~ EndProcess(n)
      PROVE  UsersOK'
  <2>1. /\ user[n].step = "check" /\ Goes(n, [user[n] EXCEPT !.step = "post"])
        /\ UNCHANGED <<up, Nonce>>
    BY <1>8 DEF CheckFunds, netVars, walletVars
  <2>2. PICK tx \in L!WellFormed, step \in {"check", "post", "add"} :
          /\ n \in up
          /\ user[n] = [step |-> step, tx |-> tx]
          /\ tx.from = n /\ tx.nonce < MaxNonce /\ IsPayment(tx)
          /\ step # "add" => tx.nonce = Nonce[n]
    BY <2>1 DEF UsersOK, UserOK, Menu
  <2>3. step = "check" /\ tx.nonce = Nonce[n]
    BY <2>1, <2>2
  <2>4. user'[n] = [step |-> "post", tx |-> tx] /\ user' = [user EXCEPT ![n] = user'[n]]
    BY <2>1, <2>2 DEF Goes, UsersOK
  <2>5. UserOK(n)'
    BY <2>1, <2>2, <2>3, <2>4 DEF UserOK
  <2> QED
    BY <1>6, <2>1, <2>4, <2>5
<1>9. ASSUME NEW n \in Node, AddTransaction(n)
      PROVE  UsersOK'
  <2>1. /\ user' = [user EXCEPT ![n] = user'[n]] /\ user'[n] = Menu
        /\ UNCHANGED <<up, Nonce>>
    BY <1>9 DEF AddTransaction, Goes, netVars, walletVars, UsersOK
  <2> QED
    BY <1>6, <2>1 DEF UserOK
<1>10. CASE UNCHANGED <<up, Nonce, user>>
  BY <1>1, <1>2, <1>10 DEF UsersOK, UserOK
<1>11. ASSUME NEW n \in Node,
              \/ ResendPendingTransactions(n) \/ HandleRequest(n)
              \/ HandleTransaction(n) \/ \E p \in Node : Meet(n, p)
       PROVE  UNCHANGED <<up, Nonce, user>>
  BY <1>11
     DEF ResendPendingTransactions, HandleRequest, ProvideMissingBlock, Meet,
         HandleTransaction, H!AddTransactionBytes, walletVars, H!walletVars, netVars
<1>12. ASSUME NEW n \in Node, HandleBlock(n) \/ Mine(n)
       PROVE  UNCHANGED <<up, Nonce, user>>
  BY <1>12
     DEF HandleBlock, ReceiveBlock, H!IgnoreBlock, H!StickBlock, H!AcceptBlock,
         Mine, H!FindProof, H!FindProofAgain, H!walletVars, netVars
<1>13. CASE UNCHANGED vars
  BY <1>10, <1>13 DEF vars, netVars, walletVars
<1> QED
  BY <1>3, <1>4, <1>5, <1>7, <1>8, <1>9, <1>10, <1>11, <1>12, <1>13 DEF Next, User

LEMMA CarriedGrows ==
  ASSUME NEW S, Carried(S), NEW T, S \subseteq T
  PROVE  Carried(T)
<1>1. Seq(S) \subseteq Seq(T)
  BY LedgerInstance, L!SeqMonotonic
<1> QED
  BY <1>1 DEF Carried, CallsIn

\* What is carried stays in S, when the menus' threads post nothing else.
LEMMA CarriedStep ==
  ASSUME ForestInv, NEW S, S \subseteq L!WellFormed, Carried(S), LedgersOK, [Next]_vars,
         \A n \in Node : PostTransaction(n) \/ AddTransaction(n) => user[n].tx \in S
  PROVE  Carried(S)' /\ LedgersOK'
<1>1. ASSUME NEW n \in Node, Exit(n)
      PROVE  Carried(S)' /\ LedgersOK'
  BY <1>1, EndIn DEF Exit
<1>2. ASSUME NEW n \in Node, NEW p \in Node, Meet(n, p)
      PROVE  Carried(S)' /\ LedgersOK'
  <2>1. CallsIn(calls', S)
    BY <1>2 DEF Meet, Carried
  <2> QED
    BY <1>2, <2>1, SameCarried, SameLedgers
       DEF Meet, chainVars, walletVars, minerVars
<1>3. CASE UNCHANGED vars
  <2>1. CallsIn(calls', S)
    BY <1>3 DEF vars, Carried
  <2> QED
    BY <1>3, <2>1, SameCarried, SameLedgers
       DEF vars, chainVars, walletVars, minerVars
<1> QED
  BY <1>1, <1>2, <1>3, StartIn, UserIn, HandlersIn DEF Next

\* What the thread of n's menu is about to post or has posted.
LEMMA UsersTransaction ==
  ASSUME UsersOK, NEW n \in Node, user[n].step \in {"check", "post", "add"}
  PROVE  LET tx == user[n].tx
         IN  /\ tx \in L!WellFormed /\ tx.from = n /\ tx.nonce < MaxNonce /\ IsPayment(tx)
             /\ user[n] = [step |-> user[n].step, tx |-> tx] /\ n \in up
             /\ user[n].step # "add" => tx.nonce = Nonce[n]
             /\ user[n].step = "add" => tx \in Sent
<1>1. PICK tx \in L!WellFormed, step \in {"check", "post", "add"} :
        /\ n \in up
        /\ user[n] = [step |-> step, tx |-> tx]
        /\ tx.from = n /\ tx.nonce < MaxNonce /\ IsPayment(tx)
        /\ step # "add" => tx.nonce = Nonce[n]
        /\ step = "add" => tx \in Sent
  BY DEF UsersOK, UserOK, Menu
<1>2. user[n].tx = tx /\ user[n].step = step
  BY <1>1
<1> QED
  BY <1>1, <1>2

LEMMA PostedIsSent ==
  ASSUME ForestInv, RootsOK, UsersOK, [Next]_vars, NEW n \in Node,
         PostTransaction(n) \/ AddTransaction(n)
  PROVE  user[n].tx \in Sent'
<1> DEFINE tx == user[n].tx
<1>1. CASE PostTransaction(n)
  <2>1. user[n].step = "post"
    BY <1>1 DEF PostTransaction
  <2>2. /\ tx \in L!WellFormed /\ tx.from = n /\ tx.nonce < MaxNonce /\ IsPayment(tx)
        /\ tx.nonce = Nonce[n]
    BY <2>1, UsersTransaction
  <2>3. Nonce[n] \in Nat /\ Nonce'[n] = Nonce[n] + 1
    BY <1>1, NonceSteps DEF UsersOK
  <2> HIDE DEF tx
  <2>4. tx \in Sent'
    BY <2>2, <2>3 DEF Sent, Fresh
  <2> QED
    BY <2>4 DEF tx
<1>2. CASE AddTransaction(n)
  <2>1. user[n].step = "add"
    BY <1>2 DEF AddTransaction
  <2> QED
    BY <2>1, UsersTransaction, SentGrows
<1> QED
  BY <1>1, <1>2

LEMMA NextSent ==
  ASSUME ForestInv, SentInv, [Next]_vars
  PROVE  SentInv'
<1>1. RootsOK' /\ UsersOK' /\ Sent \subseteq Sent'
  BY RootsPersist, UsersStep, SentGrows DEF SentInv
<1>2. PICK S : S = Sent'
  OBVIOUS
<1>3. S \subseteq L!WellFormed
  BY <1>2 DEF Sent
<1>4. Carried(S)
  BY <1>1, <1>2, CarriedGrows DEF SentInv
<1>5. \A n \in Node : PostTransaction(n) \/ AddTransaction(n) => user[n].tx \in S
  BY <1>2, PostedIsSent DEF SentInv
<1>6. Carried(S)' /\ LedgersOK'
  BY <1>3, <1>4, <1>5, CarriedStep DEF SentInv
<1>7. Carried(Sent)'
  BY <1>2, <1>6 DEF Carried
<1> QED
  BY <1>1, <1>6, <1>7 DEF SentInv

\* What is sent with the key of a first process is what its wallet counted,
\* wherever it waits, in a pool, a search or a block.
THEOREM SentInvariant == Spec => []SentInv
<1>1. Init => ForestInv /\ SentInv
  BY InitForest, InitSent
<1>2. ForestInv /\ SentInv /\ [Next]_vars => (ForestInv /\ SentInv)'
  BY NextForest, NextSent
<1> QED
  BY <1>1, <1>2, PTL DEF Spec

LEMMA ForestIsReplayFree ==
  ASSUME ForestInv, SentInv
  PROVE  \A n \in Node : \A b \in DOMAIN Blocks[n] : \A a \in Node :
           L!ReplayFree(block, Blocks[n], H!Chain(block[b]), b, a)
<1> SUFFICES ASSUME NEW n \in Node
             PROVE  \A b \in DOMAIN Blocks[n] : \A a \in Node :
                      L!ReplayFree(block, Blocks[n], H!Chain(block[b]), b, a)
  OBVIOUS
<1>1. \A b \in DOMAIN block : H!Chain(block[b]) = L!ChainOf(block[b])
  BY DEF H!Chain, L!ChainOf
<1>2. ASSUME NEW b \in DOMAIN Blocks[n]
      PROVE  L!ReplayedOK(block, Blocks[n], Sent, b)
  <2>1. /\ b \in DOMAIN block /\ block[b].id = b /\ block[b].len \in Nat
        /\ block[b].txs \in Seq(Sent) /\ Blocks[n][b] \in L!LedgerType
    BY DEF ForestInv, ForestOK, KnownOK, SentInv, Carried, LedgersOK
  <2>2. CASE H!IsGenesisBlock(b)
    <3>1. block[b].txs = <<>> /\ Blocks[n][b] = H!GenesisLedger /\ block[b].len = 0
      BY <2>1, <2>2 DEF ForestInv, ForestOK, KnownOK, H!GenesisHeader, H!IsGenesisBlock
    <3>2. \A a \in Address : Blocks[n][b].nextNonce[a] = 0
      BY <3>1 DEF H!GenesisLedger
    <3> QED
      BY <2>1, <3>1, <3>2 DEF L!ReplayedOK
  <2>3. CASE ~ H!IsGenesisBlock(b)
    <3> DEFINE p == block[b].prev
    <3>1. /\ p \in DOMAIN Blocks[n] /\ p \in DOMAIN block
          /\ block[b].len # 0 /\ block[b].len = block[p].len + 1
          /\ block[b].chain = H!Chain(block[p])
          /\ Blocks[n][b] = H!LedgerAfter(block[p], Blocks[n][p], block[b].txs)
          /\ H!RerunSucceeds(block[p], Blocks[n][p], block[b].txs)
      BY <2>1, <2>3 DEF ForestInv, ForestOK, KnownOK, SentInv, LedgersOK, H!IsGenesisBlock
    <3>2. /\ block[b].chain = L!ChainOf(block[p])
          /\ Blocks[n][b] = L!LedgerAfter(block[p], Blocks[n][p], block[b].txs)
          /\ L!RerunSucceeds(block[p], Blocks[n][p], block[b].txs)
      BY <1>1, <3>1, SameRerun
    <3> QED
      BY <2>1, <3>1, <3>2 DEF L!ReplayedOK
  <2> QED
    BY <2>2, <2>3
<1>3. \A b \in DOMAIN Blocks[n] : \A a \in Address :
        L!ReplayFree(block, Blocks[n], L!ChainOf(block[b]), b, a)
  BY <1>2, SentIsWellFormed, LedgerInstance, L!ReplayedIsReplayFree
<1>4. DOMAIN Blocks[n] \subseteq DOMAIN block /\ Node \subseteq Address
  BY TcpMinerAssumption DEF ForestInv, KnownOK
<1> QED
  BY <1>1, <1>3, <1>4

\* A transaction is executed once on any chain, in the order of the nonces,
\* also when a chain is joined whose genesis block another process made, and
\* when a restarted wallet posts a nonce again.
THEOREM TcpNothingIsReplayed == Spec => []NoReplay
<1>1. ForestInv /\ SentInv => NoReplay
  BY ForestIsReplayFree DEF NoReplay, H!NoReplay, L!ReplayFree
<1> QED
  BY <1>1, ForestInvariant, SentInvariant, PTL

LEMMA ConfirmedKnown ==
  ASSUME ForestInv, NEW n \in Node
  PROVE  LET old == LastConfirmedBlock[n]
             len == block[LastBlock[n]].len
         IN  /\ old \in DOMAIN Blocks[n] /\ old \in DOMAIN block /\ block[old].id = old
             /\ len \in Nat
             /\ block[old].len = IF len > CONFIRMED_DEPTH THEN len - CONFIRMED_DEPTH ELSE 0
<1> DEFINE head == LastBlock[n]
           len  == block[head].len
           low  == IF len > CONFIRMED_DEPTH THEN len - CONFIRMED_DEPTH ELSE 0
           old  == LastConfirmedBlock[n]
<1>1. head \in DOMAIN Blocks[n] /\ head \in DOMAIN block /\ len \in Nat
      /\ CONFIRMED_DEPTH \in Nat \ {0}
  BY TcpMinerAssumption DEF ForestInv, ForestOK, KnownOK, HeadOK
<1>2. old \in DOMAIN Blocks[n] /\ block[old].len = low
  <2>1. CASE len = 0
    <3>1. old = head /\ low = 0
      BY <1>1, <2>1 DEF ForestInv, HeadOK, H!IsGenesisBlock
    <3> QED
      BY <1>1, <2>1, <3>1
  <2>2. CASE len # 0
    <3>1. old = block[head].chain[low] /\ low \in 0 .. len - 1
      BY <1>1, <2>2 DEF ForestInv, HeadOK, H!IsGenesisBlock, H!ConfirmedAncestor
    <3>2. \A h \in 0 .. len - 1 : /\ block[head].chain[h] \in DOMAIN Blocks[n]
                                 /\ block[block[head].chain[h]].len = h
      BY <1>1 DEF ForestInv, AncestorsKnown, HeightsOK
    <3> HIDE DEF head, len, low, old
    <3> QED
      BY ONLY <3>1, <3>2
  <2> QED
    BY <2>1, <2>2
<1>3. old \in DOMAIN block /\ block[old].id = old
  BY <1>2 DEF ForestInv, ForestOK, KnownOK
<1> QED
  BY <1>1, <1>2, <1>3

\* The wallet of the first process with a key is never behind the chain it
\* follows: each nonce the confirmed chain has used is that of a transaction
\* on it, which was sent.
THEOREM TcpNonceIsFresh == Spec => []NonceIsFresh
<1>1. ForestInv /\ SentInv => NonceIsFresh
  <2> SUFFICES ASSUME ForestInv, SentInv, NEW n \in Node, OnlyProcess(n)
               PROVE  Blocks[n][LastConfirmedBlock[n]].nextNonce[n] <= Nonce[n]
    BY DEF NonceIsFresh, SentInv, UsersOK
  <2> DEFINE b    == LastConfirmedBlock[n]
             next == Blocks[n][b].nextNonce[n]
  <2>1. b \in DOMAIN Blocks[n]
    BY ConfirmedKnown
  <2>2. /\ b \in DOMAIN block /\ block[b].len \in Nat
        /\ next \in Nat /\ Nonce[n] \in Nat
    <3>1. Blocks[n][b] \in L!LedgerType /\ n \in Address /\ UintRange \in Nat
      BY <2>1, TcpMinerAssumption DEF SentInv, LedgersOK
    <3>2. next \in Nat
      BY <3>1 DEF L!LedgerType, L!Amount
    <3> QED
      BY <2>1, <3>2 DEF ForestInv, ForestOK, KnownOK, SentInv, UsersOK
  <2>3. CASE next # 0
    <3> DEFINE at(h) == H!Chain(block[b])[h]
    <3>1. PICK h \in 0 .. block[b].len : \E i \in DOMAIN block[at(h)].txs :
            block[at(h)].txs[i].from = n /\ block[at(h)].txs[i].nonce = next - 1
      <4>1. L!ReplayFree(block, Blocks[n], H!Chain(block[b]), b, n)
        BY <2>1, ForestIsReplayFree
      <4>2. next - 1 \in 0 .. next - 1
        BY <2>2, <2>3
      <4> QED
        BY <4>1, <4>2 DEF L!ReplayFree
    <3>2. at(h) \in DOMAIN block
      <4>1. at(h) = IF h = block[b].len THEN b ELSE block[b].chain[h]
        BY <2>2 DEF H!Chain, ForestInv, ForestOK
      <4>2. h # block[b].len => h \in 0 .. block[b].len - 1
        BY <2>2
      <4> QED
        BY <2>2, <4>1, <4>2 DEF ForestInv, HeightsOK
    <3> HIDE DEF at
    <3>3. PICK tx \in Sent : tx.from = n /\ tx.nonce = next - 1
      BY <3>1, <3>2 DEF SentInv, Carried
    <3>4. tx.nonce < Nonce[n]
      BY <3>3 DEF Sent, Fresh
    <3> QED
      BY <2>2, <3>3, <3>4
  <2> QED
    BY <2>2, <2>3
<1> QED
  BY <1>1, ForestInvariant, SentInvariant, PTL

-----------------------------------------------------------------------------
(* Honest blocks.  The block a miner fills is the one Rerun computes again, *)
(* as long as no sum of gold wraps around.  Who has the ledger of a block   *)
(* may end and forget it; so HonestInv speaks of one ledger for each block, *)
(* whoever knows it: the one that Rerun gives along its chain.              *)

\* The blocks that were found.
Mined == {b \in DOMAIN block : ~ H!IsGenesisBlock(b)}

MinedInv ==
  /\ L!Finite(Mined)
  /\ L!CardOf(Mined) \in 0 .. MaxBlocks
  /\ \A b \in DOMAIN block : /\ block[b].len <= L!CardOf(Mined)
                             /\ block[b].rewardAddr \in Address \cup {NoAddress}

\* The coins that k blocks create.
Minted(k) == COINBASE_AMT_ALLOWED * k

\* The gold of a block's ledger, with the reward for the block, is no more than
\* its chain created.
HasRoom(header, ledger) ==
  L!TotalOf(ledger.balances) + L!RewardOf(header)
    <= L!TotalOf(StartingBalances) + Minted(header.len)

\* led[b] is the ledger of b, along the forest, at every node that knows b, and
\* under every search.
LedgersAre(led) ==
  /\ \A b \in DOMAIN block :
       LET p == block[b].prev
       IN  /\ led[b] \in L!LedgerType
           /\ HasRoom(block[b], led[b])
           /\ H!IsGenesisBlock(b) => led[b] = H!GenesisLedger
           /\ ~ H!IsGenesisBlock(b) =>
                /\ led[b] = H!LedgerAfter(block[p], led[p], block[b].txs)
                /\ H!RerunSucceeds(block[p], led[p], block[b].txs)
  /\ \A n \in Node :
       LET head == LastBlock[n]
       IN  /\ \A b \in DOMAIN Blocks[n] : Blocks[n][b] = led[b]
           /\ H!Initialized(n) =>
                H!RerunSucceeds(block[head], led[head], CurrentBlock[n].txs)

HonestInv == MinedInv /\ \E led : LedgersAre(led)

LEMMA SameGold ==
  /\ L!TotalOf(StartingBalances) = H!TotalOf(StartingBalances)
  /\ \A tx : L!ExactTotal(tx) = H!ExactTotal(tx)
  BY DEF L!TotalOf, L!ExactTotal, L!SumFunction, L!SumFunctionOnSet,
         L!FoldFunctionOnSet, L!MapThenFoldSet,
         H!TotalOf, H!ExactTotal, H!SumFunction, H!SumFunctionOnSet,
         H!FoldFunctionOnSet, H!MapThenFoldSet

LEMMA SentFits == Sent \subseteq L!WellFormed /\ L!Fits(Sent)
<1>1. ASSUME NEW tx \in Sent
      PROVE  L!ExactTotal(tx) < UintRange
  <2>1. PICK payment \in Payment : tx.fee = payment.fee /\ tx.outputs = payment.outputs
    BY DEF Sent, IsPayment
  <2>2. L!ExactTotal(tx) = L!ExactTotal(payment)
    BY ONLY <2>1 DEF L!ExactTotal
  <2> QED
    BY <2>2, SameGold, TcpGoldAssumption
<1> QED
  BY <1>1 DEF Sent, L!Fits

\* A chain has no more blocks than were found, and their rewards fit.
LEMMA RewardsFit ==
  /\ L!TotalOf(StartingBalances) \in Nat
  /\ Minted(0) = 0
  /\ \A k \in Nat : /\ Minted(k) \in Nat
                    /\ Minted(k + 1) = Minted(k) + COINBASE_AMT_ALLOWED
  /\ \A k \in 0 .. MaxBlocks : L!TotalOf(StartingBalances) + Minted(k) < UintRange
<1> DEFINE start == L!TotalOf(StartingBalances)
<1>1. /\ COINBASE_AMT_ALLOWED \in Nat /\ MaxBlocks \in Nat /\ UintRange \in Nat
      /\ start + Minted(MaxBlocks) < UintRange
  BY TcpMinerAssumption, TcpGoldAssumption, SameGold DEF Minted
<1>2. start \in Nat
  BY LedgerInstance, L!TotalIsSum, TcpMinerAssumption DEF L!Amount
<1>3. \A k \in Nat : Minted(k) \in Nat /\ Minted(k + 1) = Minted(k) + COINBASE_AMT_ALLOWED
  BY <1>1 DEF Minted
<1>4. \A k \in 0 .. MaxBlocks : Minted(k) <= Minted(MaxBlocks)
  BY <1>1 DEF Minted
<1> HIDE DEF start
<1>5. \A k \in 0 .. MaxBlocks : start + Minted(k) < UintRange
  <2> SUFFICES ASSUME NEW k \in 0 .. MaxBlocks PROVE start + Minted(k) < UintRange
    OBVIOUS
  <2>1. /\ Minted(k) \in Nat /\ Minted(MaxBlocks) \in Nat
        /\ Minted(k) <= Minted(MaxBlocks)
    BY <1>1, <1>3, <1>4
  <2> QED
    BY <1>1, <1>2, <2>1
<1>6. Minted(0) = 0
  BY <1>1 DEF Minted
<1> QED
  BY <1>2, <1>3, <1>5, <1>6 DEF start

LEMMA RoomFits ==
  ASSUME ForestInv, MinedInv, NEW b \in DOMAIN block, NEW ledger, HasRoom(block[b], ledger),
         ledger \in L!LedgerType
  PROVE  /\ L!TotalOf(ledger.balances) + L!RewardOf(block[b]) < UintRange
         /\ block[b].rewardAddr \in Address \cup {NoAddress}
         /\ L!TotalOf(ledger.balances) \in Nat /\ L!RewardOf(block[b]) \in Nat
<1>1. block[b].len \in 0 .. MaxBlocks
  <2>1. block[b].len \in Nat /\ block[b].len <= L!CardOf(Mined)
    BY DEF ForestInv, ForestOK, MinedInv
  <2> QED
    BY <2>1, TcpMinerAssumption DEF MinedInv
<1>2. L!TotalOf(StartingBalances) + Minted(block[b].len) < UintRange
  BY <1>1, RewardsFit
<1>3. /\ L!TotalOf(StartingBalances) \in Nat /\ Minted(block[b].len) \in Nat
      /\ UintRange \in Nat
  BY <1>1, RewardsFit, TcpMinerAssumption
<1>4. L!TotalOf(ledger.balances) \in Nat /\ L!RewardOf(block[b]) \in Nat
  <2>1. ledger.balances \in [Address -> L!Amount]
    BY DEF L!LedgerType
  <2> QED
    BY <2>1, LedgerInstance, L!TotalIsSum, TcpMinerAssumption DEF L!RewardOf
<1> QED
  BY <1>2, <1>3, <1>4 DEF HasRoom, MinedInv

\* A search replays on the head it was filled for.
LEMMA FilledIsHonest ==
  ASSUME ForestInv, MinedInv, NEW n \in Node, NEW head \in DOMAIN block,
         NEW ledger \in L!LedgerType, HasRoom(block[head], ledger),
         NEW pool, pool \subseteq Sent, L!Finite(pool),
         H!StartNewSearch(n, head, ledger, pool)
  PROVE  H!RerunSucceeds(block[head], ledger, CurrentBlock'[n].txs)
<1>1. PICK order \in H!SetToSeqs(pool) :
        CurrentBlock' = [CurrentBlock EXCEPT ![n] =
                           H!NewBlock(n, block[head], H!FillBlock(ledger, order).txs)]
  BY DEF H!StartNewSearch
<1>2. CurrentBlock'[n].txs = H!FillBlock(ledger, order).txs
  BY <1>1 DEF H!NewBlock, ForestInv, Domains
<1>3. order \in Seq(Sent)
  BY LedgerInstance, SameOrders, L!OrderIsSequence
<1>4. /\ L!TotalOf(ledger.balances) + L!RewardOf(block[head]) < UintRange
      /\ block[head].rewardAddr \in Address \cup {NoAddress}
  BY RoomFits
<1>5. L!RerunSucceeds(block[head], ledger, L!FillBlock(ledger, order).txs)
  BY <1>3, <1>4, SentFits, LedgerInstance, L!FilledReplays
<1> QED
  BY <1>2, <1>5, SameFill, SameRerun

\* An empty block replays.
LEMMA EmptyReplays ==
  ASSUME NEW parent, NEW ledger \in L!LedgerType
  PROVE  H!RerunSucceeds(parent, ledger, <<>>)
<1>1. L!NewDraft(L!PayReward(ledger, parent)) \in L!DraftType({})
  BY LedgerInstance, L!RewardKeepsType, L!NewDraftType
<1>2. <<>> \in Seq({})
  BY EmptySequence
<1>3. L!Rerun(parent, ledger, <<>>) \in L!DraftType({})
  BY <1>1, <1>2, LedgerInstance, L!EntriesKeepType DEF L!Rerun
<1>4. L!Rerun(parent, ledger, <<>>).txs \in Seq({})
  BY <1>3 DEF L!DraftType
<1>5. \A s \in Seq({}) : s = <<>>
  OBVIOUS
<1> QED
  BY <1>4, <1>5, SameRerun DEF L!RerunSucceeds

LEMMA GenesisHasRoom ==
  ASSUME ForestInv, NEW b \in DOMAIN block, H!IsGenesisBlock(b)
  PROVE  H!GenesisLedger \in L!LedgerType /\ HasRoom(block[b], H!GenesisLedger)
<1>1. H!GenesisLedger \in L!LedgerType
  BY ONLY LedgerInstance DEF L!LedgerAssumption, H!GenesisLedger, L!LedgerType, L!Amount
<1>2. block[b].rewardAddr = NoAddress /\ block[b].len = 0
  BY DEF ForestInv, ForestOK, H!GenesisHeader
<1>3. H!GenesisLedger.balances = StartingBalances
  BY DEF H!GenesisLedger
<1> QED
  BY <1>1, <1>2, <1>3, RewardsFit DEF HasRoom, L!RewardOf

\* A block that replays on its parent leaves room again.
LEMMA ChildHasRoom ==
  ASSUME ForestInv, MinedInv, NEW p \in DOMAIN block, NEW ledger \in L!LedgerType,
         HasRoom(block[p], ledger), NEW txs \in Seq(Sent),
         H!RerunSucceeds(block[p], ledger, txs)
  PROVE  LET child == H!LedgerAfter(block[p], ledger, txs)
         IN  /\ child \in L!LedgerType
             /\ L!TotalOf(child.balances) + COINBASE_AMT_ALLOWED
                  <= L!TotalOf(StartingBalances) + Minted(block[p].len + 1)
             /\ L!TotalOf(child.balances) \in Nat
<1> DEFINE child == H!LedgerAfter(block[p], ledger, txs)
<1>1. /\ L!TotalOf(ledger.balances) + L!RewardOf(block[p]) < UintRange
      /\ block[p].rewardAddr \in Address \cup {NoAddress}
      /\ L!TotalOf(ledger.balances) \in Nat /\ L!RewardOf(block[p]) \in Nat
  BY RoomFits
<1>2. L!RerunSucceeds(block[p], ledger, txs) /\ child = L!LedgerAfter(block[p], ledger, txs)
  BY SameRerun
<1>3. child \in L!LedgerType
  <2>1. txs \in Seq(L!WellFormed)
    BY SentFits, LedgerInstance, L!SeqMonotonic
  <2> QED
    BY <1>2, <2>1, LedgerInstance, L!RerunKeepsType
<1>4. /\ L!TotalOf(child.balances) + L!FeesOf(txs)
           = L!TotalOf(ledger.balances) + L!RewardOf(block[p])
      /\ L!FeesOf(txs) \in Nat
  BY <1>1, <1>2, SentFits, LedgerInstance, L!RerunKeepsGold
<1>5. L!TotalOf(child.balances) \in Nat
  <2>1. child.balances \in [Address -> L!Amount]
    BY <1>3 DEF L!LedgerType
  <2> QED
    BY <2>1, LedgerInstance, L!TotalIsSum
<1>6. /\ block[p].len \in Nat
      /\ Minted(block[p].len) \in Nat
      /\ Minted(block[p].len + 1) = Minted(block[p].len) + COINBASE_AMT_ALLOWED
      /\ L!TotalOf(StartingBalances) \in Nat /\ COINBASE_AMT_ALLOWED \in Nat
  BY RewardsFit, TcpMinerAssumption DEF ForestInv, ForestOK
<1> HIDE DEF child
<1>7. L!TotalOf(child.balances) + COINBASE_AMT_ALLOWED
        <= L!TotalOf(StartingBalances) + Minted(block[p].len + 1)
  BY <1>1, <1>4, <1>5, <1>6 DEF HasRoom
<1> QED
  BY <1>3, <1>5, <1>7 DEF child

-----------------------------------------------------------------------------
(* HonestInv is inductive beside ForestInv and SentInv. *)

LEMMA CardinalityIs == \A S : H!Cardinality(S) = L!CardOf(S)
  BY DEF H!Cardinality, L!CardOf, L!Cardinality

LEMMA InitHonest ==
  ASSUME Init
  PROVE  HonestInv
<1> USE DEF Init, OwnGenesis
<1>1. /\ DOMAIN block = {<<n, 0>> : n \in Node}
      /\ \A b \in DOMAIN block : block[b] = H!GenesisHeader(b)
      /\ \A n \in Node : /\ DOMAIN Blocks[n] = {<<n, 0>>}
                         /\ Blocks[n][<<n, 0>>] = H!GenesisLedger
                         /\ LastBlock[n] = <<n, 0>>
                         /\ CurrentBlock[n].txs = <<>>
  BY DEF H!NewBlock
<1>2. \A b \in DOMAIN block : /\ H!IsGenesisBlock(b) /\ block[b].len = 0
                              /\ block[b].rewardAddr = NoAddress
  BY <1>1 DEF H!GenesisHeader, H!IsGenesisBlock
<1>3. MinedInv
  <2>1. Mined = {}
    BY <1>2 DEF Mined
  <2>2. L!Finite({}) /\ L!CardOf({}) = 0
    BY LedgerInstance, L!FiniteUnion, L!LargerSet
  <2> QED
    BY ONLY <1>2, <2>1, <2>2, TcpMinerAssumption DEF MinedInv
<1>4. ForestInv
  BY InitForest
<1> DEFINE led == [b \in DOMAIN block |-> H!GenesisLedger]
<1>5. LedgersAre(led)
  <2>1. ASSUME NEW b \in DOMAIN block
        PROVE  led[b] = H!GenesisLedger /\ led[b] \in L!LedgerType /\ HasRoom(block[b], led[b])
    BY <1>2, <1>4, GenesisHasRoom
  <2>2. ASSUME NEW n \in Node
        PROVE  /\ LastBlock[n] \in DOMAIN block
               /\ \A b \in DOMAIN Blocks[n] : Blocks[n][b] = led[b]
               /\ H!RerunSucceeds(block[LastBlock[n]], led[LastBlock[n]],
                                  CurrentBlock[n].txs)
    <3>1. <<n, 0>> \in DOMAIN block
      BY <1>1
    <3>2. H!RerunSucceeds(block[<<n, 0>>], led[<<n, 0>>], <<>>)
      BY <2>1, <3>1, EmptyReplays
    <3> HIDE DEF led
    <3> QED
      BY ONLY <1>1, <2>1, <3>1, <3>2, n \in Node
  <2> HIDE DEF led
  <2> QED
    BY ONLY <1>2, <2>1, <2>2 DEF LedgersAre
<1> QED
  BY <1>3, <1>5 DEF HonestInv

\* A proof that is found ends the search with the block it was for.
LEMMA BlockFound ==
  ASSUME ForestInv, NEW n \in Node, NEW receivers, H!FindProof(n, receivers)
  PROVE  LET new  == <<n, clock[n]>>
             head == LastBlock[n]
             cur  == CurrentBlock[n]
         IN  /\ new \notin DOMAIN block
             /\ head \in DOMAIN Blocks[n] /\ head \in DOMAIN block
             /\ DOMAIN block' = DOMAIN block \cup {new}
             /\ \A b \in DOMAIN block : block'[b] = block[b]
             /\ block'[new].len = block[head].len + 1
             /\ block'[new].prev = head
             /\ block'[new].rewardAddr = n
             /\ block'[new].txs = cur.txs
             /\ H!Initialized(n)
             /\ \A k \in Node : /\ CurrentBlock'[k].txs = CurrentBlock[k].txs
                                /\ k # n => CurrentBlock'[k] = CurrentBlock[k]
             /\ UNCHANGED <<Blocks, LastBlock>>
<1> DEFINE new  == <<n, clock[n]>>
           head == LastBlock[n]
           cur  == CurrentBlock[n]
<1>1. /\ new \notin DOMAIN block
      /\ head \in DOMAIN Blocks[n] /\ head \in DOMAIN block /\ block[head].id = head
  BY DEF ForestInv, Domains, ForestOK, IdsAreUsedOnce, KnownOK, HeadOK
<1>2. cur = [id |-> cur.id, prev |-> head, len |-> block[head].len + 1,
             rewardAddr |-> n, txs |-> cur.txs, chain |-> H!Chain(block[head])]
  <2>1. Extends(n, cur, block[head])
    BY DEF H!FindProof, ForestInv, SearchOK, H!Initialized
  <2> QED
    BY ONLY <1>1, <2>1 DEF Extends
<1>3. /\ DOMAIN block' = DOMAIN block \cup {new}
      /\ \A b \in DOMAIN block \ {new} : block'[b] = block[b]
      /\ block'[new] = [cur EXCEPT !.id = new]
      /\ H!Initialized(n)
      /\ UNCHANGED <<Blocks, LastBlock>>
  BY DEF H!FindProof, H!With, H!chainVars
<1>4. \A k \in Node :
        CurrentBlock'[k] = IF k = n THEN [cur EXCEPT !.id = new] ELSE CurrentBlock[k]
  BY DEF H!FindProof, ForestInv, Domains
<1> HIDE DEF new, head, cur
<1>5. /\ [cur EXCEPT !.id = new].len = block[head].len + 1
      /\ [cur EXCEPT !.id = new].prev = head
      /\ [cur EXCEPT !.id = new].rewardAddr = n
      /\ [cur EXCEPT !.id = new].txs = cur.txs
  BY <1>2
<1> QED
  BY <1>1, <1>3, <1>4, <1>5 DEF new, head, cur

LEMMA NextMined ==
  ASSUME ForestInv, MinedInv, [Next]_vars
  PROVE  MinedInv'
<1>1. ASSUME block' = block
      PROVE  MinedInv'
  <2>1. Mined' = Mined
    BY <1>1 DEF Mined, H!IsGenesisBlock
  <2> QED
    BY <1>1, <2>1 DEF MinedInv, L!CardOf, L!Cardinality, L!Finite, L!IsFiniteSet
<1>2. ASSUME NEW n \in Node, NEW receivers, H!FindProof(n, receivers)
      PROVE  MinedInv'
  <2> DEFINE new  == <<n, clock[n]>>
             head == LastBlock[n]
  <2>1. /\ new \notin DOMAIN block
        /\ head \in DOMAIN block /\ block[head].len \in Nat
        /\ DOMAIN block' = DOMAIN block \cup {new}
        /\ \A b \in DOMAIN block : block'[b] = block[b]
        /\ block'[new].len = block[head].len + 1
        /\ block'[new].rewardAddr = n
    BY <1>2, BlockFound DEF ForestInv, ForestOK
  <2>2. L!CardOf(Mined) < MaxBlocks
    <3>1. H!Cardinality(Mined) < MaxBlocks
      BY <1>2 DEF H!FindProof, Mined
    <3> QED
      BY <3>1, CardinalityIs
  <2> HIDE DEF new, head
  <2>3. Mined' = Mined \cup {new} /\ new \notin Mined
    BY <2>1 DEF Mined, H!IsGenesisBlock
  <2>4. PICK found : found = Mined'
    OBVIOUS
  <2>5. /\ L!Finite(found) /\ L!CardOf(found) = L!CardOf(Mined) + 1
        /\ L!CardOf(Mined) \in Nat
    BY <2>3, <2>4, LedgerInstance, L!LargerSet DEF MinedInv
  <2>6. \A b \in DOMAIN block' : block'[b].len <= L!CardOf(found)
    <3> SUFFICES ASSUME NEW b \in DOMAIN block' PROVE block'[b].len <= L!CardOf(found)
      OBVIOUS
    <3>1. \A c \in DOMAIN block : block[c].len <= L!CardOf(Mined) /\ block[c].len \in Nat
      BY DEF MinedInv, ForestInv, ForestOK
    <3> QED
      BY <2>1, <2>5, <3>1
  <2>7. \A b \in DOMAIN block' : block'[b].rewardAddr \in Address \cup {NoAddress}
    BY <2>1, TcpMinerAssumption DEF MinedInv
  <2>8. L!CardOf(found) \in 0 .. MaxBlocks
    BY <2>2, <2>5, TcpMinerAssumption
  <2> QED
    BY <2>4, <2>5, <2>6, <2>7, <2>8
       DEF MinedInv, L!CardOf, L!Cardinality, L!Finite, L!IsFiniteSet
<1>3. ASSUME NEW n \in Node, StartProcess(n)
      PROVE  MinedInv'
  <2> DEFINE new == <<n, clock[n]>>
  <2>1. /\ new \notin DOMAIN block
        /\ DOMAIN block' = DOMAIN block \cup {new}
        /\ \A b \in DOMAIN block : block'[b] = block[b]
        /\ block'[new].len = 0 /\ block'[new].rewardAddr = NoAddress
    BY <1>3 DEF StartProcess, OwnGenesis, H!With, H!GenesisHeader,
                ForestInv, Domains, IdsAreUsedOnce
  <2> HIDE DEF new
  <2>2. Mined' = Mined
    BY <2>1 DEF Mined, H!IsGenesisBlock
  <2>3. \A b \in DOMAIN block' : /\ block'[b].len <= L!CardOf(Mined)
                                 /\ block'[b].rewardAddr \in Address \cup {NoAddress}
    BY <2>1, TcpMinerAssumption DEF MinedInv
  <2> QED
    BY <2>2, <2>3 DEF MinedInv, L!CardOf, L!Cardinality, L!Finite, L!IsFiniteSet
<1>4. ASSUME NEW n \in Node, NEW b \in DOMAIN block, H!AcceptBlock(n, b)
      PROVE  block' = block
  BY <1>4 DEF H!AcceptBlock
<1> QED
  BY <1>1, <1>2, <1>3, <1>4, ChainSteps

\* A step that leaves the chains, the heads and the searches alone.
LEMMA SameHonest ==
  ASSUME NEW led, LedgersAre(led), UNCHANGED <<block, Blocks, LastBlock, CurrentBlock>>
  PROVE  LedgersAre(led)'
  BY DEF LedgersAre, H!IsGenesisBlock, H!Initialized

\* The ledgers of the blocks that were there before, after block grew.
LEMMA OldLedgers ==
  ASSUME ForestInv, NEW led, LedgersAre(led), NEW new, new \notin DOMAIN block,
         NEW b \in DOMAIN block,
         \A c \in DOMAIN block : block'[c] = block[c],
         NEW led2, \A c \in DOMAIN block : led2[c] = led[c]
  PROVE  LET p == block'[b].prev
         IN  /\ led2[b] \in L!LedgerType
             /\ HasRoom(block'[b], led2[b])
             /\ block'[b].len = 0 => led2[b] = H!GenesisLedger
             /\ block'[b].len # 0 =>
                  /\ led2[b] = H!LedgerAfter(block'[p], led2[p], block'[b].txs)
                  /\ H!RerunSucceeds(block'[p], led2[p], block'[b].txs)
<1>1. /\ block'[b] = block[b] /\ led2[b] = led[b]
      /\ H!IsGenesisBlock(b) <=> block[b].len = 0
  BY DEF H!IsGenesisBlock
<1>2. HasRoom(block'[b], led2[b]) <=> HasRoom(block[b], led[b])
  BY <1>1
<1>3. ~ H!IsGenesisBlock(b) => /\ block[b].prev \in DOMAIN block
                               /\ block'[block[b].prev] = block[block[b].prev]
                               /\ led2[block[b].prev] = led[block[b].prev]
  BY DEF ForestInv, ForestOK
<1> QED
  BY <1>1, <1>2, <1>3 DEF LedgersAre

LEMMA FindProofHonest ==
  ASSUME ForestInv, MinedInv, SentInv, NEW led, LedgersAre(led),
         NEW n \in Node, NEW receivers, H!FindProof(n, receivers)
  PROVE  \E led2 : LedgersAre(led2)'
<1> DEFINE new   == <<n, clock[n]>>
           head  == LastBlock[n]
           txs   == CurrentBlock[n].txs
           child == H!LedgerAfter(block[head], led[head], txs)
<1>1. /\ new \notin DOMAIN block
      /\ head \in DOMAIN block /\ head \in DOMAIN Blocks[n]
      /\ DOMAIN block' = DOMAIN block \cup {new}
      /\ \A b \in DOMAIN block : block'[b] = block[b]
      /\ block'[new].len = block[head].len + 1
      /\ block'[new].prev = head
      /\ block'[new].rewardAddr = n
      /\ block'[new].txs = txs
      /\ H!Initialized(n)
      /\ \A k \in Node : /\ CurrentBlock'[k].txs = CurrentBlock[k].txs
                         /\ k # n => CurrentBlock'[k] = CurrentBlock[k]
      /\ UNCHANGED <<Blocks, LastBlock>>
  BY BlockFound
<1>2. /\ led[head] \in L!LedgerType /\ HasRoom(block[head], led[head])
      /\ txs \in Seq(Sent)
      /\ H!RerunSucceeds(block[head], led[head], txs)
  BY <1>1 DEF LedgersAre, SentInv, Carried
<1>3. /\ child \in L!LedgerType
      /\ L!TotalOf(child.balances) + COINBASE_AMT_ALLOWED
           <= L!TotalOf(StartingBalances) + Minted(block[head].len + 1)
  BY <1>1, <1>2, ChildHasRoom
<1>4. PICK led2 : /\ led2[new] = child
                  /\ \A b \in DOMAIN block : led2[b] = led[b] /\ b # new
  <2> DEFINE f == [b \in DOMAIN block \cup {new} |-> IF b = new THEN child ELSE led[b]]
  <2>1. f[new] = child /\ \A b \in DOMAIN block : f[b] = led[b] /\ b # new
    BY <1>1
  <2> HIDE DEF f
  <2> QED
    BY <2>1
<1>5. led2[new] = child
  BY <1>4
<1>6. /\ block[head].len \in Nat
      /\ \A k \in Node : LastBlock[k] \in DOMAIN block /\ DOMAIN Blocks[k] \subseteq DOMAIN block
  BY DEF ForestInv, ForestOK, KnownOK, HeadOK
<1> HIDE DEF child, new, head, txs
<1>7. ASSUME NEW b \in DOMAIN block'
      PROVE  LET p == block'[b].prev
             IN  /\ led2[b] \in L!LedgerType
                 /\ HasRoom(block'[b], led2[b])
                 /\ block'[b].len = 0 => led2[b] = H!GenesisLedger
                 /\ block'[b].len # 0 =>
                      /\ led2[b] = H!LedgerAfter(block'[p], led2[p], block'[b].txs)
                      /\ H!RerunSucceeds(block'[p], led2[p], block'[b].txs)
  <2>1. CASE b = new
    <3>1. block'[head] = block[head] /\ led2[head] = led[head] /\ block'[new].len # 0
      BY <1>1, <1>4, <1>6
    <3>2. HasRoom(block'[new], child)
      <4>1. L!RewardOf(block'[new]) = COINBASE_AMT_ALLOWED
        BY <1>1, TcpMinerAssumption DEF L!RewardOf
      <4>2. block'[new].len = block[head].len + 1
        BY <1>1
      <4> QED
        BY <1>3, <4>1, <4>2 DEF HasRoom, Minted
    <3> QED
      BY <1>1, <1>2, <1>3, <1>5, <2>1, <3>1, <3>2 DEF H!IsGenesisBlock, child
  <2>2. CASE b # new
    BY <1>1, <1>4, <2>2, OldLedgers
  <2> QED
    BY <2>1, <2>2
<1>8. ASSUME NEW k \in Node
      PROVE  /\ \A b \in DOMAIN Blocks'[k] : Blocks'[k][b] = led2[b]
             /\ H!Initialized(k)' =>
                  H!RerunSucceeds(block'[LastBlock'[k]], led2[LastBlock'[k]],
                                  CurrentBlock'[k].txs)
  <2>1. \A b \in DOMAIN Blocks'[k] : Blocks'[k][b] = led2[b]
    BY <1>1, <1>4, <1>6 DEF LedgersAre
  <2>2. /\ block'[LastBlock'[k]] = block[LastBlock[k]]
        /\ led2[LastBlock'[k]] = led[LastBlock[k]]
        /\ CurrentBlock'[k].txs = CurrentBlock[k].txs
        /\ H!Initialized(k)' => H!Initialized(k)
    BY <1>1, <1>4, <1>6 DEF H!Initialized
  <2> QED
    BY <2>1, <2>2 DEF LedgersAre
<1>9. LedgersAre(led2)'
  BY <1>7, <1>8 DEF LedgersAre, H!IsGenesisBlock, H!Initialized
<1> QED
  BY <1>9

\* A process starts with a root of its own and an empty search.
LEMMA StartHonest ==
  ASSUME ForestInv, ForestInv', NEW led, LedgersAre(led), NEW n \in Node, StartProcess(n)
  PROVE  \E led2 : LedgersAre(led2)'
<1> DEFINE new  == <<n, clock[n]>>
<1>1. /\ new \notin DOMAIN block
      /\ DOMAIN block' = DOMAIN block \cup {new}
      /\ \A b \in DOMAIN block : block'[b] = block[b]
      /\ block'[new] = H!GenesisHeader(new)
      /\ DOMAIN Blocks'[n] = {new} /\ Blocks'[n][new] = H!GenesisLedger
      /\ LastBlock'[n] = new
      /\ CurrentBlock'[n] = H!NewBlock(n, H!GenesisHeader(new), <<>>)
      /\ \A k \in Node \ {n} :
           /\ Blocks'[k] = Blocks[k] /\ LastBlock'[k] = LastBlock[k]
           /\ CurrentBlock'[k] = CurrentBlock[k]
  BY DEF StartProcess, StartChain, OwnGenesis, H!With, ForestInv, Domains,
         IdsAreUsedOnce
<1>2. PICK led2 : /\ led2[new] = H!GenesisLedger
                  /\ \A b \in DOMAIN block : led2[b] = led[b] /\ b # new
  <2> DEFINE f == [b \in DOMAIN block \cup {new} |->
                     IF b = new THEN H!GenesisLedger ELSE led[b]]
  <2>1. f[new] = H!GenesisLedger /\ \A b \in DOMAIN block : f[b] = led[b] /\ b # new
    BY <1>1
  <2> HIDE DEF f
  <2> QED
    BY <2>1
<1>3. led2[new] = H!GenesisLedger
  BY <1>2
<1>4. /\ \A k \in Node : LastBlock[k] \in DOMAIN block /\ DOMAIN Blocks[k] \subseteq DOMAIN block
      /\ CurrentBlock'[n].txs = <<>>
  BY <1>1 DEF ForestInv, KnownOK, HeadOK, H!NewBlock
<1>5. /\ block'[new].len = 0 /\ H!GenesisLedger \in L!LedgerType
      /\ HasRoom(block'[new], H!GenesisLedger)
  <2>1. block'[new].len = 0 /\ block'[new].rewardAddr = NoAddress
    BY <1>1 DEF H!GenesisHeader
  <2>2. H!GenesisLedger \in L!LedgerType
    BY ONLY LedgerInstance DEF L!LedgerAssumption, H!GenesisLedger, L!LedgerType, L!Amount
  <2>3. H!GenesisLedger.balances = StartingBalances
    BY DEF H!GenesisLedger
  <2> HIDE DEF new
  <2>4. HasRoom(block'[new], H!GenesisLedger)
    BY <2>1, <2>3, RewardsFit DEF HasRoom, Minted, L!RewardOf
  <2> QED
    BY <2>1, <2>2, <2>4
<1> HIDE DEF new
<1>6. ASSUME NEW b \in DOMAIN block'
      PROVE  LET p == block'[b].prev
             IN  /\ led2[b] \in L!LedgerType
                 /\ HasRoom(block'[b], led2[b])
                 /\ block'[b].len = 0 => led2[b] = H!GenesisLedger
                 /\ block'[b].len # 0 =>
                      /\ led2[b] = H!LedgerAfter(block'[p], led2[p], block'[b].txs)
                      /\ H!RerunSucceeds(block'[p], led2[p], block'[b].txs)
  <2>1. CASE b = new
    BY <1>3, <1>5, <2>1
  <2>2. CASE b # new
    BY <1>1, <1>2, <2>2, OldLedgers
  <2> QED
    BY <2>1, <2>2
<1>7. ASSUME NEW k \in Node
      PROVE  /\ \A b \in DOMAIN Blocks'[k] : Blocks'[k][b] = led2[b]
             /\ H!Initialized(k)' =>
                  H!RerunSucceeds(block'[LastBlock'[k]], led2[LastBlock'[k]],
                                  CurrentBlock'[k].txs)
  <2>1. CASE k = n
    <3>1. H!RerunSucceeds(block'[new], led2[new], <<>>)
      BY <1>3, <1>5, EmptyReplays
    <3> QED
      BY <1>1, <1>3, <1>4, <2>1, <3>1
  <2>2. CASE k # n
    <3>1. /\ Blocks'[k] = Blocks[k]
          /\ block'[LastBlock'[k]] = block[LastBlock[k]]
          /\ led2[LastBlock'[k]] = led[LastBlock[k]]
          /\ CurrentBlock'[k] = CurrentBlock[k]
      BY <1>1, <1>2, <1>4, <2>2
    <3>2. \A b \in DOMAIN Blocks[k] : led2[b] = led[b]
      BY <1>2, <1>4
    <3> QED
      BY <3>1, <3>2 DEF LedgersAre, H!Initialized
  <2> QED
    BY <2>1, <2>2
<1>8. LedgersAre(led2)'
  BY <1>6, <1>7 DEF LedgersAre, H!IsGenesisBlock, H!Initialized
<1> QED
  BY <1>8

\* A node gets the ledger of a block from that of its parent, which is that of
\* every other node.
LEMMA AcceptHonest ==
  ASSUME ForestInv, ForestInv', MinedInv, SentInv, NEW led, LedgersAre(led),
         NEW n \in Node, NEW b \in DOMAIN block,
         H!AcceptBlock(n, b), H!CutOver(n, b)
  PROVE  LedgersAre(led)'
<1>1. /\ block' = block
      /\ DOMAIN Blocks'[n] = DOMAIN Blocks[n] \cup {b}
      /\ \A c \in DOMAIN Blocks[n] : Blocks'[n][c] = Blocks[n][c]
      /\ H!IsGenesisBlock(b) => Blocks'[n][b] = H!GenesisLedger
      /\ ~ H!IsGenesisBlock(b) =>
           /\ block[b].prev \in DOMAIN Blocks[n]
           /\ Blocks'[n][b] = H!LedgerAfter(block[block[b].prev],
                                            Blocks[n][block[b].prev], block[b].txs)
      /\ \A k \in Node \ {n} : Blocks'[k] = Blocks[k]
  BY AcceptKnown
<1>2. /\ \A k \in Node \ {n} : LastBlock'[k] = LastBlock[k]
      /\ ~ H!Longer(n, b) => LastBlock'[n] = LastBlock[n]
  BY AcceptHead
<1>3. \A k \in Node : \A c \in DOMAIN Blocks'[k] : Blocks'[k][c] = led[c]
  BY <1>1 DEF LedgersAre
<1>4. ASSUME NEW k \in Node, H!Initialized(k)',
             CurrentBlock'[k] = CurrentBlock[k], LastBlock'[k] = LastBlock[k]
      PROVE  H!RerunSucceeds(block[LastBlock'[k]], led[LastBlock'[k]], CurrentBlock'[k].txs)
  BY <1>4 DEF LedgersAre, H!Initialized
<1>5. ASSUME NEW k \in Node, H!Initialized(k)'
      PROVE  H!RerunSucceeds(block[LastBlock'[k]], led[LastBlock'[k]], CurrentBlock'[k].txs)
  <2>1. CASE H!Initialized(n) /\ block[b].len >= CurrentBlock[n].len
    <3> DEFINE pool   == Transactions[n] \cup H!SyncTransaction(n, b)
               head   == LastBlock'[n]
               ledger == Blocks'[n][head]
    <3>1. H!StartNewSearch(n, head, ledger, pool)
      BY <2>1 DEF H!CutOver
    <3>2. CASE k = n
      <4>1. pool \subseteq Sent /\ L!Finite(pool)
        <5>1. /\ H!SyncTransaction(n, b) \subseteq Sent
              /\ L!Finite(H!SyncTransaction(n, b))
          BY <2>1, SyncIn DEF SentInv
        <5>2. Transactions[n] \subseteq Sent /\ L!Finite(Transactions[n])
          BY DEF SentInv, Carried
        <5> QED
          BY <5>1, <5>2, LedgerInstance, L!FiniteUnion
      <4>2. head \in DOMAIN Blocks'[n] /\ head \in DOMAIN block
        BY <1>1 DEF ForestInv, HeadOK, KnownOK
      <4>3. ledger = led[head]
        BY <1>3, <4>2
      <4>4. ledger \in L!LedgerType /\ HasRoom(block[head], ledger)
        BY <4>2, <4>3 DEF LedgersAre
      <4> HIDE DEF pool, head, ledger
      <4>5. H!RerunSucceeds(block[head], ledger, CurrentBlock'[n].txs)
        BY <3>1, <4>1, <4>2, <4>4, FilledIsHonest
      <4> QED
        BY <3>2, <4>3, <4>5 DEF head
    <3>3. CASE k # n
      <4>1. CurrentBlock'[k] = CurrentBlock[k]
        BY <3>1, <3>3, NewSearch DEF ForestInv, Domains
      <4> QED
        BY <1>2, <1>4, <1>5, <3>3, <4>1
    <3> QED
      BY <3>2, <3>3
  <2>2. CASE ~ (H!Initialized(n) /\ block[b].len >= CurrentBlock[n].len)
    <3>1. CurrentBlock' = CurrentBlock
      BY <2>2 DEF H!CutOver
    <3>2. LastBlock'[k] = LastBlock[k]
      <4>1. CASE k # n
        BY <1>2, <4>1
      <4>2. CASE k = n
        <5>1. H!Initialized(n) /\ block[b].len < CurrentBlock[n].len
          <6>1. H!Initialized(n)
            BY <1>5, <3>1, <4>2 DEF H!Initialized
          <6>2. Extends(n, CurrentBlock[n], block[LastBlock[n]])
            BY <6>1 DEF ForestInv, SearchOK, H!Initialized
          <6>3. CurrentBlock[n].len = block[LastBlock[n]].len + 1
            BY ONLY <6>2 DEF Extends
          <6>4. block[LastBlock[n]].len \in Nat /\ block[b].len \in Nat
            BY DEF ForestInv, ForestOK, HeadOK, KnownOK
          <6> QED
            BY <2>2, <6>1, <6>3, <6>4
        <5>2. CurrentBlock[n].len = block[LastBlock[n]].len + 1
          <6>1. Extends(n, CurrentBlock[n], block[LastBlock[n]])
            BY <5>1 DEF ForestInv, SearchOK, H!Initialized
          <6> QED
            BY ONLY <6>1 DEF Extends
        <5>3. block[LastBlock[n]].len \in Nat /\ block[b].len \in Nat
          BY DEF ForestInv, ForestOK, HeadOK, KnownOK
        <5>4. ~ H!Longer(n, b)
          BY <5>1, <5>2, <5>3 DEF H!Longer
        <5> QED
          BY <1>2, <4>2, <5>4
      <4> QED
        BY <4>1, <4>2
    <3> QED
      BY <1>4, <1>5, <3>1, <3>2
  <2> QED
    BY <2>1, <2>2
<1>6. \A c \in DOMAIN block : H!IsGenesisBlock(c)' <=> H!IsGenesisBlock(c)
  BY <1>1 DEF H!IsGenesisBlock
<1> QED
  BY <1>1, <1>3, <1>5, <1>6 DEF LedgersAre

LEMMA NextHonest ==
  ASSUME ForestInv, ForestInv', SentInv, HonestInv, [Next]_vars
  PROVE  HonestInv'
<1>1. MinedInv'
  BY NextMined DEF HonestInv
<1>2. PICK led : LedgersAre(led)
  BY DEF HonestInv
<1> DEFINE Kept == \E led2 : LedgersAre(led2)'
<1>3. ASSUME UNCHANGED <<block, Blocks, LastBlock, CurrentBlock>>
      PROVE  Kept
  <2>1. LedgersAre(led)'
    BY <1>2, <1>3, SameHonest
  <2> QED
    BY <2>1
<1>4. ASSUME NEW n \in Node, HandleBlock(n)
      PROVE  Kept
  <2>1. PICK b \in DOMAIN block : ReceiveBlock(n, b)
    BY <1>4 DEF HandleBlock
  <2>2. CASE H!AcceptBlock(n, b) /\ UNCHANGED clock /\ H!CutOver(n, b)
    <3>1. LedgersAre(led)'
      BY <1>2, <2>2, AcceptHonest DEF HonestInv
    <3> QED
      BY <3>1
  <2>3. CASE ~ (H!AcceptBlock(n, b) /\ UNCHANGED clock /\ H!CutOver(n, b))
    <3>1. UNCHANGED <<block, Blocks, LastBlock, CurrentBlock>>
      BY <2>1, <2>3 DEF ReceiveBlock, H!IgnoreBlock, H!StickBlock, H!chainVars, minerVars
    <3> HIDE DEF Kept
    <3> QED
      BY <1>3, <3>1
  <2> QED
    BY <2>2, <2>3
<1>5. ASSUME NEW n \in Node, \/ Exit(n) \/ HandleRequest(n) \/ HandleTransaction(n)
                             \/ \E p \in Node : Meet(n, p)
      PROVE  Kept
  <2>1. UNCHANGED <<block, Blocks, LastBlock, CurrentBlock>>
    BY <1>5 DEF Exit, EndProcess, HandleRequest, ProvideMissingBlock, Meet,
                HandleTransaction, H!AddTransactionBytes, chainVars, H!chainVars, minerVars
  <2> HIDE DEF Kept
  <2> QED
    BY <1>3, <2>1
<1>6. ASSUME NEW n \in Node, User(n)
      PROVE  Kept
  <2>1. UNCHANGED <<block, Blocks, LastBlock, CurrentBlock>>
    BY <1>6 DEF User, Transfer, CheckFunds, EndProcess, PostTransaction, AddTransaction,
                ResendPendingTransactions, chainVars, minerVars
  <2> HIDE DEF Kept
  <2> QED
    BY <1>3, <2>1
<1>7. ASSUME NEW n \in Node, Mine(n)
      PROVE  Kept
  <2>1. PICK receivers \in Reach(n) : \/ H!FindProof(n, receivers)
                                      \/ H!FindProofAgain(n, receivers)
    BY <1>7 DEF Mine
  <2>2. CASE H!FindProof(n, receivers)
    BY <1>2, <2>2, FindProofHonest DEF HonestInv
  <2>3. CASE H!FindProofAgain(n, receivers)
    <3>1. UNCHANGED <<block, Blocks, LastBlock, CurrentBlock>>
      BY <2>3 DEF H!FindProofAgain, H!chainVars, H!minerVars
    <3> HIDE DEF Kept
    <3> QED
      BY <1>3, <3>1
  <2> QED
    BY <2>1, <2>2, <2>3
<1>8. ASSUME NEW n \in Node, StartProcess(n)
      PROVE  Kept
  BY <1>2, <1>8, StartHonest
<1>9. ASSUME UNCHANGED vars
      PROVE  Kept
  <2>1. UNCHANGED <<block, Blocks, LastBlock, CurrentBlock>>
    BY <1>9 DEF vars, chainVars, minerVars
  <2> HIDE DEF Kept
  <2> QED
    BY <1>3, <2>1
<1>10. Kept
  <2> HIDE DEF Kept
  <2> QED
    BY <1>4, <1>5, <1>6, <1>7, <1>8, <1>9 DEF Next
<1> QED
  BY <1>1, <1>10 DEF HonestInv

\* Inductive beside ForestInv and SentInv.
THEOREM HonestInvariant == Spec => []HonestInv
<1>1. ForestInv /\ ForestInv' /\ SentInv /\ HonestInv /\ [Next]_vars => HonestInv'
  BY NextHonest
<1> QED
  BY <1>1, InitHonest, ForestInvariant, SentInvariant, PTL DEF Spec

\* No process refuses a block that was found, when it has the parent: whoever
\* found it, on whichever chain, and whether that process runs still.
THEOREM TcpHonestBlocksAreReplayed == Spec => []HonestBlocksReplay
<1>1. ForestInv /\ HonestInv => HonestBlocksReplay
  <2> SUFFICES ASSUME ForestInv, HonestInv, NEW n \in Node, NEW b \in DOMAIN block,
                      block[b].prev \in DOMAIN Blocks[n], ~ H!IsGenesisBlock(b)
               PROVE  H!RerunSucceeds(block[block[b].prev], Blocks[n][block[b].prev],
                                      block[b].txs)
    BY DEF HonestBlocksReplay, H!HonestBlocksReplay, H!Valid
  <2> QED
    BY DEF HonestInv, LedgersAre
<1> QED
  BY <1>1, ForestInvariant, HonestInvariant, PTL

-----------------------------------------------------------------------------
(* Processes that all run since the start, knew each other then and missed  *)
(* no block and no request.  Every broadcast reaches all of them and every  *)
(* request is answered, so a block and whatever it waits for is always on   *)
(* its way.                                                                 *)

Whole == Complete /\ ~ missed

ClientsOK ==
  /\ DOMAIN Clients = Node
  /\ \A n \in Node : Clients[n] \subseteq Node /\ Node \ {n} \subseteq Clients[n]

\* b is known to n, or waits there for its parent, or will be received.
Arrives(n, b) ==
  \/ b \in DOMAIN Blocks[n]
  \/ b \in PendingBlocks[n]
  \/ H!Pending(n, H!PROOF_FOUND(b))

\* n asked a process that has b.
Asked(n, b) ==
  \E k \in Node : b \in DOMAIN Blocks[k] /\ H!Pending(k, H!MISSING_BLOCK(n, b))

\* The parent of a stuck block is missing, and arrives or was asked for.
StuckOK(n) ==
  \A u \in PendingBlocks[n] :
    /\ u \in DOMAIN block /\ ~ H!IsGenesisBlock(u)
    /\ block[u].prev \notin DOMAIN Blocks[n]
    /\ Arrives(n, block[u].prev) \/ Asked(n, block[u].prev)

ParentsHeld ==
  \A b \in Mined : \E k \in Node : block[b].prev \in DOMAIN Blocks[k]

MergeInv ==
  /\ ClientsOK
  /\ DOMAIN PendingBlocks = Node
  /\ ParentsHeld
  /\ \A n \in Node : StuckOK(n) /\ \A b \in Mined : Arrives(n, b)

\* What stays of the waiting calls.
LEMMA FinishKeeps ==
  ASSUME NEW pool, DOMAIN pool = Node, NEW n \in Node, NEW c,
         NEW k \in Node, NEW d \in DOMAIN pool[k], k # n \/ d # c
  PROVE  d \in DOMAIN H!Finish(pool, n, c)[k]
<1>1. \A B : d \in DOMAIN B /\ d # c => d \in DOMAIN H!BagRemove(B, c)
  BY DEF H!BagRemove
<1>2. H!Finish(pool, n, c)[k] = IF k = n THEN H!BagRemove(pool[k], c) ELSE pool[k]
  BY DEF H!Finish
<1> QED
  BY <1>1, <1>2

LEMMA SpawnKeeps ==
  ASSUME NEW pool, DOMAIN pool = Node, NEW n \in Node, NEW c, NEW k \in Node
  PROVE  /\ DOMAIN pool[k] \subseteq DOMAIN H!Spawn(pool, n, c)[k]
         /\ c \in DOMAIN H!Spawn(pool, n, c)[n]
<1>1. \A B : DOMAIN H!BagAdd(B, c) = DOMAIN B \cup {c}
  BY DEF H!BagAdd
<1>2. /\ H!Spawn(pool, n, c)[k] = IF k = n THEN H!BagAdd(pool[k], c) ELSE pool[k]
      /\ H!Spawn(pool, n, c)[n] = H!BagAdd(pool[n], c)
  BY DEF H!Spawn
<1> QED
  BY <1>1, <1>2

LEMMA SpawnAllKeeps ==
  ASSUME NEW pool, DOMAIN pool = Node, NEW n \in Node, NEW cs, NEW k \in Node
  PROVE  /\ DOMAIN pool[k] \subseteq DOMAIN H!SpawnAll(pool, n, cs)[k]
         /\ cs \subseteq DOMAIN H!SpawnAll(pool, n, cs)[n]
  BY DEF H!SpawnAll, H!AddAll

LEMMA BroadcastKeeps ==
  ASSUME NEW pool, DOMAIN pool = Node, NEW receivers, NEW c, NEW k \in Node
  PROVE  /\ DOMAIN H!Broadcast(pool, receivers, c) = Node
         /\ DOMAIN pool[k] \subseteq DOMAIN H!Broadcast(pool, receivers, c)[k]
         /\ k \in receivers => c \in DOMAIN H!Broadcast(pool, receivers, c)[k]
  BY DEF H!Broadcast, H!BroadcastAll, H!AddAll

\* The messages are told apart by what they are about.
LEMMA DistinctCalls ==
  /\ \A b, c : H!PROOF_FOUND(b) = H!PROOF_FOUND(c) <=> b = c
  /\ \A b, n, c : H!PROOF_FOUND(b) # H!MISSING_BLOCK(n, c)
  /\ \A m, n, b, c :
       H!MISSING_BLOCK(m, b) = H!MISSING_BLOCK(n, c) <=> m = n /\ b = c
  /\ \A b, t : H!PROOF_FOUND(b) # H!POST_TRANSACTION(t)
  /\ \A n, b, t : H!MISSING_BLOCK(n, b) # H!POST_TRANSACTION(t)
<1> USE DEF H!PROOF_FOUND, H!MISSING_BLOCK, H!POST_TRANSACTION
<1>1. \A b, c : H!PROOF_FOUND(b) = H!PROOF_FOUND(c) <=> b = c
  OBVIOUS
<1>2. \A m, n, b, c :
        H!MISSING_BLOCK(m, b) = H!MISSING_BLOCK(n, c) <=> m = n /\ b = c
  OBVIOUS
<1>3. \A b, n, c : H!PROOF_FOUND(b).op # H!MISSING_BLOCK(n, c).op
  OBVIOUS
<1>4. \A b, t : H!PROOF_FOUND(b).op # H!POST_TRANSACTION(t).op
  OBVIOUS
<1>5. \A n, b, t : H!MISSING_BLOCK(n, b).op # H!POST_TRANSACTION(t).op
  OBVIOUS
<1> HIDE DEF H!PROOF_FOUND, H!MISSING_BLOCK, H!POST_TRANSACTION
<1> QED
  BY <1>1, <1>2, <1>3, <1>4, <1>5

\* MergeInv stays when nothing that arrives or was asked for gets lost, when
\* what is new in PendingBlocks is awaited, and when a new block is announced to
\* all.
LEMMA MergeStep ==
  ASSUME ForestInv, MergeInv, ClientsOK', DOMAIN PendingBlocks' = Node,
         \A b \in DOMAIN block : b \in DOMAIN block' /\ block'[b] = block[b],
         \A k \in Node : DOMAIN Blocks[k] \subseteq DOMAIN Blocks'[k],
         \A k \in Node : \A b : Arrives(k, b) => Arrives(k, b)',
         \A j, k \in Node : \A b :
           /\ b \in DOMAIN Blocks[k] /\ b \notin DOMAIN Blocks[j]
           /\ H!Pending(k, H!MISSING_BLOCK(j, b))
           => H!Pending(k, H!MISSING_BLOCK(j, b))' \/ Arrives(j, b)',
         \A k \in Node : \A u \in PendingBlocks'[k] :
           /\ u \in DOMAIN block /\ ~ H!IsGenesisBlock(u)
           /\ block[u].prev \notin DOMAIN Blocks'[k]
           /\ \/ u \in PendingBlocks[k]
              \/ \E p : p = block[u].prev /\ (Arrives(k, p)' \/ Asked(k, p)'),
         \A b \in DOMAIN block' \ DOMAIN block : block'[b].len # 0 =>
           /\ \E k \in Node : block'[b].prev \in DOMAIN Blocks'[k]
           /\ \A k \in Node : H!Pending(k, H!PROOF_FOUND(b))'
  PROVE  MergeInv'
<1>1. \A b \in Mined' : b \in Mined \/ (b \in DOMAIN block' \ DOMAIN block /\ block'[b].len # 0)
  BY DEF Mined, H!IsGenesisBlock
<1>2. \A b \in Mined : b \in DOMAIN block /\ block'[b] = block[b]
  BY DEF Mined
<1>3. ParentsHeld'
  <2> SUFFICES ASSUME NEW b \in Mined'
               PROVE  \E k \in Node : block'[b].prev \in DOMAIN Blocks'[k]
    BY DEF ParentsHeld
  <2>1. CASE b \in Mined
    <3>1. PICK k \in Node : block[b].prev \in DOMAIN Blocks[k]
      BY <2>1 DEF MergeInv, ParentsHeld
    <3> QED
      BY <1>2, <2>1, <3>1
  <2>2. CASE b \notin Mined
    BY <1>1, <2>2
  <2> QED
    BY <2>1, <2>2
<1>4. ASSUME NEW n \in Node, NEW b \in Mined'
      PROVE  Arrives(n, b)'
  <2>1. CASE b \in Mined
    BY <2>1 DEF MergeInv
  <2>2. CASE b \notin Mined
    BY <1>1, <2>2 DEF Arrives
  <2> QED
    BY <2>1, <2>2
<1>5. ASSUME NEW n \in Node, NEW p, Asked(n, p), p \notin DOMAIN Blocks[n]
      PROVE  Arrives(n, p)' \/ Asked(n, p)'
  <2>1. PICK k \in Node : p \in DOMAIN Blocks[k] /\ H!Pending(k, H!MISSING_BLOCK(n, p))
    BY <1>5 DEF Asked
  <2>2. p \in DOMAIN Blocks'[k]
    BY <2>1
  <2>3. H!Pending(k, H!MISSING_BLOCK(n, p))' \/ Arrives(n, p)'
    BY <1>5, <2>1
  <2> QED
    BY <2>2, <2>3 DEF Asked
<1>6. ASSUME NEW n \in Node, NEW u \in PendingBlocks'[n], NEW p, p = block[u].prev
      PROVE  Arrives(n, p)' \/ Asked(n, p)'
  <2>1. CASE u \in PendingBlocks[n]
    <3>1. /\ p \notin DOMAIN Blocks[n]
          /\ Arrives(n, p) \/ Asked(n, p)
      BY <1>6, <2>1 DEF MergeInv, StuckOK
    <3> QED
      BY <1>5, <3>1
  <2>2. CASE u \notin PendingBlocks[n]
    BY <1>6, <2>2
  <2> QED
    BY <2>1, <2>2
<1>7. ASSUME NEW n \in Node
      PROVE  StuckOK(n)'
  <2> SUFFICES ASSUME NEW u \in PendingBlocks'[n]
               PROVE  /\ u \in DOMAIN block' /\ block'[u].len # 0
                      /\ block'[u].prev \notin DOMAIN Blocks'[n]
                      /\ Arrives(n, block[u].prev)' \/ Asked(n, block[u].prev)'
    BY DEF StuckOK, H!IsGenesisBlock
  <2>1. PICK p : p = block[u].prev
    OBVIOUS
  <2>2. /\ u \in DOMAIN block' /\ block'[u] = block[u] /\ block[u].len # 0
        /\ p \notin DOMAIN Blocks'[n]
    BY <2>1 DEF H!IsGenesisBlock
  <2>3. Arrives(n, p)' \/ Asked(n, p)'
    BY <1>6, <2>1
  <2>4. block'[u].prev = p
    BY <2>1, <2>2
  <2> QED
    BY <2>2, <2>3, <2>4
<1> QED
  BY <1>3, <1>4, <1>7 DEF MergeInv

-----------------------------------------------------------------------------
(* MergeInv is kept as long as all processes are those of the start. *)

LEMMA InitMerge ==
  ASSUME Init, Complete
  PROVE  MergeInv
<1> USE DEF Init, OwnGenesis
<1>1. ClientsOK
  BY TcpMinerAssumption DEF ClientsOK, Complete
<1>2. \A b \in DOMAIN block : H!IsGenesisBlock(b)
  BY DEF H!GenesisHeader, H!IsGenesisBlock
<1>3. Mined = {}
  BY <1>2 DEF Mined
<1> QED
  BY <1>1, <1>3 DEF MergeInv, ParentsHeld, StuckOK

\* Nobody can end or start a process and leave the network complete.
LEMMA CompleteBefore ==
  ASSUME ForestInv, SentInv, [Next]_vars, Complete'
  PROVE  /\ Complete
         /\ \A n \in Node : ~ StartProcess(n) /\ ~ EndProcess(n)
         /\ ClientsOK => ClientsOK'
<1>1. \A n \in Node : OnlyProcess(n) /\ ~ StartProcess(n)
  BY OnlyBefore DEF SentInv, Complete
<1>2. up' = Node /\ up \subseteq Node
  BY DEF Complete, SentInv, UsersOK
<1>3. \A n \in Node : ~ EndProcess(n)
  BY <1>2 DEF EndProcess
<1>4. /\ up' = up
      /\ Clients' = Clients \/ \E n, p \in Node : Register(n, p)
  <2>1. ASSUME NEW n \in Node, User(n)
        PROVE  UNCHANGED netVars
    BY <1>3, <2>1 DEF User, Transfer, CheckFunds, PostTransaction, AddTransaction,
                      ResendPendingTransactions
  <2>2. ASSUME NEW n \in Node,
               HandleBlock(n) \/ HandleRequest(n) \/ HandleTransaction(n) \/ Mine(n)
        PROVE  UNCHANGED netVars
    BY <2>2 DEF HandleBlock, ReceiveBlock, HandleRequest, ProvideMissingBlock,
                HandleTransaction, Mine
  <2>3. ASSUME NEW n \in Node, NEW p \in Node, Meet(n, p)
        PROVE  up' = up /\ Register(n, p)
    BY <2>3 DEF Meet
  <2> QED
    BY <1>1, <1>3, <2>1, <2>2, <2>3 DEF Next, Exit, vars, netVars
<1>5. Complete
  BY <1>1, <1>2, <1>4 DEF Complete
<1>6. ClientsOK => ClientsOK'
  BY <1>4 DEF ClientsOK, Register
<1> QED
  BY <1>1, <1>3, <1>5, <1>6

\* What was missed stays missed, and a step that misses nothing sends a block or
\* a request to all it is written to, and an answer always.
LEMMA WholeBefore ==
  ASSUME [Next]_vars, ~ missed'
  PROVE  ~ missed
<1>1. \A n \in Node : \A receivers : NoteMissed(n, receivers) => ~ missed
  BY DEF NoteMissed
<1>2. ASSUME NEW n \in Node, User(n)
      PROVE  ~ missed
  BY <1>2 DEF User, Transfer, CheckFunds, EndProcess, PostTransaction, AddTransaction,
              ResendPendingTransactions
<1>3. ASSUME NEW n \in Node, HandleBlock(n)
      PROVE  ~ missed
  BY <1>1, <1>3 DEF HandleBlock, ReceiveBlock
<1>4. ASSUME NEW n \in Node, HandleRequest(n) \/ HandleTransaction(n)
      PROVE  ~ missed
  BY <1>4 DEF HandleRequest, ProvideMissingBlock, HandleTransaction
<1>5. ASSUME NEW n \in Node, Mine(n)
      PROVE  ~ missed
  BY <1>1, <1>5 DEF Mine
<1> QED
  BY <1>2, <1>3, <1>4, <1>5
     DEF Next, Exit, EndProcess, StartProcess, Meet, vars

\* A broadcast is written to all others.
LEMMA WrittenToAll ==
  ASSUME Complete, ClientsOK, NEW n \in Node, NEW receivers \in WrittenTo(n)
  PROVE  Node \ {n} \subseteq receivers /\ receivers \subseteq Node
  BY DEF Complete, ClientsOK, WrittenTo

\* Nothing but transactions is sent or received.
LEMMA CalmMerge ==
  ASSUME ForestInv, MergeInv, ClientsOK', UNCHANGED <<block, Blocks, PendingBlocks>>,
         \A k \in Node : \A c \in DOMAIN calls[k] :
           c.op # "POST_TRANSACTION" => c \in DOMAIN calls'[k]
  PROVE  MergeInv'
<1>1. \A k \in Node : \A b :
        H!Pending(k, H!PROOF_FOUND(b)) => H!Pending(k, H!PROOF_FOUND(b))'
  BY DEF H!Pending, H!PROOF_FOUND
<1>2. \A k, j \in Node : \A b :
        H!Pending(k, H!MISSING_BLOCK(j, b)) => H!Pending(k, H!MISSING_BLOCK(j, b))'
  BY DEF H!Pending, H!MISSING_BLOCK
<1>3. \A k \in Node : \A b : Arrives(k, b) => Arrives(k, b)'
  BY <1>1 DEF Arrives
<1>4. \A k \in Node : \A u \in PendingBlocks'[k] :
        /\ u \in DOMAIN block /\ ~ H!IsGenesisBlock(u)
        /\ block[u].prev \notin DOMAIN Blocks'[k]
        /\ u \in PendingBlocks[k]
  BY DEF MergeInv, StuckOK
<1>5. DOMAIN PendingBlocks' = Node
  BY DEF MergeInv
<1> QED
  BY <1>2, <1>3, <1>4, <1>5, MergeStep

\* A refused block is known already: HonestBlocksReplay rules the other reason
\* out.
LEMMA IgnoreMerge ==
  ASSUME ForestInv, MergeInv, ClientsOK', DOMAIN calls = Node, HonestBlocksReplay,
         NEW n \in Node, NEW b \in DOMAIN block, H!IgnoreBlock(n, b)
  PROVE  MergeInv'
<1>1. b \in DOMAIN Blocks[n]
  BY DEF H!IgnoreBlock, H!Refused, H!hasValidProof, H!ParentKnown, H!Valid,
         HonestBlocksReplay, H!HonestBlocksReplay
<1>2. /\ block' = block /\ Blocks' = Blocks /\ PendingBlocks' = PendingBlocks
      /\ calls' = H!Finish(calls, n, H!PROOF_FOUND(b))
  BY DEF H!IgnoreBlock, H!chainVars
<1>3. ASSUME NEW k \in Node, NEW d \in DOMAIN calls[k], k # n \/ d # H!PROOF_FOUND(b)
      PROVE  d \in DOMAIN calls'[k]
  BY <1>2, <1>3, FinishKeeps
<1>4. ASSUME NEW k \in Node, NEW c, Arrives(k, c)
      PROVE  Arrives(k, c)'
  <2>1. CASE k = n /\ c = b
    BY <1>1, <1>2, <2>1 DEF Arrives
  <2>2. CASE ~ (k = n /\ c = b)
    <3>1. k # n \/ H!PROOF_FOUND(c) # H!PROOF_FOUND(b)
      BY <2>2, DistinctCalls
    <3> QED
      BY <1>2, <1>3, <1>4, <3>1 DEF Arrives, H!Pending
  <2> QED
    BY <2>1, <2>2
<1>5. \A k, j \in Node : \A c :
        H!Pending(k, H!MISSING_BLOCK(j, c)) => H!Pending(k, H!MISSING_BLOCK(j, c))'
  BY <1>3, DistinctCalls DEF H!Pending
<1>6. \A k \in Node : \A u \in PendingBlocks'[k] :
        /\ u \in DOMAIN block /\ ~ H!IsGenesisBlock(u)
        /\ block[u].prev \notin DOMAIN Blocks'[k]
        /\ u \in PendingBlocks[k]
  BY <1>2 DEF MergeInv, StuckOK
<1>7. DOMAIN PendingBlocks' = Node
  BY <1>2 DEF MergeInv
<1> QED
  BY <1>2, <1>4, <1>5, <1>6, <1>7, MergeStep

\* A block that gets stuck first for its parent asks all others, and one of
\* them has it.
LEMMA StickMerge ==
  ASSUME ForestInv, MergeInv, ClientsOK', DOMAIN calls = Node, Complete,
         NEW n \in Node, NEW b \in DOMAIN block, NEW receivers,
         H!StuckOn(n, block[b].prev) = {} => receivers \in WrittenTo(n),
         H!StickBlock(n, b, receivers)
  PROVE  MergeInv'
<1> DEFINE prev == block[b].prev
           ask  == H!MISSING_BLOCK(n, prev)
           rest == H!Finish(calls, n, H!PROOF_FOUND(b))
<1>1. /\ block' = block /\ Blocks' = Blocks
      /\ PendingBlocks' = [PendingBlocks EXCEPT ![n] = @ \cup {b}]
      /\ calls' = IF H!StuckOn(n, prev) = {} THEN H!Broadcast(rest, receivers, ask)
                                             ELSE rest
  BY DEF H!StickBlock, H!RequestMissingBlock
<1>2. /\ DOMAIN PendingBlocks = Node
      /\ H!StuckOn(n, prev) = {} => Node \ {n} \subseteq receivers
      /\ ~ H!IsGenesisBlock(b) /\ prev \notin DOMAIN Blocks[n]
  BY WrittenToAll DEF MergeInv, H!StickBlock, H!ParentKnown
<1>3. DOMAIN rest = Node
  BY DEF H!Finish
<1>4. ASSUME NEW k \in Node, NEW d \in DOMAIN calls[k], k # n \/ d # H!PROOF_FOUND(b)
      PROVE  d \in DOMAIN calls'[k]
  <2>1. d \in DOMAIN rest[k]
    BY <1>4, FinishKeeps
  <2>2. DOMAIN rest[k] \subseteq DOMAIN H!Broadcast(rest, receivers, ask)[k]
    <3> HIDE DEF rest, ask
    <3> QED
      BY <1>3, BroadcastKeeps
  <2> HIDE DEF rest, ask
  <2> QED
    BY <1>1, <2>1, <2>2
<1>5. ASSUME NEW k \in Node, NEW c, Arrives(k, c)
      PROVE  Arrives(k, c)'
  <2>1. CASE k = n /\ c = b
    BY <1>1, <1>2, <2>1 DEF Arrives
  <2>2. CASE ~ (k = n /\ c = b)
    <3>1. k # n \/ H!PROOF_FOUND(c) # H!PROOF_FOUND(b)
      BY <2>2, DistinctCalls
    <3>2. PendingBlocks[k] \subseteq PendingBlocks'[k]
      BY <1>1, <1>2
    <3>3. H!Pending(k, H!PROOF_FOUND(c)) => H!Pending(k, H!PROOF_FOUND(c))'
      BY <1>4, <3>1 DEF H!Pending
    <3> QED
      BY <1>1, <1>5, <3>2, <3>3 DEF Arrives
  <2> QED
    BY <2>1, <2>2
<1>6. \A k, j \in Node : \A c :
        H!Pending(k, H!MISSING_BLOCK(j, c)) => H!Pending(k, H!MISSING_BLOCK(j, c))'
  BY <1>4, DistinctCalls DEF H!Pending
<1>7. ASSUME NEW p, p = prev
      PROVE  Arrives(n, p)' \/ Asked(n, p)'
  <2>1. CASE H!StuckOn(n, prev) = {}
    <3>1. PICK k \in Node : prev \in DOMAIN Blocks[k]
      BY <1>2 DEF MergeInv, ParentsHeld, Mined
    <3>2. k \in receivers
      BY <1>2, <2>1, <3>1
    <3>3. ask \in DOMAIN H!Broadcast(rest, receivers, ask)[k]
      <4> HIDE DEF rest, ask
      <4> QED
        BY <1>3, <3>2, BroadcastKeeps
    <3>4. ask = H!MISSING_BLOCK(n, p)
      BY <1>7
    <3> HIDE DEF ask, prev, rest
    <3> QED
      BY <1>1, <1>7, <2>1, <3>1, <3>3, <3>4 DEF Asked, H!Pending
  <2>2. CASE H!StuckOn(n, prev) # {}
    <3>1. PICK u \in PendingBlocks[n] : block[u].prev = prev
      BY <2>2 DEF H!StuckOn
    <3>2. Arrives(n, p) \/ Asked(n, p)
      BY <1>7, <3>1 DEF MergeInv, StuckOK
    <3>3. Asked(n, p) => Asked(n, p)'
      BY <1>1, <1>6 DEF Asked
    <3> QED
      BY <1>5, <3>2, <3>3
  <2> QED
    BY <2>1, <2>2
<1>8. ASSUME NEW k \in Node, NEW u \in PendingBlocks'[k]
      PROVE  /\ u \in DOMAIN block /\ ~ H!IsGenesisBlock(u)
             /\ block[u].prev \notin DOMAIN Blocks'[k]
             /\ \/ u \in PendingBlocks[k]
                \/ \E p : p = block[u].prev /\ (Arrives(k, p)' \/ Asked(k, p)')
  <2>1. CASE u \in PendingBlocks[k]
    BY <1>1, <2>1 DEF MergeInv, StuckOK
  <2>2. CASE u \notin PendingBlocks[k]
    <3>1. k = n /\ u = b
      BY <1>1, <1>2, <1>8, <2>2
    <3>2. PICK p : p = prev
      OBVIOUS
    <3>3. Arrives(n, p)' \/ Asked(n, p)'
      BY <1>7, <3>2
    <3> QED
      BY <1>1, <1>2, <3>1, <3>2, <3>3
  <2> QED
    BY <2>1, <2>2
<1>9. DOMAIN PendingBlocks' = Node
  BY <1>1, <1>2
<1> QED
  BY <1>1, <1>5, <1>6, <1>8, <1>9, MergeStep

\* The blocks that waited for the accepted one are received again.
LEMMA AcceptMerge ==
  ASSUME ForestInv, MergeInv, ClientsOK', DOMAIN calls = Node,
         NEW n \in Node, NEW b \in DOMAIN block, H!AcceptBlock(n, b)
  PROVE  MergeInv'
<1> DEFINE rest  == H!Finish(calls, n, H!PROOF_FOUND(b))
           again == {H!PROOF_FOUND(u) : u \in H!StuckOn(n, b)}
<1>1. /\ block' = block
      /\ PendingBlocks' = [PendingBlocks EXCEPT ![n] = @ \ H!StuckOn(n, b)]
      /\ calls' = H!SpawnAll(rest, n, again)
  BY DEF H!AcceptBlock
<1>2. DOMAIN PendingBlocks = Node /\ DOMAIN rest = Node
  BY DEF MergeInv, H!Finish
<1>3. /\ DOMAIN Blocks'[n] = DOMAIN Blocks[n] \cup {b}
      /\ \A k \in Node \ {n} : Blocks'[k] = Blocks[k]
  BY AcceptKnown
<1>4. ASSUME NEW k \in Node, NEW d \in DOMAIN calls[k], k # n \/ d # H!PROOF_FOUND(b)
      PROVE  d \in DOMAIN calls'[k]
  <2>1. d \in DOMAIN rest[k]
    BY <1>4, FinishKeeps
  <2> HIDE DEF rest, again
  <2> QED
    BY <1>1, <1>2, <2>1, SpawnAllKeeps
<1>5. again \subseteq DOMAIN calls'[n]
  <2> HIDE DEF rest, again
  <2> QED
    BY <1>1, <1>2, SpawnAllKeeps
<1>6. ASSUME NEW k \in Node, NEW c, Arrives(k, c)
      PROVE  Arrives(k, c)'
  <2>1. CASE c \in DOMAIN Blocks[k] \/ (k = n /\ c = b)
    BY <1>3, <2>1 DEF Arrives
  <2>2. CASE c \in PendingBlocks[k]
    <3>1. CASE c \in PendingBlocks'[k]
      BY <3>1 DEF Arrives
    <3>2. CASE c \notin PendingBlocks'[k]
      <4>1. k = n /\ c \in H!StuckOn(n, b)
        BY <1>1, <1>2, <2>2, <3>2
      <4> QED
        BY <1>5, <4>1 DEF Arrives, H!Pending
    <3> QED
      BY <3>1, <3>2
  <2>3. CASE H!Pending(k, H!PROOF_FOUND(c)) /\ ~ (k = n /\ c = b)
    <3>1. k # n \/ H!PROOF_FOUND(c) # H!PROOF_FOUND(b)
      BY <2>3, DistinctCalls
    <3> QED
      BY <1>4, <2>3, <3>1 DEF Arrives, H!Pending
  <2> QED
    BY <1>6, <2>1, <2>2, <2>3 DEF Arrives
<1>7. \A k, j \in Node : \A c :
        H!Pending(k, H!MISSING_BLOCK(j, c)) => H!Pending(k, H!MISSING_BLOCK(j, c))'
  BY <1>4, DistinctCalls DEF H!Pending
<1>8. ASSUME NEW k \in Node, NEW u \in PendingBlocks'[k]
      PROVE  /\ u \in DOMAIN block /\ ~ H!IsGenesisBlock(u)
             /\ block[u].prev \notin DOMAIN Blocks'[k]
             /\ u \in PendingBlocks[k]
  <2>1. /\ u \in PendingBlocks[k]
        /\ k = n => block[u].prev # b
    BY <1>1, <1>2, <1>8 DEF H!StuckOn
  <2> QED
    BY <1>3, <2>1 DEF MergeInv, StuckOK
<1>9. /\ DOMAIN PendingBlocks' = Node
      /\ \A k \in Node : DOMAIN Blocks[k] \subseteq DOMAIN Blocks'[k]
  BY <1>1, <1>2, <1>3
<1> QED
  BY <1>1, <1>6, <1>7, <1>8, <1>9, MergeStep

\* A request is dropped when the block is not there, or was asked for by the
\* node itself; all others are answered.
LEMMA RequestMerge ==
  ASSUME ForestInv, MergeInv, ClientsOK', DOMAIN calls = Node, Complete,
         ~ missed',
         NEW n \in Node, NEW from, NEW prev, ProvideMissingBlock(n, from, prev)
  PROVE  MergeInv'
<1> DEFINE ask    == H!MISSING_BLOCK(from, prev)
           rest   == H!Finish(calls, n, ask)
           answer == H!PROOF_FOUND(prev)
<1>1. /\ block' = block /\ Blocks' = Blocks /\ PendingBlocks' = PendingBlocks
      /\ calls' = IF prev \in DOMAIN Blocks[n] /\ CanSend(n, from)
                  THEN H!Spawn(rest, from, answer) ELSE rest
  BY DEF ProvideMissingBlock, H!SendMessage, chainVars
<1>2. DOMAIN rest = Node /\ (CanSend(n, from) => from \in Node)
  BY DEF H!Finish, CanSend, Dials, Complete
<1>3. ASSUME NEW k \in Node, NEW d \in DOMAIN calls[k], k # n \/ d # ask
      PROVE  d \in DOMAIN calls'[k]
  <2>1. d \in DOMAIN rest[k]
    BY <1>3, FinishKeeps
  <2> HIDE DEF rest, answer
  <2> QED
    BY <1>1, <1>2, <2>1, SpawnKeeps
<1>4. \A k \in Node : \A c :
        H!Pending(k, H!PROOF_FOUND(c)) => H!Pending(k, H!PROOF_FOUND(c))'
  BY <1>3, DistinctCalls DEF H!Pending
<1>5. \A k \in Node : \A c : Arrives(k, c) => Arrives(k, c)'
  BY <1>1, <1>4 DEF Arrives
<1>6. ASSUME NEW j \in Node, NEW k \in Node, NEW c,
             c \in DOMAIN Blocks[k], c \notin DOMAIN Blocks[j],
             H!Pending(k, H!MISSING_BLOCK(j, c))
      PROVE  H!Pending(k, H!MISSING_BLOCK(j, c))' \/ Arrives(j, c)'
  <2>1. CASE k # n \/ H!MISSING_BLOCK(j, c) # ask
    BY <1>3, <1>6, <2>1 DEF H!Pending
  <2>2. CASE k = n /\ H!MISSING_BLOCK(j, c) = ask
    <3>1. j = from /\ c = prev
      BY <2>2, DistinctCalls
    <3>2. CanSend(n, from)
      BY <1>6, <2>2, <3>1 DEF CanSend, Dials, Recognizes, Complete, MergeInv, ClientsOK
    <3>3. answer \in DOMAIN calls'[from]
      <4>1. calls' = H!Spawn(rest, from, answer)
        BY <1>1, <1>6, <2>2, <3>1, <3>2
      <4> HIDE DEF rest, answer
      <4> QED
        BY <1>2, <3>2, <4>1, SpawnKeeps
    <3> QED
      BY <3>1, <3>3 DEF Arrives, H!Pending
  <2> QED
    BY <2>1, <2>2
<1>7. \A k \in Node : \A u \in PendingBlocks'[k] :
        /\ u \in DOMAIN block /\ ~ H!IsGenesisBlock(u)
        /\ block[u].prev \notin DOMAIN Blocks'[k]
        /\ u \in PendingBlocks[k]
  BY <1>1 DEF MergeInv, StuckOK
<1>8. DOMAIN PendingBlocks' = Node
  BY <1>1 DEF MergeInv
<1> QED
  BY <1>1, <1>5, <1>6, <1>7, <1>8, MergeStep

\* A new block is on its way to all, and its miner has the parent.
LEMMA FindProofMerge ==
  ASSUME ForestInv, MergeInv, ClientsOK', DOMAIN calls = Node, Complete,
         NEW n \in Node, NEW receivers \in WrittenTo(n), H!FindProof(n, receivers)
  PROVE  MergeInv'
<1> DEFINE new  == <<n, clock[n]>>
           head == LastBlock[n]
           found == H!PROOF_FOUND(new)
           sent  == H!Broadcast(calls, receivers, found)
<1>1. /\ new \notin DOMAIN block
      /\ head \in DOMAIN Blocks[n]
      /\ DOMAIN block' = DOMAIN block \cup {new}
      /\ \A b \in DOMAIN block : block'[b] = block[b]
      /\ block'[new].prev = head
      /\ Blocks' = Blocks
  BY BlockFound
<1>2. PendingBlocks' = PendingBlocks /\ calls' = H!Spawn(sent, n, found)
  BY DEF H!FindProof, H!AnnounceProof, H!chainVars
<1>3. Node \ {n} \subseteq receivers /\ receivers \subseteq Node
  BY WrittenToAll DEF MergeInv
<1> HIDE DEF new, found
<1>4. /\ DOMAIN sent = Node
      /\ \A k \in Node : /\ DOMAIN calls[k] \subseteq DOMAIN sent[k]
                         /\ k \in receivers => found \in DOMAIN sent[k]
  BY BroadcastKeeps
<1> HIDE DEF sent, head
<1>5. \A k \in Node : /\ DOMAIN calls[k] \subseteq DOMAIN calls'[k]
                      /\ found \in DOMAIN calls'[k]
  BY <1>2, <1>3, <1>4, SpawnKeeps
<1>6. \A k \in Node : \A c : Arrives(k, c) => Arrives(k, c)'
  BY <1>1, <1>2, <1>5 DEF Arrives, H!Pending
<1>7. \A k, j \in Node : \A c :
        H!Pending(k, H!MISSING_BLOCK(j, c)) => H!Pending(k, H!MISSING_BLOCK(j, c))'
  BY <1>5 DEF H!Pending
<1>8. \A k \in Node : \A u \in PendingBlocks'[k] :
        /\ u \in DOMAIN block /\ ~ H!IsGenesisBlock(u)
        /\ block[u].prev \notin DOMAIN Blocks'[k]
        /\ u \in PendingBlocks[k]
  BY <1>1, <1>2 DEF MergeInv, StuckOK
<1>9. \A b \in DOMAIN block' \ DOMAIN block :
        /\ \E k \in Node : block'[b].prev \in DOMAIN Blocks'[k]
        /\ \A k \in Node : H!Pending(k, H!PROOF_FOUND(b))'
  BY <1>1, <1>5 DEF H!Pending, found
<1>10. DOMAIN PendingBlocks' = Node
  BY <1>2 DEF MergeInv
<1> QED
  BY <1>1, <1>6, <1>7, <1>8, <1>9, <1>10, MergeStep

LEMMA NextMerge ==
  ASSUME ForestInv, SentInv, HonestBlocksReplay, Whole => MergeInv,
         [Next]_vars, Whole'
  PROVE  MergeInv'
<1>1. /\ Complete /\ MergeInv /\ ClientsOK' /\ DOMAIN calls = Node
      /\ ~ missed'
      /\ \A n \in Node : ~ StartProcess(n) /\ ~ EndProcess(n)
  BY CompleteBefore, WholeBefore DEF Whole, MergeInv, SentInv, Carried, CallsIn
<1>2. ASSUME NEW n \in Node, NEW b \in DOMAIN block, ReceiveBlock(n, b)
      PROVE  MergeInv'
  <2>1. CASE H!IgnoreBlock(n, b)
    BY <1>1, <2>1, IgnoreMerge
  <2>2. CASE \E receivers \in Reach(n) :
               /\ H!StickBlock(n, b, receivers)
               /\ H!StuckOn(n, block[b].prev) = {} => NoteMissed(n, receivers)
    BY <1>1, <2>2, StickMerge DEF NoteMissed
  <2>3. CASE H!AcceptBlock(n, b)
    BY <1>1, <2>3, AcceptMerge
  <2> QED
    BY <1>2, <2>1, <2>2, <2>3 DEF ReceiveBlock
<1>3. ASSUME NEW n \in Node, NEW pool, DOMAIN pool = Node, NEW tx,
             NEW k \in Node, NEW c \in DOMAIN pool[k], c.op # "POST_TRANSACTION"
      PROVE  c \in DOMAIN H!Finish(pool, n, H!POST_TRANSACTION(tx))[k]
  <2>1. c # H!POST_TRANSACTION(tx)
    BY <1>3 DEF H!POST_TRANSACTION
  <2> QED
    BY <1>3, <2>1, FinishKeeps
<1>4. ASSUME NEW n \in Node, HandleTransaction(n)
      PROVE  MergeInv'
  <2>1. PICK tx : calls' = H!Finish(calls, n, H!POST_TRANSACTION(tx))
    BY <1>4 DEF HandleTransaction, H!AddTransactionBytes
  <2>2. UNCHANGED <<block, Blocks, PendingBlocks>>
    BY <1>4 DEF HandleTransaction, H!AddTransactionBytes, H!chainVars
  <2> QED
    BY <1>1, <1>3, <2>1, <2>2, CalmMerge
<1>5. ASSUME NEW n \in Node, Mine(n)
      PROVE  MergeInv'
  <2>1. PICK receivers \in WrittenTo(n) : \/ H!FindProof(n, receivers)
                                          \/ H!FindProofAgain(n, receivers)
    BY <1>1, <1>5 DEF Mine, NoteMissed
  <2>2. CASE H!FindProof(n, receivers)
    BY <1>1, <2>2, FindProofMerge
  <2>3. CASE H!FindProofAgain(n, receivers)
    <3>1. PICK c : calls' = H!Spawn(H!Broadcast(calls, receivers, c), n, c)
      BY <2>3 DEF H!FindProofAgain, H!AnnounceProof
    <3>2. \A k \in Node : DOMAIN calls[k] \subseteq DOMAIN calls'[k]
      <4> DEFINE sent == H!Broadcast(calls, receivers, c)
      <4>1. /\ DOMAIN sent = Node
            /\ \A k \in Node : DOMAIN calls[k] \subseteq DOMAIN sent[k]
        BY <1>1, BroadcastKeeps
      <4>2. calls' = H!Spawn(sent, n, c)
        BY <3>1
      <4> HIDE DEF sent
      <4>3. \A k \in Node : DOMAIN sent[k] \subseteq DOMAIN H!Spawn(sent, n, c)[k]
        BY ONLY n \in Node, <4>1, SpawnKeeps
      <4> QED
        BY ONLY <4>1, <4>2, <4>3
    <3>3. UNCHANGED <<block, Blocks, PendingBlocks>>
      BY <2>3 DEF H!FindProofAgain, H!chainVars
    <3> QED
      BY <1>1, <3>2, <3>3, CalmMerge
  <2> QED
    BY <2>1, <2>2, <2>3
<1>6. ASSUME NEW n \in Node, User(n)
      PROVE  MergeInv'
  <2>1. UNCHANGED <<block, Blocks, PendingBlocks>>
    BY <1>1, <1>6 DEF User, Transfer, CheckFunds, PostTransaction, AddTransaction,
                      ResendPendingTransactions, chainVars
  <2>2. \A k \in Node : DOMAIN calls[k] \subseteq DOMAIN calls'[k]
    <3>1. CASE PostTransaction(n)
      <4>1. PICK receivers, c : calls' = H!Broadcast(calls, receivers, c)
        BY <3>1 DEF PostTransaction
      <4> QED
        BY <1>1, <4>1, BroadcastKeeps
    <3>2. CASE ResendPendingTransactions(n)
      BY <3>2 DEF ResendPendingTransactions, H!AddAll
    <3>3. CASE Transfer(n) \/ CheckFunds(n) \/ AddTransaction(n)
      BY <1>1, <3>3 DEF Transfer, CheckFunds, AddTransaction
    <3> QED
      BY <1>6, <3>1, <3>2, <3>3 DEF User
  <2> QED
    BY <1>1, <2>1, <2>2, CalmMerge
<1>7. ASSUME UNCHANGED <<block, Blocks, PendingBlocks, calls>>
      PROVE  MergeInv'
  BY <1>1, <1>7, CalmMerge
<1>8. ASSUME NEW n \in Node, NEW p \in Node, Meet(n, p)
      PROVE  MergeInv'
  BY <1>7, <1>8 DEF Meet, chainVars
<1>9. ASSUME UNCHANGED vars
      PROVE  MergeInv'
  BY <1>7, <1>9 DEF vars, chainVars
<1>10. ASSUME NEW n \in Node, HandleRequest(n)
       PROVE  MergeInv'
  BY <1>1, <1>10, RequestMerge DEF HandleRequest
<1> QED
  BY <1>1, <1>2, <1>4, <1>5, <1>6, <1>8, <1>9, <1>10 DEF Next, HandleBlock, Exit

\* Inductive beside ForestInv and SentInv, with HonestBlocksReplay.
THEOREM MergeInvariant == Spec => [](Whole => MergeInv)
<1>1. /\ ForestInv /\ SentInv /\ HonestBlocksReplay /\ (Whole => MergeInv)
      /\ [Next]_vars
      => (Whole => MergeInv)'
  BY NextMerge
<1>2. Init => (Whole => MergeInv)
  BY InitMerge DEF Whole
<1> QED
  BY <1>1, <1>2, ForestInvariant, SentInvariant, TcpHonestBlocksAreReplayed, PTL DEF Spec

\* At rest no block waits for another: the lowest one would wait for a block that
\* is nowhere on its way.
LEMMA NothingStuck ==
  ASSUME ForestInv, MergeInv, AtRest
  PROVE  \A n \in Node : PendingBlocks[n] = {}
<1>1. \A n \in Node : \A b : ~ H!Pending(n, H!PROOF_FOUND(b))
  BY DEF AtRest, H!Pending, H!PROOF_FOUND
<1>2. \A k, n \in Node : \A b : ~ H!Pending(k, H!MISSING_BLOCK(n, b))
  BY DEF AtRest, H!Pending, H!MISSING_BLOCK
<1>3. ASSUME NEW n \in Node, NEW u \in PendingBlocks[n]
      PROVE  /\ u \in DOMAIN block /\ block[u].len \in Nat /\ block[u].len # 0
             /\ block[u].prev \in PendingBlocks[n]
             /\ block[u].len = block[block[u].prev].len + 1
             /\ block[block[u].prev].len \in Nat
  <2>1. /\ u \in DOMAIN block /\ ~ H!IsGenesisBlock(u)
        /\ block[u].prev \notin DOMAIN Blocks[n]
        /\ Arrives(n, block[u].prev) \/ Asked(n, block[u].prev)
    BY DEF MergeInv, StuckOK
  <2>2. block[u].prev \in PendingBlocks[n]
    BY <1>1, <1>2, <2>1 DEF Arrives, Asked
  <2> QED
    BY <2>1, <2>2 DEF ForestInv, ForestOK, H!IsGenesisBlock
<1> DEFINE S == {k \in Nat : \A n \in Node : \A u \in PendingBlocks[n] : block[u].len # k}
<1>4. 0 \in S
  BY <1>3
<1>5. ASSUME NEW k \in Nat, k \in S
      PROVE  k + 1 \in S
  <2> SUFFICES ASSUME NEW n \in Node, NEW u \in PendingBlocks[n], block[u].len = k + 1
               PROVE  FALSE
    OBVIOUS
  <2>1. block[block[u].prev].len = k /\ block[u].prev \in PendingBlocks[n]
    BY <1>3
  <2> QED
    BY <1>5, <2>1
<1> HIDE DEF S
<1>6. \A k \in Nat : k \in S
  BY <1>4, <1>5, LedgerInstance, L!Add!NatSetInduction
<1> QED
  BY <1>3, <1>6 DEF S

\* Processes that knew each other from the start, and missed no block and no
\* request, agree as soon as none is on its way, whatever trees they grew from
\* however many genesis blocks.
THEOREM TcpProcessesAgreeAtRest == Spec => []AgreeAtRest
<1>1. ForestInv /\ (Whole => MergeInv) => AgreeAtRest
  <2> SUFFICES ASSUME ForestInv, MergeInv, AtRest, NEW n \in Node, NEW p \in Node
               PROVE  block[LastBlock[n]].len <= block[LastBlock[p]].len
    <3>1. ASSUME ForestInv, NEW n \in Node
          PROVE  block[LastBlock[n]].len \in Nat
      BY <3>1 DEF ForestInv, ForestOK, KnownOK, HeadOK
    <3> QED
      BY <3>1 DEF AgreeAtRest, Whole
  <2> DEFINE head == LastBlock[n]
  <2>1. /\ head \in DOMAIN block /\ block[head].len \in Nat
        /\ block[LastBlock[p]].len \in Nat
    BY DEF ForestInv, ForestOK, KnownOK, HeadOK
  <2>2. CASE block[head].len = 0
    BY <2>1, <2>2
  <2>3. CASE block[head].len # 0
    <3>1. Arrives(p, head)
      BY <2>1, <2>3 DEF MergeInv, Mined, H!IsGenesisBlock
    <3>2. head \in DOMAIN Blocks[p]
      BY <3>1, NothingStuck DEF Arrives, AtRest, H!Pending, H!PROOF_FOUND
    <3> QED
      BY <3>2 DEF ForestInv, HeadOK
  <2> QED
    BY <2>2, <2>3
<1> QED
  BY <1>1, ForestInvariant, MergeInvariant, PTL

\* Among processes that knew each other from the start a block is stranded only
\* when a listener dropped a block or a request: not by the order in which blocks,
\* requests and answers arrive.
THEOREM TcpBlocksAreRequested ==
  Spec => [](Complete /\ ~ missed => NoStrandedBlocks)
<1>1. MergeInv /\ Complete => NoStrandedBlocks
  <2> SUFFICES ASSUME MergeInv, up = Node, NEW n \in Node, NEW u \in PendingBlocks[n]
               PROVE  LET prev == block[u].prev
                      IN  \/ prev \in PendingBlocks[n]
                          \/ H!Pending(n, H!PROOF_FOUND(prev))
                          \/ \E p \in Node : /\ prev \in DOMAIN Blocks[p]
                                             /\ H!Pending(p, H!MISSING_BLOCK(n, prev))
    BY DEF NoStrandedBlocks, Complete
  <2> QED
    BY DEF MergeInv, StuckOK, Arrives, Asked
<1>2. Complete /\ ~ missed <=> Whole
  BY DEF Whole
<1> QED
  BY <1>1, <1>2, MergeInvariant, PTL

-----------------------------------------------------------------------------
(* Wallets.  IssuedInv: what is carried of the first process with a key has *)
(* a nonce of its own.  So the block that executes the nonce of a pending  *)
(* transaction has that transaction, and SetLastConfirmed removes it.      *)

IssuedOnce(S) ==
  \A t, u \in S :
    OnlyProcess(t.from) /\ t.from = u.from /\ t.nonce = u.nonce => t = u

WalletsAreOwn ==
  \A n \in Node :
    /\ L!Finite(PendingOutgoingTransactions[n])
    /\ \A tx \in PendingOutgoingTransactions[n] : tx.from = n

\* S can be what has been posted so far.
IssuedInv ==
  /\ WalletsAreOwn
  /\ \E S \in SUBSET Sent :
       /\ Carried(S) /\ IssuedOnce(S)
       /\ \A n \in Node : user[n].step = "add" => user[n].tx \in S

\* The steps that change wallets, and the blocks these are compared with.
LEMMA WalletSteps ==
  ASSUME [Next]_vars
  PROVE  \/ \E n \in Node, b \in DOMAIN block : H!AcceptBlock(n, b)
         \/ \E n \in Node : PostTransaction(n) \/ StartProcess(n)
         \/ UNCHANGED <<Blocks, LastConfirmedBlock, walletVars>>
<1> DEFINE Step ==
      \/ \E n \in Node, b \in DOMAIN block : H!AcceptBlock(n, b)
      \/ \E n \in Node : PostTransaction(n) \/ StartProcess(n)
      \/ UNCHANGED <<Blocks, LastConfirmedBlock, walletVars>>
<1>1. ASSUME NEW n \in Node, HandleBlock(n)
      PROVE  Step
  <2>1. PICK b \in DOMAIN block : ReceiveBlock(n, b)
    BY <1>1 DEF HandleBlock
  <2> QED
    BY <2>1 DEF ReceiveBlock, H!IgnoreBlock, H!StickBlock, H!chainVars, H!walletVars,
                walletVars
<1>2. ASSUME NEW n \in Node,
             \/ Exit(n) \/ HandleRequest(n) \/ HandleTransaction(n)
             \/ \E p \in Node : Meet(n, p)
      PROVE  Step
  BY <1>2
     DEF Exit, EndProcess, HandleRequest, ProvideMissingBlock, Meet, HandleTransaction,
         H!AddTransactionBytes, chainVars, H!chainVars, H!walletVars, walletVars
<1>3. ASSUME NEW n \in Node, User(n), ~ PostTransaction(n)
      PROVE  Step
  BY <1>3
     DEF User, Transfer, CheckFunds, EndProcess, AddTransaction,
         ResendPendingTransactions, chainVars
<1>4. ASSUME NEW n \in Node, Mine(n)
      PROVE  Step
  BY <1>4 DEF Mine, H!FindProof, H!FindProofAgain, H!chainVars, H!walletVars, walletVars
<1>5. CASE UNCHANGED vars
  BY <1>5 DEF vars, chainVars
<1> QED
  BY <1>1, <1>2, <1>3, <1>4, <1>5 DEF Next

\* How the thread of n's menu comes to post, and to have posted.
LEMMA UserSteps ==
  ASSUME UsersOK, [Next]_vars, NEW n \in Node
  PROVE  /\ user'[n].step = "add" =>
              user'[n] = user[n] \/ (PostTransaction(n) /\ user'[n].tx = user[n].tx)
         /\ user'[n].step = "post" =>
              \/ user'[n] = user[n] /\ ~ PostTransaction(n)
              \/ /\ CheckFunds(n) /\ user'[n].tx = user[n].tx
                 /\ H!TotalOutput(user[n].tx) <= H!AvailableGold(n)
                 /\ UNCHANGED <<Blocks, LastConfirmedBlock, walletVars>>
<1> DEFINE Goal ==
      /\ user'[n].step = "add" =>
           user'[n] = user[n] \/ (PostTransaction(n) /\ user'[n].tx = user[n].tx)
      /\ user'[n].step = "post" =>
           \/ user'[n] = user[n] /\ ~ PostTransaction(n)
           \/ /\ CheckFunds(n) /\ user'[n].tx = user[n].tx
              /\ H!TotalOutput(user[n].tx) <= H!AvailableGold(n)
              /\ UNCHANGED <<Blocks, LastConfirmedBlock, walletVars>>
<1>1. PostTransaction(n) =>
        /\ user'[n].tx = user[n].tx /\ user'[n].step = "add"
        /\ user[n].step = "post"
  <2> SUFFICES ASSUME PostTransaction(n)
               PROVE  user'[n].tx = user[n].tx /\ user'[n].step = "add"
                      /\ user[n].step = "post"
    OBVIOUS
  <2>1. user[n].step = "post" /\ user'[n] = [user[n] EXCEPT !.step = "add"]
    BY DEF PostTransaction, Goes, UsersOK
  <2>2. user[n] = [step |-> user[n].step, tx |-> user[n].tx]
    BY <2>1, UsersTransaction
  <2> QED
    BY <2>1, <2>2
<1>2. user'[n] = user[n] => Goal
  BY <1>1
<1>3. user'[n] = Menu => Goal
  BY DEF Menu
<1>4. ASSUME NEW k \in Node, User(k)
      PROVE  Goal
  <2>1. CASE PostTransaction(k)
    <3>1. k # n => user'[n] = user[n]
      BY <2>1 DEF PostTransaction, Goes, UsersOK
    <3> QED
      BY <1>1, <1>2, <2>1, <3>1
  <2>2. CASE CheckFunds(k)
    <3>1. CASE EndProcess(k)
      <4>1. user'[n] = Menu \/ user'[n] = user[n]
        BY <3>1 DEF EndProcess, UsersOK
      <4> QED
        BY <1>2, <1>3, <4>1
    <3>2. CASE ~ EndProcess(k)
      <4>1. /\ user[k].step = "check" /\ user' = [user EXCEPT ![k] = [@ EXCEPT !.step = "post"]]
            /\ H!TotalOutput(user[k].tx) <= H!AvailableGold(k)
            /\ UNCHANGED <<Blocks, LastConfirmedBlock, walletVars>>
        BY <2>2, <3>2 DEF CheckFunds, Goes, chainVars
      <4>2. CASE k # n
        <5>1. user'[n] = user[n]
          BY <4>1, <4>2
        <5> QED
          BY <1>2, <5>1
      <4>3. CASE k = n
        <5>1. user[n] = [step |-> "check", tx |-> user[n].tx]
          BY <4>1, <4>3, UsersTransaction
        <5>2. user'[n] = [user[n] EXCEPT !.step = "post"]
          BY <4>1, <4>3 DEF UsersOK
        <5>3. user'[n].tx = user[n].tx /\ user'[n].step = "post"
          BY ONLY <5>1, <5>2
        <5> QED
          BY <2>2, <4>1, <4>3, <5>3
      <4> QED
        BY <4>2, <4>3
    <3> QED
      BY <3>1, <3>2
  <2>3. CASE Transfer(k)
    <3>1. PICK tx : user' = [user EXCEPT ![k] = [step |-> "check", tx |-> tx]]
      BY <2>3 DEF Transfer, Goes
    <3>2. user'[n] = user[n] \/ user'[n].step = "check"
      BY <3>1 DEF UsersOK
    <3> QED
      BY <1>2, <3>2
  <2>4. CASE AddTransaction(k)
    <3>1. user'[n] = user[n] \/ user'[n] = Menu
      BY <2>4 DEF AddTransaction, Goes, UsersOK
    <3> QED
      BY <1>2, <1>3, <3>1
  <2>5. CASE ResendPendingTransactions(k)
    BY <1>2, <2>5 DEF ResendPendingTransactions
  <2> QED
    BY <1>4, <2>1, <2>2, <2>3, <2>4, <2>5 DEF User
<1>5. ASSUME NEW k \in Node, Exit(k)
      PROVE  Goal
  <2>1. user'[n] = Menu \/ user'[n] = user[n]
    BY <1>5 DEF Exit, EndProcess, UsersOK
  <2> QED
    BY <1>2, <1>3, <2>1
<1>6. ASSUME NEW k \in Node, StartProcess(k) \/ HandleRequest(k) \/ \E p \in Node : Meet(k, p)
      PROVE  user' = user
  BY <1>6 DEF StartProcess, HandleRequest, ProvideMissingBlock, Meet
<1>7. ASSUME NEW k \in Node, HandleBlock(k) \/ HandleTransaction(k) \/ Mine(k)
      PROVE  user' = user
  BY <1>7 DEF HandleBlock, ReceiveBlock, HandleTransaction, Mine
<1>8. UNCHANGED vars => user' = user
  BY DEF vars
<1> HIDE DEF Goal
<1>9. Goal
  BY <1>2, <1>4, <1>5, <1>6, <1>7, <1>8 DEF Next
<1> QED
  BY <1>9 DEF Goal

LEMMA InitIssued == Init => IssuedInv
<1> SUFFICES ASSUME Init PROVE IssuedInv
  OBVIOUS
<1>1. \A b \in DOMAIN block : block[b].txs = <<>>
  BY DEF Init, H!GenesisHeader
<1>2. <<>> \in Seq({}) /\ L!Finite({})
  BY EmptySequence, LedgerInstance, L!FiniteUnion
<1>3. \A n \in Node : CurrentBlock[n].txs = <<>>
  BY DEF Init, H!NewBlock
<1>4. CallsIn(calls, {})
  <2>1. calls = [n \in Node |-> <<>>]
    BY DEF Init
  <2> QED
    BY ONLY <2>1 DEF CallsIn
<1>5. /\ PendingOutgoingTransactions = [n \in Node |-> {}]
      /\ Transactions = [n \in Node |-> {}]
      /\ user = [n \in Node |-> Menu]
  BY DEF Init
<1>6. Carried({})
  BY <1>1, <1>2, <1>3, <1>4, <1>5 DEF Carried
<1>7. WalletsAreOwn /\ \A n \in Node : user[n].step # "add"
  BY <1>2, <1>5 DEF WalletsAreOwn, Menu
<1> QED
  BY <1>6, <1>7 DEF IssuedInv, IssuedOnce

LEMMA NextIssued ==
  ASSUME ForestInv, SentInv, IssuedInv, [Next]_vars
  PROVE  IssuedInv'
<1> PICK S \in SUBSET Sent :
      /\ Carried(S) /\ IssuedOnce(S)
      /\ \A n \in Node : user[n].step = "add" => user[n].tx \in S
  BY DEF IssuedInv
<1> PICK T : T = S \cup {user[n].tx : n \in {k \in Node : PostTransaction(k)}}
  OBVIOUS
<1>1. ASSUME NEW n \in Node, PostTransaction(n)
      PROVE  /\ user[n].tx \in L!WellFormed /\ user[n].tx.from = n
             /\ user[n].tx.nonce = Nonce[n] /\ Nonce[n] \in Nat
             /\ PendingOutgoingTransactions' =
                  [PendingOutgoingTransactions EXCEPT ![n] = @ \cup {user[n].tx}]
  <2>1. user[n].step = "post"
    BY <1>1 DEF PostTransaction
  <2> QED
    BY <1>1, <2>1, UsersTransaction DEF SentInv, UsersOK, PostTransaction
<1>2. /\ \A n \in Node : PostTransaction(n) \/ AddTransaction(n) => user[n].tx \in T
      /\ S \subseteq T /\ T \subseteq Sent' /\ T \subseteq L!WellFormed
  <2>1. \A n \in Node : PostTransaction(n) \/ AddTransaction(n) => user[n].tx \in T
    BY DEF AddTransaction
  <2>2. S \subseteq L!WellFormed /\ S \subseteq Sent'
    BY SentGrows DEF SentInv, Sent
  <2>3. T \subseteq Sent'
    BY <2>2, PostedIsSent DEF SentInv
  <2>4. T \subseteq L!WellFormed
    BY <1>1, <2>2
  <2> QED
    BY <2>1, <2>3, <2>4
<1>3. Carried(T)'
  <2>1. Carried(T)
    BY <1>2, CarriedGrows
  <2> QED
    BY <1>2, <2>1, CarriedStep DEF SentInv
<1>4. IssuedOnce(T)'
  <2> SUFFICES ASSUME NEW t \in T, NEW u \in T, OnlyProcess(t.from)',
                      t.from = u.from, t.nonce = u.nonce
               PROVE  t = u
    BY DEF IssuedOnce
  <2>1. t.from \in Node
    BY <1>2 DEF Sent
  <2>2. OnlyProcess(t.from)
    BY <2>1, OnlyBefore DEF SentInv
  <2>3. \A x \in S : x.from = t.from => x.nonce < Nonce[t.from]
    BY <2>2 DEF Sent, Fresh
  <2>4. \A x \in T : x \in S \/ (/\ PostTransaction(x.from) /\ x = user[x.from].tx
                                 /\ x.nonce = Nonce[x.from] /\ Nonce[x.from] \in Nat)
    BY <1>1
  <2>5. CASE t \in S /\ u \in S
    BY <2>2, <2>5 DEF IssuedOnce
  <2>6. CASE t \notin S /\ u \notin S
    BY <2>4, <2>6
  <2>7. CASE t \in S /\ u \notin S
    <3>1. t.nonce < Nonce[t.from] /\ u.nonce = Nonce[t.from] /\ Nonce[t.from] \in Nat
      BY <2>3, <2>4, <2>7
    <3> QED
      BY <3>1
  <2>8. CASE t \notin S /\ u \in S
    <3>1. u.nonce < Nonce[t.from] /\ t.nonce = Nonce[t.from] /\ Nonce[t.from] \in Nat
      BY <2>3, <2>4, <2>8
    <3> QED
      BY <3>1
  <2> QED
    BY <2>5, <2>6, <2>7, <2>8
<1>5. \A n \in Node : user'[n].step = "add" => user'[n].tx \in T
  <2> SUFFICES ASSUME NEW n \in Node, user'[n].step = "add"
               PROVE  user'[n].tx \in T
    OBVIOUS
  <2>1. user'[n] = user[n] \/ (PostTransaction(n) /\ user'[n].tx = user[n].tx)
    BY UserSteps DEF SentInv
  <2> QED
    BY <1>2, <2>1
<1>6. WalletsAreOwn'
  <2> DEFINE OK(pending) == \A n \in Node : /\ L!Finite(pending[n])
                                            /\ \A tx \in pending[n] : tx.from = n
  <2>1. OK(PendingOutgoingTransactions) /\ DOMAIN PendingOutgoingTransactions = Node
    BY DEF IssuedInv, WalletsAreOwn, Carried
  <2>2. ASSUME NEW k \in Node, NEW b \in DOMAIN block, H!AcceptBlock(k, b), NEW n \in Node
        PROVE  PendingOutgoingTransactions'[n] \subseteq PendingOutgoingTransactions[n]
    BY <2>1, <2>2 DEF H!AcceptBlock, H!SetLastConfirmed
  <2>3. ASSUME NEW k \in Node, NEW b \in DOMAIN block, H!AcceptBlock(k, b)
        PROVE  OK(PendingOutgoingTransactions')
    BY <2>1, <2>2, <2>3, LedgerInstance, L!SubsetFinite
  <2>4. ASSUME NEW k \in Node, PostTransaction(k)
        PROVE  OK(PendingOutgoingTransactions')
    <3>1. /\ PendingOutgoingTransactions' =
               [PendingOutgoingTransactions EXCEPT ![k] = @ \cup {user[k].tx}]
          /\ user[k].tx.from = k
      BY <1>1, <2>4
    <3>2. L!Finite(PendingOutgoingTransactions[k] \cup {user[k].tx})
      BY <2>1, LedgerInstance, L!FiniteUnion
    <3> QED
      BY <2>1, <3>1, <3>2
  <2>5. ASSUME NEW k \in Node, StartProcess(k)
        PROVE  OK(PendingOutgoingTransactions')
    <3>1. PendingOutgoingTransactions' = [PendingOutgoingTransactions EXCEPT ![k] = {}]
      BY <2>5 DEF StartProcess
    <3>2. L!Finite({})
      BY LedgerInstance, L!FiniteUnion
    <3> QED
      BY <2>1, <3>1, <3>2
  <2>6. UNCHANGED walletVars => OK(PendingOutgoingTransactions')
    BY <2>1 DEF walletVars
  <2>7. OK(PendingOutgoingTransactions')
    BY <2>3, <2>4, <2>5, <2>6, WalletSteps
  <2> QED
    BY <2>7 DEF WalletsAreOwn
<1> QED
  BY <1>2, <1>3, <1>4, <1>5, <1>6 DEF IssuedInv

-----------------------------------------------------------------------------
(* What SetLastConfirmed does to a wallet.                                  *)

\* A step that stays on the confirmed chain confirms the same block or a child
\* of it.
LEMMA ConfirmedMoves ==
  ASSUME ForestInv, NEW n \in Node, NEW b \in DOMAIN block, H!AcceptBlock(n, b),
         H!Longer(n, b), NEW new, new = H!ConfirmedAncestor(b),
         block[LastConfirmedBlock[n]] \in H!Lineage(block[new])
  PROVE  /\ new \in DOMAIN Blocks[n]
         /\ \/ new = LastConfirmedBlock[n]
            \/ ~ H!IsGenesisBlock(new) /\ block[new].prev = LastConfirmedBlock[n]
<1> DEFINE old      == LastConfirmedBlock[n]
           p        == block[b].prev
           head     == block[LastBlock[n]]
           Low(len) == IF len > CONFIRMED_DEPTH THEN len - CONFIRMED_DEPTH ELSE 0
           low      == Low(block[b].len)
<1>1. /\ old \in DOMAIN block /\ block[old].id = old
      /\ head.len \in Nat /\ block[old].len = Low(head.len)
      /\ CONFIRMED_DEPTH \in Nat \ {0}
  BY ConfirmedKnown, TcpMinerAssumption
<1>2. head.len < block[b].len /\ block[b].len \in Nat
  BY DEF H!Longer, ForestInv, ForestOK
<1>3. /\ p \in DOMAIN Blocks[n] /\ p \in DOMAIN block
      /\ block[b].len = block[p].len + 1 /\ block[b].chain = H!Chain(block[p])
      /\ block[p].id = p /\ block[p].len \in Nat /\ block[p].len <= head.len
  <2>1. ~ H!IsGenesisBlock(b)
    BY <1>1, <1>2 DEF H!IsGenesisBlock
  <2>2. p \in DOMAIN Blocks[n]
    BY <2>1, AcceptKnown
  <2> QED
    BY <2>1, <2>2 DEF ForestInv, ForestOK, KnownOK, HeadOK
<1>4. block[b].len = head.len + 1
  BY <1>1, <1>2, <1>3
<1>5. new \in DOMAIN Blocks[n] /\ new \in DOMAIN block
      /\ block[new].len = low /\ block[new].id = new
  <2>1. new = H!Chain(block[p])[low] /\ low \in 0 .. block[p].len
    <3>1. new = block[b].chain[low]
      BY DEF H!ConfirmedAncestor
    <3> HIDE DEF p
    <3>2. low \in 0 .. block[p].len
      BY <1>1, <1>2, <1>3
    <3> QED
      BY <1>3, <3>1, <3>2
  <2> HIDE DEF Low, p, low
  <2>2. CASE low = block[p].len
    <3>1. new = p
      BY <1>3, <2>1, <2>2 DEF H!Chain
    <3> QED
      BY <1>3, <2>2, <3>1
  <2>3. CASE low # block[p].len
    <3>1. new = block[p].chain[low] /\ low \in 0 .. block[p].len - 1
      BY <1>3, <2>1, <2>3 DEF H!Chain
    <3>2. new \in DOMAIN Blocks[n] /\ block[new].len = low
      BY <1>3, <3>1 DEF ForestInv, HeightsOK, AncestorsKnown
    <3> QED
      BY <3>2 DEF ForestInv, ForestOK, KnownOK
  <2> QED
    BY <2>2, <2>3
<1>6. \/ block[new].len = block[old].len
      \/ block[new].len = block[old].len + 1
  BY <1>1, <1>4, <1>5
<1>7. block[old].len \in Nat /\ block[new].len \in Nat
  BY <1>1, <1>5 DEF ForestInv, ForestOK
<1> HIDE DEF old, p, head, Low, low
<1>8. \/ block[old] = block[new]
      \/ \E h \in 0 .. block[new].len - 1 : block[old] = block[block[new].chain[h]]
  BY DEF H!Lineage, old
<1>9. ASSUME NEW h \in 0 .. block[new].len - 1, block[old] = block[block[new].chain[h]]
      PROVE  ~ H!IsGenesisBlock(new) /\ block[new].prev = old
  <2>1. block[new].chain[h] \in DOMAIN block /\ block[block[new].chain[h]].len = h
    BY <1>5, <1>9 DEF ForestInv, HeightsOK
  <2>2. block[new].chain[h] = old /\ h = block[old].len
    BY <1>1, <1>9, <2>1 DEF ForestInv, ForestOK
  <2>3. block[new].len = h + 1 /\ ~ H!IsGenesisBlock(new)
    BY <1>6, <1>7, <2>2 DEF H!IsGenesisBlock
  <2> DEFINE q == block[new].prev
  <2>4. /\ q \in DOMAIN block /\ block[q].id = q
        /\ block[new].len = block[q].len + 1 /\ block[new].chain = H!Chain(block[q])
        /\ block[q].len \in Nat
    BY <1>5, <2>3 DEF ForestInv, ForestOK
  <2>5. block[new].chain[h] = q
    BY <2>3, <2>4 DEF H!Chain
  <2> QED
    BY <2>2, <2>3, <2>5
<1>10. block[old] = block[new] => old = new
  BY <1>1, <1>5
<1> QED
  BY <1>5, <1>8, <1>9, <1>10 DEF old

\* A block has the nonces of its sender between the one of its parent and its
\* own.
LEMMA OwnNonces ==
  ASSUME ForestInv, SentInv, NEW n \in Node, NEW b \in DOMAIN Blocks[n],
         ~ H!IsGenesisBlock(b)
  PROVE  L!NoncesInOrder(Blocks[n][block[b].prev].nextNonce,
                         Blocks[n][b].nextNonce, block[b].txs)
<1> DEFINE p == block[b].prev
<1>1. /\ p \in DOMAIN Blocks[n] /\ b \in DOMAIN block
      /\ Blocks[n][b] = L!LedgerAfter(block[p], Blocks[n][p], block[b].txs)
      /\ L!RerunSucceeds(block[p], Blocks[n][p], block[b].txs)
      /\ block[b].txs \in Seq(Sent) /\ Blocks[n][p] \in L!LedgerType
  BY SameRerun DEF ForestInv, KnownOK, SentInv, LedgersOK, Carried
<1> QED
  BY <1>1, SentIsWellFormed, LedgerInstance, L!RerunKeepsNonces

\* SetLastConfirmed leaves pending what the newly confirmed block does not have,
\* and what that block has of the node's own was pending.
LEMMA ConfirmExact ==
  ASSUME ForestInv, SentInv, IssuedInv, NEW n \in Node, OnlyProcess(n), H!WalletExact(n),
         NEW new \in DOMAIN Blocks[n],
         \/ new = LastConfirmedBlock[n]
         \/ ~ H!IsGenesisBlock(new) /\ block[new].prev = LastConfirmedBlock[n]
  PROVE  LET own  == L!OwnOf(n, block[new].txs)
             left == {tx \in PendingOutgoingTransactions[n] :
                        ~ H!Contains(block[new].txs, tx)}
         IN  /\ left = PendingOutgoingTransactions[n] \ own
             /\ {tx.nonce : tx \in left} = Blocks[n][new].nextNonce[n] .. Nonce[n] - 1
             /\ new = LastConfirmedBlock[n] => left = PendingOutgoingTransactions[n]
             /\ new # LastConfirmedBlock[n] => own \subseteq PendingOutgoingTransactions[n]
<1> PICK S \in SUBSET Sent : Carried(S) /\ IssuedOnce(S)
  BY DEF IssuedInv
<1> DEFINE old         == LastConfirmedBlock[n]
           txs         == block[new].txs
           pending     == PendingOutgoingTransactions[n]
           own         == L!OwnOf(n, txs)
           left        == {tx \in pending : ~ H!Contains(txs, tx)}
           Executed(b) == Blocks[n][b].nextNonce[n]
<1>1. /\ txs \in Seq(S) /\ n \in Address /\ new \in DOMAIN block
      /\ Executed(old) \in Nat /\ Executed(new) \in Nat /\ Nonce[n] \in Nat
      /\ \A tx \in S : tx.nonce \in Nat /\ (tx.from = n => tx.nonce < Nonce[n])
  <2>1. n \in Address /\ L!Amount \subseteq Nat
    BY ONLY n \in Node, NodesHaveAmounts
  <2>2. Blocks[n][old] \in L!LedgerType /\ Blocks[n][new] \in L!LedgerType
    BY ConfirmedKnown DEF SentInv, LedgersOK
  <2>3. Executed(old) \in Nat /\ Executed(new) \in Nat
    BY <2>1, <2>2 DEF L!LedgerType
  <2>4. new \in DOMAIN block /\ txs \in Seq(S)
    BY DEF ForestInv, KnownOK, Carried
  <2>5. Nonce[n] \in Nat
    BY DEF SentInv, UsersOK
  <2>6. \A tx \in S : tx.nonce \in Nat /\ (tx.from = n => tx.nonce < Nonce[n])
    BY DEF Sent, Fresh, L!WellFormed
  <2> QED
    BY <2>1, <2>3, <2>4, <2>5, <2>6
<1>2. pending \subseteq S /\ \A tx \in pending : tx.from = n
  BY DEF IssuedInv, WalletsAreOwn, Carried
<1>3. {tx.nonce : tx \in pending} = Executed(old) .. Nonce[n] - 1
  BY DEF H!WalletExact
<1>4. /\ \A tx \in own : tx \in S /\ tx.from = n
      /\ \A tx : tx \in own <=> \E i \in DOMAIN txs : txs[i] = tx /\ tx.from = n
      /\ \A tx : H!Contains(txs, tx) <=> \E i \in DOMAIN txs : txs[i] = tx
  BY <1>1 DEF L!OwnOf, L!ToSet, H!Contains
<1>5. /\ \A tx \in own : tx.nonce < Executed(new)
      /\ new # old =>
           /\ \A tx \in own : Executed(old) <= tx.nonce
           /\ \A k \in Nat : Executed(old) <= k /\ k < Executed(new) =>
                \E tx \in own : tx.nonce = k
      /\ Executed(old) <= Executed(new)
  <2>1. CASE H!IsGenesisBlock(new)
    <3>1. txs = <<>> /\ new = old
      BY <1>1, <2>1 DEF ForestInv, ForestOK, H!GenesisHeader
    <3>2. own = {}
      BY <1>4, <3>1
    <3> HIDE DEF txs, own, Executed, old
    <3> QED
      BY <1>1, <3>1, <3>2
  <2>2. CASE ~ H!IsGenesisBlock(new)
    <3> DEFINE first == Blocks[n][block[new].prev].nextNonce
               next  == Blocks[n][new].nextNonce
    <3>1. L!NoncesInOrder(first, next, txs)
      BY <2>2, OwnNonces
    <3>2. new # old => first[n] = Executed(old)
      OBVIOUS
    <3>3. next[n] = Executed(new)
      OBVIOUS
    <3>4. new = old => Executed(new) = Executed(old)
      OBVIOUS
    <3> HIDE DEF first, next, txs, own, Executed, old
    <3>5. /\ first[n] <= next[n]
          /\ \A i \in DOMAIN txs : txs[i].from = n =>
               first[n] <= txs[i].nonce /\ txs[i].nonce < next[n]
          /\ \A k \in Nat : first[n] <= k /\ k < next[n] =>
               \E i \in DOMAIN txs : txs[i].from = n /\ txs[i].nonce = k
      BY <1>1, <3>1 DEF L!NoncesInOrder
    <3>6. \A tx \in own : first[n] <= tx.nonce /\ tx.nonce < next[n]
      BY <1>4, <3>5
    <3>7. \A k \in Nat : first[n] <= k /\ k < next[n] => \E tx \in own : tx.nonce = k
      BY <1>4, <3>5
    <3>8. new # old => Executed(old) <= Executed(new)
      BY <3>2, <3>3, <3>5
    <3> QED
      BY <1>1, <3>2, <3>3, <3>4, <3>6, <3>7, <3>8
  <2> QED
    BY <2>1, <2>2
<1> HIDE DEF old, txs, pending, own, Executed
<1>6. left = pending \ own
  BY <1>2, <1>4
<1> HIDE DEF left
<1>7. new # old => own \subseteq pending
  <2> SUFFICES ASSUME new # old, NEW tx \in own PROVE tx \in pending
    OBVIOUS
  <2>1. tx.nonce \in Executed(old) .. Nonce[n] - 1
    BY <1>1, <1>4, <1>5
  <2>2. PICK t \in pending : t.nonce = tx.nonce
    BY <1>3, <2>1
  <2> QED
    BY <1>2, <1>4, <2>2 DEF IssuedOnce
<1>8. new = old => left = pending
  <2> SUFFICES ASSUME new = old, NEW tx \in pending, tx \in own PROVE FALSE
    BY <1>6
  <2>1. tx.nonce \in Executed(old) .. Nonce[n] - 1
    BY <1>3
  <2> QED
    BY <1>1, <1>5, <2>1
<1>9. {tx.nonce : tx \in left} = Executed(new) .. Nonce[n] - 1
  <2>1. CASE new = old
    BY <1>3, <1>8, <2>1
  <2>2. CASE new # old
    <3>1. ASSUME NEW tx \in left
          PROVE  tx.nonce \in Executed(new) .. Nonce[n] - 1
      <4>1. tx \in pending /\ tx \notin own /\ tx.nonce \in Executed(old) .. Nonce[n] - 1
        BY <1>3, <1>6
      <4>2. ASSUME tx.nonce < Executed(new)
            PROVE  FALSE
        <5>1. PICK t \in own : t.nonce = tx.nonce
          BY <1>1, <1>5, <2>2, <4>1, <4>2
        <5> QED
          BY <1>2, <1>4, <4>1, <5>1 DEF IssuedOnce
      <4> QED
        BY <1>1, <4>1, <4>2
    <3>2. ASSUME NEW k \in Executed(new) .. Nonce[n] - 1
          PROVE  \E tx \in left : tx.nonce = k
      <4>1. k \in Executed(old) .. Nonce[n] - 1
        BY <1>1, <1>5
      <4>2. PICK tx \in pending : tx.nonce = k
        BY <1>3, <4>1
      <4>3. tx \notin own
        BY <1>1, <1>5, <4>2
      <4> QED
        BY <1>6, <4>2, <4>3
    <3> QED
      BY <3>1, <3>2
  <2> QED
    BY <2>1, <2>2
<1>10. /\ left = {tx \in PendingOutgoingTransactions[n] : ~ H!Contains(block[new].txs, tx)}
       /\ own = L!OwnOf(n, block[new].txs) /\ pending = PendingOutgoingTransactions[n]
       /\ old = LastConfirmedBlock[n] /\ Executed(new) = Blocks[n][new].nextNonce[n]
  BY DEF left, own, pending, old, txs, Executed
<1> QED
  BY <1>6, <1>7, <1>8, <1>9, <1>10

-----------------------------------------------------------------------------
(* Funds.  What a block takes from the wallet of a node it takes from the   *)
(* balance, and no more.                                                   *)

PendingGold(n) == L!SumOver(L!Payments, PendingOutgoingTransactions[n])

LEMMA SamePending ==
  ASSUME NEW P
  PROVE  L!MapThenSumSet(L!TotalOutput, P) = H!MapThenSumSet(H!TotalOutput, P)
  BY DEF L!MapThenSumSet, L!MapThenFoldSet, L!TotalOutput, L!FoldLeft, L!Uint, L!Max,
         H!MapThenSumSet, H!MapThenFoldSet, H!TotalOutput, H!FoldLeft, H!Uint, H!Max

LEMMA SamePrice == \A tx : L!TotalOutput(tx) = H!TotalOutput(tx)
  BY DEF L!TotalOutput, L!FoldLeft, L!MapThenFoldSet, L!Uint, L!Max,
         H!TotalOutput, H!FoldLeft, H!MapThenFoldSet, H!Uint, H!Max

\* A wallet in numbers; that of a node that has not paid yet is in order.
FundsRead(n) ==
  /\ PendingGold(n) \in Nat /\ H!ConfirmedBalance(n) \in Nat
  /\ FundsCovered(n) <=> PendingGold(n) <= H!ConfirmedBalance(n)
  /\ FundsCovered(n) =>
       H!AvailableGold(n) = H!ConfirmedBalance(n) - PendingGold(n)
  /\ OnlyProcess(n) /\ Nonce[n] = 0 => H!WalletExact(n) /\ FundsCovered(n)

LEMMA PendingPayments ==
  ASSUME SentInv, IssuedInv, NEW n \in Node
  PROVE  /\ PendingOutgoingTransactions[n] \in SUBSET L!WellFormed
         /\ L!Finite(PendingOutgoingTransactions[n])
         /\ \A tx \in L!WellFormed : /\ L!Payments[tx] \in Nat
                                     /\ L!Payments[tx] = H!TotalOutput(tx)
<1>1. PendingOutgoingTransactions[n] \in SUBSET L!WellFormed
  BY DEF SentInv, Carried, Sent
<1>2. ASSUME NEW tx \in L!WellFormed
      PROVE  L!Payments[tx] \in Nat /\ L!Payments[tx] = H!TotalOutput(tx)
  <2>1. L!TotalOutput(tx) \in L!Amount
    BY LedgerInstance, L!TotalOutputIsAmount
  <2>2. L!Amount \subseteq Nat
    BY NodesHaveAmounts
  <2> QED
    BY <2>1, <2>2, SamePrice DEF L!Payments
<1> QED
  BY <1>1, <1>2 DEF IssuedInv, WalletsAreOwn

LEMMA FundsAreGold ==
  ASSUME ForestInv, SentInv, IssuedInv, NonceIsFresh, NEW n \in Node
  PROVE  FundsRead(n)
<1> DEFINE P     == PendingOutgoingTransactions[n]
           gold  == PendingGold(n)
           bal   == H!ConfirmedBalance(n)
           exact == H!MapThenSumSet(H!TotalOutput, P)
           next  == Blocks[n][LastConfirmedBlock[n]].nextNonce[n]
<1>1. /\ P \in SUBSET L!WellFormed /\ L!Finite(P)
      /\ \A tx \in P : L!Payments[tx] \in Nat
  BY PendingPayments
<1>2. gold \in Nat
  BY <1>1, LedgerInstance, L!SumTakesEach DEF PendingGold
<1>3. bal \in L!Amount /\ bal \in Nat /\ next \in Nat /\ L!Amount = 0 .. UintRange - 1
  <2>1. /\ Blocks[n][LastConfirmedBlock[n]] \in L!LedgerType /\ n \in Address
        /\ L!Amount \subseteq Nat /\ L!Amount = 0 .. UintRange - 1
    <3>1. LastConfirmedBlock[n] \in DOMAIN Blocks[n]
      BY ConfirmedKnown
    <3>2. Blocks[n][LastConfirmedBlock[n]] \in L!LedgerType
      BY <3>1 DEF SentInv, LedgersOK
    <3> QED
      BY ONLY <3>2, n \in Node, NodesHaveAmounts DEF L!Amount
  <2> QED
    BY <2>1 DEF H!ConfirmedBalance, L!LedgerType
<1>4. exact = gold
  <2>1. L!MapThenSumSet(L!TotalOutput, P) = L!SumOver(L!Payments, P)
    BY <1>1, LedgerInstance, L!PaymentsAreSummed
  <2> QED
    BY <2>1, SamePending DEF PendingGold
<1>5. FundsCovered(n) <=> gold <= bal
  BY <1>4 DEF FundsCovered
<1>6. H!AvailableGold(n) = L!Uint(bal - L!Uint(gold))
  BY <1>4 DEF H!AvailableGold, H!PendingSpent, H!Uint, L!Uint
<1> HIDE DEF gold, bal, next, exact
<1>7. ASSUME gold <= bal
      PROVE  H!AvailableGold(n) = bal - gold
  <2>1. /\ gold \in L!Amount /\ bal - gold \in L!Amount
        /\ gold \in Int /\ bal - gold \in Int
    BY <1>2, <1>3, <1>7, TcpMinerAssumption
  <2>2. L!Uint(gold) = gold /\ L!Uint(bal - gold) = bal - gold
    BY <2>1, LedgerInstance, L!UintIsAmount
  <2> QED
    BY <1>6, <2>2
<1>8. ASSUME OnlyProcess(n), Nonce[n] = 0
      PROVE  H!WalletExact(n) /\ gold <= bal
  <2>1. P = {}
    <3> SUFFICES ASSUME NEW tx \in P PROVE FALSE
      OBVIOUS
    <3>1. tx \in Sent /\ tx.from = n
      BY DEF SentInv, Carried, IssuedInv, WalletsAreOwn
    <3> QED
      BY <1>8, <3>1 DEF Sent, Fresh, L!WellFormed
  <2>2. gold = 0
    <3>1. L!Finite({}) /\ P = {}
      BY <2>1, LedgerInstance, L!FiniteUnion
    <3>2. L!SumOver(L!Payments, {}) = 0
      BY <3>1, LedgerInstance, L!SumTakesAny
    <3> QED
      BY <3>1, <3>2 DEF PendingGold, gold
  <2>3. {tx.nonce : tx \in P} = next .. Nonce[n] - 1
    BY <1>3, <1>8, <2>1
  <2> QED
    BY <1>3, <2>2, <2>3 DEF H!WalletExact, next
<1> QED
  BY <1>2, <1>3, <1>5, <1>7, <1>8 DEF FundsRead, gold, bal

\* A block whose parent is confirmed takes from a balance no more than what it
\* has of the node's own.
LEMMA ConfirmSpends ==
  ASSUME ForestInv, SentInv, HonestInv, NEW n \in Node, NEW new \in DOMAIN Blocks[n],
         ~ H!IsGenesisBlock(new)
  PROVE  Blocks[n][block[new].prev].balances[n]
           <= Blocks[n][new].balances[n] + L!SpentBy(n, block[new].txs)
<1> DEFINE old    == block[new].prev
           parent == block[old]
           ledger == Blocks[n][old]
           txs    == block[new].txs
<1> PICK led : LedgersAre(led)
  BY DEF HonestInv
<1>1. /\ old \in DOMAIN Blocks[n] /\ old \in DOMAIN block /\ new \in DOMAIN block
      /\ Blocks[n][new] = L!LedgerAfter(parent, ledger, txs)
      /\ L!RerunSucceeds(parent, ledger, txs)
      /\ ledger \in L!LedgerType /\ txs \in Seq(Sent) /\ n \in Address
  <2>1. old \in DOMAIN Blocks[n] /\ old \in DOMAIN block /\ new \in DOMAIN block
    BY DEF ForestInv, KnownOK
  <2>2. /\ Blocks[n][new] = L!LedgerAfter(parent, ledger, txs)
        /\ L!RerunSucceeds(parent, ledger, txs)
    BY SameRerun DEF ForestInv, KnownOK, SentInv, LedgersOK
  <2>3. ledger \in L!LedgerType /\ txs \in Seq(Sent) /\ n \in Address
    BY <2>1, NodesHaveAmounts DEF SentInv, LedgersOK, Carried
  <2> QED
    BY <2>1, <2>2, <2>3
<1>2. HasRoom(parent, ledger)
  BY <1>1 DEF LedgersAre
<1>3. /\ L!TotalOf(ledger.balances) + L!RewardOf(parent) < UintRange
      /\ parent.rewardAddr \in Address \cup {NoAddress}
  BY <1>1, <1>2, RoomFits DEF HonestInv
<1> HIDE DEF parent, ledger, txs
<1>4. ledger.balances[n] <= L!LedgerAfter(parent, ledger, txs).balances[n] + L!SpentBy(n, txs)
  BY <1>1, <1>3, SentFits, LedgerInstance, L!RerunSpends
<1>5. Blocks[n][new] = L!LedgerAfter(parent, ledger, txs)
  BY <1>1
<1> QED
  BY <1>4, <1>5 DEF ledger, txs

\* What SetLastConfirmed does to what is left for spending.
LEMMA ConfirmFunds ==
  ASSUME ForestInv, SentInv, IssuedInv, HonestInv, NEW n \in Node, OnlyProcess(n),
         H!WalletExact(n), PendingGold(n) <= H!ConfirmedBalance(n),
         NEW new \in DOMAIN Blocks[n],
         \/ new = LastConfirmedBlock[n]
         \/ ~ H!IsGenesisBlock(new) /\ block[new].prev = LastConfirmedBlock[n]
  PROVE  LET left == {tx \in PendingOutgoingTransactions[n] :
                        ~ H!Contains(block[new].txs, tx)}
         IN  H!ConfirmedBalance(n) - PendingGold(n)
               <= Blocks[n][new].balances[n] - L!SumOver(L!Payments, left)
<1> DEFINE P     == PendingOutgoingTransactions[n]
           txs   == block[new].txs
           own   == L!OwnOf(n, txs)
           left  == {tx \in P : ~ H!Contains(txs, tx)}
           after == Blocks[n][new].balances[n]
           bal   == H!ConfirmedBalance(n)
<1>1. bal \in Nat /\ after \in Nat
  <2>1. n \in Address /\ L!Amount \subseteq Nat
    BY ONLY n \in Node, NodesHaveAmounts
  <2>2. LastConfirmedBlock[n] \in DOMAIN Blocks[n]
    BY ConfirmedKnown
  <2>3. /\ Blocks[n][LastConfirmedBlock[n]] \in L!LedgerType
        /\ Blocks[n][new] \in L!LedgerType
    BY <2>2 DEF SentInv, LedgersOK
  <2> QED
    BY <2>1, <2>3 DEF H!ConfirmedBalance, L!LedgerType
<1>2. /\ L!Finite(P) /\ \A tx \in P : L!Payments[tx] \in Nat
      /\ PendingGold(n) = L!SumOver(L!Payments, P) /\ PendingGold(n) \in Nat
  <2>1. /\ P \in SUBSET L!WellFormed /\ L!Finite(P)
        /\ \A tx \in P : L!Payments[tx] \in Nat
    BY PendingPayments
  <2> QED
    BY <2>1, LedgerInstance, L!SumTakesEach DEF PendingGold
<1>3. /\ left = P \ own
      /\ new = LastConfirmedBlock[n] => left = P
      /\ new # LastConfirmedBlock[n] => own \subseteq P
  BY ConfirmExact
<1>4. /\ new = LastConfirmedBlock[n] => after = bal
      /\ new # LastConfirmedBlock[n] => bal <= after + L!SpentBy(n, txs)
  BY ConfirmSpends DEF H!ConfirmedBalance
<1>5. L!SpentBy(n, txs) = L!SumOver(L!Payments, own)
  BY DEF L!SpentBy
<1> HIDE DEF P, own, left, after, bal, txs
<1>6. bal - PendingGold(n) <= after - L!SumOver(L!Payments, left)
  <2>1. CASE new = LastConfirmedBlock[n]
    BY <1>1, <1>2, <1>3, <1>4, <2>1
  <2>2. CASE new # LastConfirmedBlock[n]
    <3>1. own \in SUBSET P
      BY <1>3, <2>2
    <3>2. /\ L!SumOver(L!Payments, P)
               = L!SumOver(L!Payments, own) + L!SumOver(L!Payments, P \ own)
          /\ L!SumOver(L!Payments, own) \in Nat /\ L!SumOver(L!Payments, P \ own) \in Nat
      BY <1>2, <3>1, LedgerInstance, L!PaymentsSplit
    <3> QED
      BY <1>1, <1>2, <1>3, <1>4, <1>5, <2>2, <3>2
  <2> QED
    BY <2>1, <2>2
<1> QED
  BY <1>6 DEF P, left, after, bal, txs

\* A wallet in order is so after every step but a payment of its own, unless the
\* step leaves the confirmed chain; and no less is left for spending.
LEMMA StepFunds ==
  ASSUME ForestInv, SentInv, IssuedInv, HonestInv, [Next]_vars, NEW n \in Node,
         FundsRead(n), FundsRead(n)', OnlyProcess(n),
         ~ StartProcess(n), ~ PostTransaction(n), H!WalletExact(n), FundsCovered(n),
         block[LastConfirmedBlock[n]] \in H!Lineage(block[LastConfirmedBlock[n]])'
  PROVE  /\ H!WalletExact(n)' /\ FundsCovered(n)'
         /\ H!AvailableGold(n)' >= H!AvailableGold(n)
<1> DEFINE old  == LastConfirmedBlock[n]
           bal  == H!ConfirmedBalance(n)
           gold == PendingGold(n)
<1>1. /\ gold \in Nat /\ bal \in Nat /\ gold <= bal
      /\ H!AvailableGold(n) = bal - gold
      /\ gold' \in Nat /\ bal' \in Nat
      /\ FundsCovered(n)' <=> gold' <= bal'
      /\ FundsCovered(n)' => H!AvailableGold(n)' = bal' - gold'
  BY DEF FundsRead
<1>2. Nonce'[n] = Nonce[n]
  BY NonceSteps DEF SentInv
<1>3. old \in DOMAIN Blocks[n] /\ old \in DOMAIN block
  BY ConfirmedKnown
<1>4. H!WalletExact(n)' /\ bal - gold <= bal' - gold'
  <2>1. ASSUME LastConfirmedBlock'[n] = old, Blocks'[n][old] = Blocks[n][old],
               PendingOutgoingTransactions'[n] = PendingOutgoingTransactions[n]
        PROVE  H!WalletExact(n)' /\ bal - gold <= bal' - gold'
    <3>1. bal' = bal /\ gold' = gold
      BY <2>1 DEF H!ConfirmedBalance, PendingGold
    <3>2. H!WalletExact(n)'
      BY <1>2, <2>1 DEF H!WalletExact
    <3> QED
      BY <1>1, <3>1, <3>2
  <2>2. ASSUME NEW k \in Node, NEW b \in DOMAIN block, H!AcceptBlock(k, b)
        PROVE  H!WalletExact(n)' /\ bal - gold <= bal' - gold'
    <3>1. CASE k # n \/ ~ H!Longer(k, b)
      <4>1. LastConfirmedBlock'[n] = old /\ Blocks'[n][old] = Blocks[n][old]
        BY <1>3, <2>2, <3>1, AcceptHead, AcceptKnown
      <4>2. PendingOutgoingTransactions'[n] = PendingOutgoingTransactions[n]
        BY <2>2, <3>1 DEF H!AcceptBlock, H!SetLastConfirmed, SentInv, Carried
      <4> QED
        BY <2>1, <4>1, <4>2
    <3>2. CASE k = n /\ H!Longer(n, b)
      <4> DEFINE new  == H!ConfirmedAncestor(b)
                 left == {tx \in PendingOutgoingTransactions[n] :
                            ~ H!Contains(block[new].txs, tx)}
      <4>1. LastConfirmedBlock'[n] = new /\ block' = block
        BY <2>2, <3>2, AcceptHead, AcceptKnown
      <4>2. PendingOutgoingTransactions'[n] = left
        BY <2>2, <3>2 DEF H!AcceptBlock, H!SetLastConfirmed, SentInv, Carried
      <4>3. block[old] \in H!Lineage(block[new])
        BY <4>1 DEF H!Lineage
      <4>4. /\ new \in DOMAIN Blocks[n]
            /\ \/ new = old
               \/ ~ H!IsGenesisBlock(new) /\ block[new].prev = old
        BY <2>2, <3>2, <4>3, ConfirmedMoves
      <4>5. Blocks'[n][new] = Blocks[n][new]
        BY <2>2, <3>2, <4>4, AcceptKnown
      <4>6. {tx.nonce : tx \in left} = Blocks[n][new].nextNonce[n] .. Nonce[n] - 1
        BY <4>4, ConfirmExact
      <4>7. bal - gold <= Blocks[n][new].balances[n] - L!SumOver(L!Payments, left)
        BY <1>1, <4>4, ConfirmFunds
      <4> HIDE DEF new, left
      <4>8. bal' = Blocks[n][new].balances[n] /\ gold' = L!SumOver(L!Payments, left)
        BY <4>1, <4>2, <4>5 DEF H!ConfirmedBalance, PendingGold
      <4>9. H!WalletExact(n)'
        BY <1>2, <4>1, <4>2, <4>5, <4>6 DEF H!WalletExact
      <4> QED
        BY <4>7, <4>8, <4>9
    <3> QED
      BY <3>1, <3>2
  <2>3. ASSUME NEW k \in Node, k # n, PostTransaction(k) \/ StartProcess(k)
        PROVE  H!WalletExact(n)' /\ bal - gold <= bal' - gold'
    BY <2>1, <2>3
       DEF PostTransaction, StartProcess, StartChain, chainVars, SentInv, Carried,
           ForestInv, Domains
  <2>4. CASE UNCHANGED <<Blocks, LastConfirmedBlock, walletVars>>
    BY <2>1, <2>4 DEF walletVars
  <2> QED
    BY <2>2, <2>3, <2>4, WalletSteps
<1> HIDE DEF bal, gold
<1>5. gold' <= bal'
  BY <1>1, <1>4
<1> QED
  BY <1>1, <1>4, <1>5

FundsKnown == \A n \in Node : FundsRead(n)

LEMMA FundsInvariant == Spec => [](IssuedInv /\ FundsKnown)
<1>1. ForestInv /\ SentInv /\ IssuedInv /\ [Next]_vars => IssuedInv'
  BY NextIssued
<1>2. ForestInv /\ SentInv /\ IssuedInv /\ NonceIsFresh => FundsKnown
  BY FundsAreGold DEF FundsKnown
<1> QED
  BY <1>1, <1>2, InitIssued, ForestInvariant, SentInvariant, TcpNonceIsFresh, PTL DEF Spec

\* What CheckFunds saw is still there when the payment is posted: what else the
\* node does in between never lowers the available gold of a wallet in order,
\* unless it leaves a block it has confirmed.
THEOREM TcpFundsStayAvailable == Spec => FundsStayAvailable
<1> DEFINE Inv  == ForestInv /\ SentInv /\ IssuedInv /\ HonestInv /\ FundsKnown
           Kept == \A n \in up \cap up' :
                     /\ OnlyProcess(n)
                     /\ Nonce'[n] = Nonce[n]
                     /\ H!WalletExact(n) /\ FundsCovered(n)
                     /\ block[LastConfirmedBlock[n]]
                          \in H!Lineage(block[LastConfirmedBlock[n]])'
                     => H!AvailableGold(n)' >= H!AvailableGold(n)
<1>1. ASSUME Inv, Inv', [Next]_vars
      PROVE  Kept
  <2> SUFFICES ASSUME NEW n \in up \cap up', OnlyProcess(n), Nonce'[n] = Nonce[n],
                      H!WalletExact(n), FundsCovered(n),
                      block[LastConfirmedBlock[n]]
                        \in H!Lineage(block[LastConfirmedBlock[n]])'
               PROVE  H!AvailableGold(n)' >= H!AvailableGold(n)
    OBVIOUS
  <2>1. n \in Node /\ ~ StartProcess(n)
    BY <1>1 DEF SentInv, UsersOK, StartProcess
  <2>2. ~ PostTransaction(n)
    BY <1>1, <2>1, NonceSteps DEF SentInv, UsersOK
  <2>3. FundsRead(n) /\ FundsRead(n)'
    BY <1>1, <2>1 DEF FundsKnown
  <2> QED
    BY <1>1, <2>1, <2>2, <2>3, StepFunds
<1>2. Inv /\ Inv' /\ [Next]_vars => [Kept]_vars
  BY <1>1
<1>3. Spec => []Inv
  BY ForestInvariant, SentInvariant, HonestInvariant, FundsInvariant, PTL
<1>4. Spec => [][Kept]_vars
  BY <1>2, <1>3, PTL DEF Spec
<1> QED
  BY <1>4 DEF FundsStayAvailable

-----------------------------------------------------------------------------
(* Payments of a node whose confirmed blocks stay confirmed.               *)

\* Once it pays, a node that is the first process with its key leaves no block it
\* has confirmed.  Before that it may: joining the network is such a step.
TransfersAreFinal ==
  [][\A n \in Node :
       OnlyProcess(n)' /\ (Nonce[n] # 0 \/ user[n].step = "post") =>
         block[LastConfirmedBlock[n]] \in H!Lineage(block[LastConfirmedBlock[n]])']_vars

\* The wallet is in order, and a payment about to be posted is covered.
FundsOK(n) ==
  /\ H!WalletExact(n) /\ FundsCovered(n)
  /\ user[n].step = "post" => H!TotalOutput(user[n].tx) <= H!AvailableGold(n)

FundsInv == \A n \in Node : OnlyProcess(n) => FundsOK(n)

LEMMA PostFunds ==
  ASSUME ForestInv, SentInv, IssuedInv, NonceIsFresh, NEW n \in Node,
         FundsRead(n), FundsRead(n)', OnlyProcess(n), PostTransaction(n), [Next]_vars,
         FundsOK(n)
  PROVE  FundsOK(n)'
<1> DEFINE tx   == user[n].tx
           P    == PendingOutgoingTransactions[n]
           all  == P \cup {tx}
           next == Blocks[n][LastConfirmedBlock[n]].nextNonce[n]
<1>1. /\ user[n].step = "post" /\ n \in up
      /\ tx \in L!WellFormed /\ tx.nonce = Nonce[n] /\ Nonce[n] \in Nat
      /\ L!Payments[tx] \in Nat /\ L!Payments[tx] = H!TotalOutput(tx)
  <2>1. user[n].step = "post"
    BY DEF PostTransaction
  <2>2. /\ tx \in L!WellFormed /\ tx.nonce = Nonce[n] /\ n \in up
    BY <2>1, UsersTransaction DEF SentInv
  <2> QED
    BY <2>1, <2>2, PendingPayments DEF SentInv, UsersOK
<1>2. /\ PendingOutgoingTransactions'[n] = all
      /\ LastConfirmedBlock' = LastConfirmedBlock /\ Blocks' = Blocks
      /\ Nonce'[n] = Nonce[n] + 1
  BY NonceSteps DEF PostTransaction, chainVars, SentInv, Carried
<1>3. user'[n].step # "post"
  BY <1>1, UserSteps DEF SentInv, CheckFunds
<1>4. /\ PendingGold(n) \in Nat /\ H!ConfirmedBalance(n) \in Nat
      /\ H!AvailableGold(n) = H!ConfirmedBalance(n) - PendingGold(n)
      /\ H!TotalOutput(tx) <= H!AvailableGold(n)
  BY <1>1 DEF FundsOK, FundsRead
<1>5. /\ \A t \in P : t.nonce < Nonce[n] /\ L!Payments[t] \in Nat
      /\ L!Finite(P)
  <2>1. \A t \in P : t \in Sent /\ t.from = n
    BY DEF SentInv, Carried, IssuedInv, WalletsAreOwn
  <2>2. \A t \in P : t.nonce < Nonce[n]
    BY <2>1 DEF Sent, Fresh
  <2> QED
    BY <2>2, PendingPayments
<1> HIDE DEF tx, P
<1>6. L!Finite(all) /\ all \ {tx} = P /\ tx \in all /\ \A t \in all : L!Payments[t] \in Nat
  <2>1. L!Finite(P \cup {tx})
    BY <1>5, LedgerInstance, L!FiniteUnion
  <2>2. tx \notin P
    BY <1>1, <1>5
  <2> QED
    BY <1>1, <1>5, <2>1, <2>2
<1> HIDE DEF all
<1>7. L!SumOver(L!Payments, all) = L!Payments[tx] + L!SumOver(L!Payments, all \ {tx})
  BY <1>6, LedgerInstance, L!SumTakesEach
<1>8. PendingGold(n)' <= H!ConfirmedBalance(n)'
  <2>1. PendingGold(n) = L!SumOver(L!Payments, P)
    BY DEF PendingGold, P
  <2>2. PendingGold(n)' = L!Payments[tx] + PendingGold(n)
    BY <1>2, <1>6, <1>7, <2>1 DEF PendingGold
  <2>3. H!ConfirmedBalance(n)' = H!ConfirmedBalance(n)
    BY <1>2 DEF H!ConfirmedBalance
  <2> QED
    BY <1>1, <1>4, <2>2, <2>3
<1>9. H!WalletExact(n)'
  <2>1. next \in Nat /\ next <= Nonce[n]
    <3>1. Blocks[n][LastConfirmedBlock[n]] \in L!LedgerType /\ n \in Address
          /\ L!Amount \subseteq Nat
      <4>1. LastConfirmedBlock[n] \in DOMAIN Blocks[n]
        BY ConfirmedKnown
      <4>2. Blocks[n][LastConfirmedBlock[n]] \in L!LedgerType
        BY <4>1 DEF SentInv, LedgersOK
      <4> QED
        BY ONLY <4>2, n \in Node, NodesHaveAmounts
    <3> QED
      BY <1>1, <3>1 DEF NonceIsFresh, L!LedgerType
  <2>2. {t.nonce : t \in P} = next .. Nonce[n] - 1
    BY DEF FundsOK, H!WalletExact, P
  <2> HIDE DEF next
  <2>3. {t.nonce : t \in all} = {t.nonce : t \in P} \cup {Nonce[n]}
    BY <1>1 DEF all
  <2>4. (next .. Nonce[n] - 1) \cup {Nonce[n]} = next .. Nonce'[n] - 1
    BY <1>1, <1>2, <2>1
  <2>5. {t.nonce : t \in all} = next .. Nonce'[n] - 1
    BY <2>2, <2>3, <2>4
  <2> QED
    BY <1>2, <2>5 DEF H!WalletExact, next
<1> QED
  BY <1>3, <1>8, <1>9 DEF FundsOK, FundsRead

LEMMA NextFunds ==
  ASSUME ForestInv, SentInv, IssuedInv, HonestInv, NonceIsFresh, [Next]_vars,
         NEW n \in Node, FundsRead(n), FundsRead(n)', OnlyProcess(n)', FundsInv,
         Nonce[n] # 0 \/ user[n].step = "post" =>
           block[LastConfirmedBlock[n]] \in H!Lineage(block[LastConfirmedBlock[n]])'
  PROVE  FundsOK(n)'
<1>1. OnlyProcess(n) /\ ~ StartProcess(n) /\ FundsOK(n)
  BY OnlyBefore DEF SentInv, FundsInv
<1>2. user'[n].step = "post" =>
        \/ user'[n] = user[n] /\ ~ PostTransaction(n)
        \/ /\ user'[n].tx = user[n].tx /\ H!TotalOutput(user[n].tx) <= H!AvailableGold(n)
           /\ UNCHANGED <<Blocks, LastConfirmedBlock, walletVars>>
  BY UserSteps DEF SentInv
<1>3. UNCHANGED <<Blocks, LastConfirmedBlock, walletVars>> =>
        H!AvailableGold(n)' = H!AvailableGold(n)
  BY DEF walletVars, H!AvailableGold, H!ConfirmedBalance, H!PendingSpent
<1>4. CASE Nonce[n] = 0 /\ user[n].step # "post"
  <2>1. Nonce'[n] = 0
    BY <1>1, <1>4, NonceSteps DEF SentInv, PostTransaction
  <2>2. H!WalletExact(n)' /\ FundsCovered(n)'
    BY <2>1 DEF FundsRead
  <2>3. user'[n].step = "post" => H!TotalOutput(user'[n].tx) <= H!AvailableGold(n)'
    BY <1>2, <1>3, <1>4
  <2> QED
    BY <2>2, <2>3 DEF FundsOK
<1>5. CASE PostTransaction(n)
  BY <1>1, <1>5, PostFunds
<1>6. CASE ~ PostTransaction(n) /\ (Nonce[n] # 0 \/ user[n].step = "post")
  <2>1. /\ H!WalletExact(n)' /\ FundsCovered(n)'
        /\ H!AvailableGold(n)' >= H!AvailableGold(n)
    BY <1>1, <1>6, StepFunds DEF FundsOK
  <2>2. ASSUME user'[n] = user[n], user[n].step = "post"
        PROVE  H!TotalOutput(user'[n].tx) <= H!AvailableGold(n)'
    <3>1. H!TotalOutput(user[n].tx) \in Nat
      BY <2>2, UsersTransaction, PendingPayments DEF SentInv
    <3>2. H!TotalOutput(user[n].tx) <= H!AvailableGold(n)
      BY <1>1, <2>2 DEF FundsOK
    <3>3. H!AvailableGold(n) \in Int /\ H!AvailableGold(n)' \in Int
      BY <1>1, <2>1 DEF FundsOK, FundsRead
    <3> DEFINE worth == H!TotalOutput(user[n].tx)
               gold  == H!AvailableGold(n)
    <3>4. worth <= gold' /\ H!TotalOutput(user'[n].tx) = worth
      <4>1. H!TotalOutput(user'[n].tx) = worth
        BY <2>2
      <4> HIDE DEF worth, gold
      <4>2. worth \in Nat /\ gold \in Int /\ gold' \in Int /\ worth <= gold /\ gold' >= gold
        BY <2>1, <3>1, <3>2, <3>3 DEF worth, gold
      <4> QED
        BY <4>1, <4>2
    <3> QED
      BY <3>4
  <2>3. user'[n].step = "post" => H!TotalOutput(user'[n].tx) <= H!AvailableGold(n)'
    BY <1>2, <1>3, <2>2
  <2> QED
    BY <2>1, <2>3 DEF FundsOK
<1> QED
  BY <1>4, <1>5, <1>6 DEF PostTransaction

\* So between CheckFunds and PostTransaction nothing spends the same gold: the
\* pending payments of such a node are those its confirmed chain does not have,
\* and never worth more than the confirmed balance.
THEOREM TcpFundsStayCovered ==
  Spec /\ TransfersAreFinal =>
    [](\A n \in Node : OnlyProcess(n) => H!WalletExact(n) /\ FundsCovered(n))
<1> DEFINE Inv   == /\ ForestInv /\ SentInv /\ IssuedInv /\ HonestInv
                    /\ NonceIsFresh /\ FundsKnown
           Final == \A n \in Node :
                      OnlyProcess(n)' /\ (Nonce[n] # 0 \/ user[n].step = "post") =>
                        block[LastConfirmedBlock[n]]
                          \in H!Lineage(block[LastConfirmedBlock[n]])'
<1>1. Init /\ Inv => FundsInv
  <2> SUFFICES ASSUME Init, Inv, NEW n \in Node, OnlyProcess(n) PROVE FundsOK(n)
    BY DEF FundsInv
  <2>1. Nonce[n] = 0 /\ user[n].step # "post"
    BY DEF Init, Menu
  <2> QED
    BY <2>1 DEF FundsKnown, FundsRead, FundsOK
<1>2. ASSUME Inv, Inv', [Next]_vars, FundsInv, [Final]_vars
      PROVE  FundsInv'
  <2> SUFFICES ASSUME NEW n \in Node, OnlyProcess(n)' PROVE FundsOK(n)'
    BY DEF FundsInv
  <2>1. FundsRead(n) /\ FundsRead(n)'
    BY <1>2 DEF FundsKnown
  <2>2. CASE Final
    BY <1>2, <2>1, <2>2, NextFunds
  <2>3. CASE UNCHANGED vars
    <3>1. block[LastConfirmedBlock[n]] \in H!Lineage(block[LastConfirmedBlock[n]])'
      BY <2>3 DEF vars, chainVars, H!Lineage
    <3> QED
      BY <1>2, <2>1, <3>1, NextFunds
  <2> QED
    BY <1>2, <2>2, <2>3
<1>3. FundsInv => \A n \in Node : OnlyProcess(n) => H!WalletExact(n) /\ FundsCovered(n)
  BY DEF FundsInv, FundsOK
<1>4. Spec => []Inv
  BY ForestInvariant, SentInvariant, HonestInvariant, TcpNonceIsFresh, FundsInvariant, PTL
<1>5. TransfersAreFinal => [][Final]_vars
  BY DEF TransfersAreFinal
<1>6. Spec /\ [][Final]_vars => []FundsInv
  BY <1>1, <1>2, <1>4, PTL DEF Spec
<1> QED
  BY <1>3, <1>5, <1>6, PTL

=============================================================================
