------------------------------- MODULE Miner --------------------------------
(***************************************************************************)
(* The mining half of a Miner: miner.go.                                   *)
(*                                                                         *)
(* CurrentBlock[m] is the header of the block the miner searches a proof   *)
(* for, with id NoBlock until the proof is found, or NoBlock itself before *)
(* Initialize.  Its id is then <<m, clock[m]>>: no two calls of NewBlock   *)
(* give the same hash, for they read the time.                             *)
(*                                                                         *)
(* A round of FindProof that finds nothing changes only the Proof field of *)
(* the block and starts the next round; it is a stuttering step here.      *)
(***************************************************************************)
EXTENDS Client

CONSTANT MaxBlocks   \* bound: the blocks that are ever proven

ASSUME MinerAssumption == MaxBlocks \in Nat

VARIABLES
  clock,             \* clock[m]: the number of blocks m has proven
  CurrentBlock,
  Transactions       \* Transactions[m]: the pool for the next search

minerVars == <<clock, CurrentBlock, Transactions>>

MinerInit ==
  /\ clock = [m \in MinerNode |-> 0]
  /\ CurrentBlock = [m \in MinerNode |-> NoBlock]
  /\ Transactions = [m \in MinerNode |-> {}]

Initialized(m) == CurrentBlock[m] # NoBlock

-----------------------------------------------------------------------------
(* Searching *)

Chain(header) ==
  [h \in 0 .. header.len |-> IF h = header.len THEN header.id
                                               ELSE header.chain[h]]

\* A mistake ChainsAreComplete rules out: the length of the parent kept.
NewBlockSameLength(m, parent, txs) ==
  [id |-> NoBlock, prev |-> parent.id, len |-> parent.len,
   rewardAddr |-> m, txs |-> txs, chain |-> Chain(parent)]

NewBlock(m, parent, txs) ==
  [id |-> NoBlock, prev |-> parent.id, len |-> parent.len + 1,
   rewardAddr |-> m, txs |-> txs, chain |-> Chain(parent)]

\* The pool goes into the block in the order of Go's map iteration, which is
\* any order, and is emptied whether its transactions were accepted or not.
StartNewSearch(m, head, ledger, pool) ==
  /\ \E order \in SetToSeqs(pool) :
       CurrentBlock' = [CurrentBlock EXCEPT ![m] =
                          NewBlock(m, block[head], FillBlock(ledger, order).txs)]
  /\ Transactions' = [Transactions EXCEPT ![m] = {}]

Initialize(m) ==
  /\ ~ Initialized(m)
  /\ m \in Clients
  /\ StartNewSearch(m, LastBlock[m], Blocks[m][LastBlock[m]], Transactions[m])
  /\ UNCHANGED <<netVars, block, chainVars, walletVars, clock>>

\* A mistake BlocksSpread rules out: the block stays with its miner.
AnnounceToSelf(m, b, receivers) == Spawn(calls, m, PROOF_FOUND(b))

\* The miner broadcasts the block, to itself as well, and starts its own
\* ReceiveBlock in a goroutine.
AnnounceProof(m, b, receivers) ==
  Spawn(Broadcast(calls, receivers, PROOF_FOUND(b)), m, PROOF_FOUND(b))

FindProof(m, receivers) ==
  LET cur == CurrentBlock[m]
      b   == <<m, clock[m]>>
  IN  /\ Initialized(m)
      /\ cur.id = NoBlock
      /\ Cardinality({x \in DOMAIN block : ~ IsGenesisBlock(x)}) < MaxBlocks
      /\ CurrentBlock' = [CurrentBlock EXCEPT ![m].id = b]
      /\ block' = With(block, b, [cur EXCEPT !.id = b])
      /\ clock' = [clock EXCEPT ![m] = @ + 1]
      /\ calls' = AnnounceProof(m, b, receivers)
      /\ UNCHANGED <<Clients, chainVars, walletVars, Transactions>>

\* The next round starts at the proof just found: until the miner receives
\* its own block, or another one of that length, each round announces it.
FindProofAgain(m, receivers) ==
  LET cur == CurrentBlock[m]
  IN  /\ Initialized(m)
      /\ cur.id # NoBlock
      /\ Copies(m, PROOF_FOUND(cur.id)) + 2 <= MaxCopies
      /\ calls' = AnnounceProof(m, cur.id, receivers)
      /\ UNCHANGED <<Clients, block, chainVars, walletVars, minerVars>>

-----------------------------------------------------------------------------
(* Receiving *)

\* A header and its ancestors.
Lineage(header) ==
  {header} \cup {block[header.chain[h]] : h \in 0 .. header.len - 1}

\* A mistake TransactionsAreKept rules out: the two branches exchanged.
SyncExchanged(m, b) ==
  UNION {ToSet(h.txs) : h \in Lineage(block[b]) \ Lineage(CurrentBlock[m])}

\* The transactions of the abandoned blocks, less those of the new blocks.
\* SyncTransaction keeps &transaction.Tx for the variable of a range loop,
\* which go 1.18 reuses in every iteration: all the pointers taken in a block
\* point to its last transaction.  Keys are right, values are not.
SyncTransaction(m, b) ==
  LET cb == Lineage(CurrentBlock[m]) \ Lineage(block[b])
      nb == Lineage(block[b]) \ Lineage(CurrentBlock[m])
      LastOf(headers) == {Last(h.txs) : h \in {x \in headers : x.txs # <<>>}}
      Survives(h) == \E i \in DOMAIN h.txs : h.txs[i] \notin LastOf(nb)
  IN  LastOf({h \in cb : Survives(h)})

\* A mistake MiningOnHead rules out: a block of the same length is ignored.
CutOverTooLate(m, b) ==
  IF Initialized(m) /\ block[b].len > CurrentBlock[m].len
  THEN StartNewSearch(m, LastBlock'[m], Blocks'[m][LastBlock'[m]],
                      Transactions[m] \cup SyncTransaction(m, b))
  ELSE UNCHANGED <<CurrentBlock, Transactions>>

\* The end of ReceiveBlock, after the block was accepted.
CutOver(m, b) ==
  IF Initialized(m) /\ block[b].len >= CurrentBlock[m].len
  THEN StartNewSearch(m, LastBlock'[m], Blocks'[m][LastBlock'[m]],
                      Transactions[m] \cup SyncTransaction(m, b))
  ELSE UNCHANGED <<CurrentBlock, Transactions>>

\* Emit finds no listener before Initialize: the transaction is lost.
AddTransactionBytes(m, tx) ==
  /\ Pending(m, POST_TRANSACTION(tx))
  /\ calls' = Finish(calls, m, POST_TRANSACTION(tx))
  /\ Transactions' = IF Initialized(m)
                     THEN [Transactions EXCEPT ![m] = @ \cup {tx}]
                     ELSE Transactions
  /\ UNCHANGED <<Clients, block, chainVars, walletVars, clock, CurrentBlock>>

\* The miner's own transaction reaches its pool, initialized or not.
AddOwnTransaction(m, tx) ==
  /\ Pending(m, AddTransactionCall(tx))
  /\ calls' = Finish(calls, m, AddTransactionCall(tx))
  /\ Transactions' = [Transactions EXCEPT ![m] = @ \cup {tx}]
  /\ UNCHANGED <<Clients, block, chainVars, walletVars, clock, CurrentBlock>>
=============================================================================
