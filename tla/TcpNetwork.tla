----------------------------- MODULE TcpNetwork -----------------------------
(***************************************************************************)
(* What a network of TcpMiner processes guarantees, and what it does not.  *)
(***************************************************************************)
EXTENDS TcpMiner

-----------------------------------------------------------------------------
(* Chains *)

\* A miner searches on the head of its own longest chain, also when it gives up
\* its genesis block for the chain of another process.
MiningOnHead == H!MiningOnHead

\* The walks of SetLastConfirmed and SyncTransaction meet no missing block, and
\* the head is a longest chain with its confirmed block below it: also when a
\* walk ends at two different genesis blocks.
HeadIsLongest == H!HeadIsLongest /\ H!ChainsAreComplete

\* Two nodes agree on the ledger of a block, whatever chains they followed
\* before, and so do a process and the one that was there before it.
LedgerAgreement == H!LedgerAgreement

\* A transaction is executed once on any chain, in the order of the nonces,
\* also when a restarted wallet posts it again with the nonce it had before.
NoReplay == H!NoReplay

Chains == INSTANCE LongestChain
  WITH MinerNode <- Node, Start <- [n \in Node |-> OwnGenesis(n, 0)],
       tree <- H!Tree, known <- H!Known, head <- LastBlock

\* The processes together grow a forest with one root for each of them; a block
\* is learned after its ancestors, and the head only moves to a longer chain,
\* except that a process that starts anew knows its own root and nothing else.
FollowsLongestChain == Chains!RestartSpec

\* Rerun refuses no block that was found, at any process that has its parent,
\* whichever processes the ledgers below it come from, and whether or not the
\* miner that found it has ended since.
HonestBlocksReplay == H!HonestBlocksReplay

\* The wallet knows all that has been posted with its key.
OnlyProcess(n) == Processes(n) = {OwnGenesis(n, 0)}

\* All processes run since the start, and knew each other then.
Complete ==
  /\ up = Node
  /\ \A n \in Node : OnlyProcess(n) /\ Node \ {n} \subseteq KnownAtFirst[n]

\* No block and no request for one is on its way.
AtRest == \A n \in Node : \A c \in DOMAIN calls[n] : c.op = "POST_TRANSACTION"

\* As soon as no block is on its way any more, processes that knew each other
\* from the start have chains of equal length, although these started from
\* different genesis blocks, and a missing block is requested only once: but
\* only as long as no listener has dropped a block or a request.
AgreeAtRest ==
  Complete /\ AtRest /\ ~ missed =>
    \A n, p \in Node : block[LastBlock[n]].len = block[LastBlock[p]].len

\* Under fair scheduling a node that hears of a chain that has another genesis
\* block gets all of it, down to that genesis block, unless a block or a request
\* is missed: nothing asks a second time.
BlocksGetUnstuck ==
  \A n \in Node : (PendingBlocks[n] # {}) ~> (PendingBlocks[n] = {} \/ missed)

\* "Request the previous block from the network" (tcp_miner.go:376): as long as
\* a block waits for its parent and a node of the network has it, the parent is
\* on its way, or waits itself, or is requested of such a node.
NoStrandedBlocks ==
  \A n, k \in up : \A u \in PendingBlocks[n] :
    LET prev == block[u].prev
    IN  Recognizes(n, k) /\ Recognizes(k, n) /\ prev \in DOMAIN Blocks[k] =>
          \/ prev \in PendingBlocks[n]
          \/ H!Pending(n, H!PROOF_FOUND(prev))
          \/ \E p \in up : /\ prev \in DOMAIN Blocks[p]
                           /\ H!Pending(p, H!MISSING_BLOCK(n, prev))

-----------------------------------------------------------------------------
(* Wallets *)

\* The gold of the payments that wait, which PendingSpent reduces to uint32, is
\* there in the confirmed block.
FundsCovered(n) ==
  H!MapThenSumSet(H!TotalOutput, PendingOutgoingTransactions[n])
    <= H!ConfirmedBalance(n)

\* What can be spent does not become less but by posting, as long as the wallet
\* is exact and covered and its confirmed block stays on its chain: the blocks
\* received between the menu's check, that of PostTransaction and its mutex do
\* no harm, and the panic of the second check is over the fee, which the first
\* leaves out.  A payment posted before a restart is one the wallet does not
\* know of.
FundsStayAvailable ==
  [][\A n \in up \cap up' :
       /\ OnlyProcess(n)
       /\ Nonce'[n] = Nonce[n]
       /\ H!WalletExact(n) /\ FundsCovered(n)
       /\ block[LastConfirmedBlock[n]] \in H!Lineage(block[LastConfirmedBlock[n]])'
       => H!AvailableGold(n)' >= H!AvailableGold(n)]_vars

\* A wallet never falls behind the chain it follows, also when it gives up its
\* genesis block for another chain: its next nonce is one that its confirmed
\* chain has not used.  SaveJson does not keep the nonce, so this holds of the
\* first process with a key only: a restarted one counts from 0 again.
NonceIsFresh ==
  \A n \in up : OnlyProcess(n) =>
    Blocks[n][LastConfirmedBlock[n]].nextNonce[n] <= Nonce[n]
=============================================================================
