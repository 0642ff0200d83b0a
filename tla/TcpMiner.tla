------------------------------ MODULE TcpMiner ------------------------------
(***************************************************************************)
(* Processes that mine on RealNet: tcp_miner.go, started and driven by the *)
(* menu of run.go.                                                         *)
(*                                                                         *)
(* TcpMiner repeats the handlers of Miner, and so they are Miner's here,   *)
(* with the receivers that a broadcast reaches in place of all Clients.    *)
(* What differs is written out: messages that get lost, a genesis block    *)
(* for every process, a user who posts in unlocked steps, and restarts.    *)
(*                                                                         *)
(* A process that ends leaves its memory in the variables below until the  *)
(* next one starts; no step reads it.  How nodes register with each other  *)
(* is the subject of Registration; here one comes to know another at once. *)
(***************************************************************************)
EXTENDS RealNet, FiniteSets, BagsExt

CONSTANTS
  Address, NoAddress, StartingBalances, COINBASE_AMT_ALLOWED, UintRange,
  NoBlock, NoGenesis, CONFIRMED_DEPTH, Payment, MaxNonce, MaxCopies, MaxBlocks,
  KnownAtFirst,    \* KnownAtFirst[n]: the connections in n's config file
  MayMeet,         \* the pairs <<n, p>> such that p registers with n later
  MaxProcesses     \* bound: MaxProcesses[n] processes of n are ever started,
                   \* of which the last does not exit, but may panic

\* There is no genesis block that all nodes share: NoGenesis is the id of no
\* block.  The other conditions are those of the modules instantiated below.
ASSUME TcpMinerAssumption ==
  /\ Node # {} /\ Node \subseteq Address
  /\ IsFiniteSet(Address) /\ NoAddress \notin Address
  /\ NoBlock \notin Node \X Nat
  /\ NoGenesis \notin (Node \X Nat) \cup {NoBlock}
  /\ COINBASE_AMT_ALLOWED \in Nat /\ UintRange \in Nat \ {0}
  /\ StartingBalances \in [Address -> 0 .. UintRange - 1]
  /\ CONFIRMED_DEPTH \in Nat \ {0} /\ MaxCopies \in Nat /\ MaxBlocks \in Nat
  /\ KnownAtFirst \in [Node -> SUBSET Node]
  /\ MayMeet \subseteq Node \X Node
  /\ MaxProcesses \in [Node -> Nat]

\* Payments fit into uint32, and so few are made that no nonce wraps around.
ASSUME TcpPaymentAssumption ==
  /\ Payment \subseteq
       [from : Node, fee : 0 .. UintRange - 1,
        outputs : Seq([address : Address, amount : 0 .. UintRange - 1])]
  /\ MaxNonce \in 0 .. UintRange - 1

VARIABLES
  calls, block, Blocks, PendingBlocks, LastBlock, LastConfirmedBlock,
  PendingOutgoingTransactions, Nonce, clock, CurrentBlock, Transactions,
  user,            \* user[n]: what the thread of n's menu does next
  missed           \* history: has a running node ever missed a block, or a
                   \* request, that was written to it?  No step depends on it.

chainVars  == <<Blocks, PendingBlocks, LastBlock, LastConfirmedBlock>>
walletVars == <<PendingOutgoingTransactions, Nonce>>
minerVars  == <<clock, CurrentBlock, Transactions>>
vars == <<netVars, missed, calls, block, chainVars, walletVars, minerVars, user>>

\* The handlers of Miner, and the properties of SpartanGold that do not depend
\* on who is registered.
H == INSTANCE SpartanGold
       WITH MinerNode <- Node, Genesis <- NoGenesis, Joined <- Node

\* All the gold there can be on a chain fits into uint32, and so does what a
\* user pays at once.
ASSUME TcpGoldAssumption ==
  /\ H!TotalOf(StartingBalances) + COINBASE_AMT_ALLOWED * MaxBlocks < UintRange
  /\ \A payment \in Payment : H!ExactTotal(payment) < UintRange

-----------------------------------------------------------------------------
(* Processes *)

Menu == [step |-> "menu"]

\* MakeGenesis reads the clock: every process has a genesis block of its own.
OwnGenesis(n, k) == <<n, k>>

Processes(n) == {b \in DOMAIN block : H!IsGenesisBlock(b) /\ b[1] = n}

Init ==
  /\ up = Node
  /\ Clients = KnownAtFirst
  /\ missed = FALSE
  /\ calls = [n \in Node |-> << >>]
  /\ block = [b \in {OwnGenesis(n, 0) : n \in Node} |-> H!GenesisHeader(b)]
  /\ Blocks = [n \in Node |-> [b \in {OwnGenesis(n, 0)} |-> H!GenesisLedger]]
  /\ PendingBlocks = [n \in Node |-> {}]
  /\ LastBlock = [n \in Node |-> OwnGenesis(n, 0)]
  /\ LastConfirmedBlock = LastBlock
  /\ PendingOutgoingTransactions = [n \in Node |-> {}]
  /\ Nonce = [n \in Node |-> 0]
  /\ clock = [n \in Node |-> 1]
  /\ CurrentBlock = [n \in Node |-> H!NewBlock(n, block[OwnGenesis(n, 0)], <<>>)]
  /\ Transactions = [n \in Node |-> {}]
  /\ user = [n \in Node |-> Menu]

\* The process is gone, and with it what was on its way to it.
EndProcess(n) ==
  /\ up' = up \ {n}
  /\ Clients' = [Clients EXCEPT ![n] = {}]
  /\ calls' = [calls EXCEPT ![n] = << >>]
  /\ user' = [user EXCEPT ![n] = Menu]
  /\ UNCHANGED <<missed, block, chainVars, walletVars, minerVars>>

\* "x", or a crash at any point.
Exit(n) ==
  /\ n \in up
  /\ Cardinality(Processes(n)) < MaxProcesses[n]
  /\ EndProcess(n)

\* A mistake FollowsLongestChain rules out: the blocks outlive the process, its
\* head does not.
StartWithBlocks(n, g) ==
  /\ Blocks' = [Blocks EXCEPT ![n] = H!With(@, g, H!GenesisLedger)]
  /\ LastBlock' = [LastBlock EXCEPT ![n] = g]
  /\ LastConfirmedBlock' = [LastConfirmedBlock EXCEPT ![n] = g]
  /\ PendingBlocks' = [PendingBlocks EXCEPT ![n] = {}]

\* NewTcpMiner and SetGenesisBlock: nothing of the chain was saved.
StartChain(n, g) ==
  /\ Blocks' = [Blocks EXCEPT ![n] = [b \in {g} |-> H!GenesisLedger]]
  /\ LastBlock' = [LastBlock EXCEPT ![n] = g]
  /\ LastConfirmedBlock' = [LastConfirmedBlock EXCEPT ![n] = g]
  /\ PendingBlocks' = [PendingBlocks EXCEPT ![n] = {}]

\* main with option -g: the keys and connections come from the config file, the
\* rest is new.  Initialize starts the search before the listener.
StartProcess(n) ==
  LET g == OwnGenesis(n, clock[n])
      header == H!GenesisHeader(g)
  IN  /\ n \notin up
      /\ Cardinality(Processes(n)) < MaxProcesses[n]
      /\ up' = up \cup {n}
      /\ Clients' = [Clients EXCEPT ![n] = KnownAtFirst[n]]
      /\ block' = H!With(block, g, header)
      /\ StartChain(n, g)
      /\ PendingOutgoingTransactions' =
           [PendingOutgoingTransactions EXCEPT ![n] = {}]
      /\ Nonce' = [Nonce EXCEPT ![n] = 0]
      /\ clock' = [clock EXCEPT ![n] = @ + 1]
      /\ CurrentBlock' =
           [CurrentBlock EXCEPT ![n] = H!NewBlock(n, header, <<>>)]
      /\ Transactions' = [Transactions EXCEPT ![n] = {}]
      /\ UNCHANGED <<missed, calls, user>>

\* The handler of a REGISTER from p enters it; so do the connections that were
\* saved after the first start.
Meet(n, p) ==
  /\ n \in up
  /\ <<n, p>> \in MayMeet
  /\ ~ Recognizes(n, p)
  /\ Register(n, p)
  /\ UNCHANGED <<up, missed, calls, block, chainVars, walletVars, minerVars, user>>

-----------------------------------------------------------------------------
(* Handlers *)

NoteMissed(n, receivers) == missed' = (missed \/ receivers \notin WrittenTo(n))

ReceiveBlock(n, b) ==
  /\ H!Pending(n, H!PROOF_FOUND(b))
  /\ \/ H!IgnoreBlock(n, b) /\ UNCHANGED <<missed, minerVars>>
     \/ /\ \E receivers \in Reach(n) :
             /\ H!StickBlock(n, b, receivers)
             /\ IF H!StuckOn(n, block[b].prev) = {}
                THEN NoteMissed(n, receivers) ELSE UNCHANGED missed
        /\ UNCHANGED minerVars
     \/ /\ H!AcceptBlock(n, b)
        /\ UNCHANGED <<missed, clock>>
        /\ H!CutOver(n, b)
  /\ UNCHANGED <<netVars, user>>

HandleBlock(n) == \E b \in DOMAIN block : ReceiveBlock(n, b)

\* A mistake AgreeAtRest rules out: a genesis block is not handed out.
ProvideNoGenesis(n, from, prev) ==
  LET rest == H!Finish(calls, n, H!MISSING_BLOCK(from, prev))
  IN  /\ calls' = IF prev \in DOMAIN Blocks[n] /\ CanSend(n, from)
                        /\ ~ H!IsGenesisBlock(prev)
                  THEN H!SendMessage(rest, from, H!PROOF_FOUND(prev))
                  ELSE rest
      /\ UNCHANGED <<netVars, missed, block, chainVars, walletVars, minerVars, user>>

\* There is no answer to a node that is not registered or has ended, and any
\* other answer may be missed.
ProvideMissingBlock(n, from, prev) ==
  LET rest == H!Finish(calls, n, H!MISSING_BLOCK(from, prev))
      answers == prev \in DOMAIN Blocks[n] /\ CanSend(n, from)
  IN  /\ \/ /\ calls' = IF answers
                        THEN H!SendMessage(rest, from, H!PROOF_FOUND(prev))
                        ELSE rest
            /\ UNCHANGED missed
         \/ answers /\ calls' = rest /\ missed' = TRUE
      /\ UNCHANGED <<netVars, block, chainVars, walletVars, minerVars, user>>

HandleRequest(n) ==
  \E call \in DOMAIN calls[n] :
    /\ call.op = "MISSING_BLOCK"
    /\ ProvideMissingBlock(n, call.from, call.prev)

HandleTransaction(n) ==
  /\ \E call \in DOMAIN calls[n] :
       call.op = "POST_TRANSACTION" /\ H!AddTransactionBytes(n, call.tx)
  /\ UNCHANGED <<netVars, missed, user>>

Mine(n) ==
  /\ n \in up
  /\ \E receivers \in Reach(n) :
       /\ H!FindProof(n, receivers) \/ H!FindProofAgain(n, receivers)
       /\ NoteMissed(n, receivers)
  /\ UNCHANGED <<netVars, user>>

-----------------------------------------------------------------------------
(* The menu, one thread in each process *)

AtMenu(n) == n \in up /\ user[n] = Menu

Goes(n, next) == user' = [user EXCEPT ![n] = next]

\* "t": the amount, without the fee, is compared with the funds.
Transfer(n) ==
  /\ AtMenu(n)
  /\ Nonce[n] < MaxNonce
  /\ \E payment \in Payment :
       LET tx == H!NewTransaction(n, payment)
       IN  /\ payment.from = n
           /\ H!TotalOutput([tx EXCEPT !.fee = 0]) <= H!AvailableGold(n)
           /\ Goes(n, [step |-> "check", tx |-> tx])
  /\ UNCHANGED <<netVars, missed, calls, block, chainVars, walletVars, minerVars>>

\* PostTransaction compares amount and fee with them, and panics.
CheckFunds(n) ==
  /\ user[n].step = "check"
  /\ IF H!TotalOutput(user[n].tx) <= H!AvailableGold(n)
     THEN /\ Goes(n, [user[n] EXCEPT !.step = "post"])
          /\ UNCHANGED <<netVars, missed, calls, block, chainVars, walletVars, minerVars>>
     ELSE EndProcess(n)

\* A mistake NonceIsFresh rules out: every payment has the same nonce.
NotCounted(nonce) == nonce

Counted(nonce) == H!Uint(nonce + 1)

\* The part of PostTransaction under the mutex.
PostTransaction(n) ==
  /\ user[n].step = "post"
  /\ PendingOutgoingTransactions' =
       [PendingOutgoingTransactions EXCEPT ![n] = @ \cup {user[n].tx}]
  /\ Nonce' = [Nonce EXCEPT ![n] = Counted(@)]
  /\ \E receivers \in Reach(n) :
       calls' = H!Broadcast(calls, receivers, H!POST_TRANSACTION(user[n].tx))
  /\ Goes(n, [user[n] EXCEPT !.step = "add"])
  /\ UNCHANGED <<netVars, missed, block, chainVars, minerVars>>

AddTransaction(n) ==
  /\ user[n].step = "add"
  /\ Transactions' = [Transactions EXCEPT ![n] = @ \cup {user[n].tx}]
  /\ Goes(n, Menu)
  /\ UNCHANGED <<netVars, missed, calls, block, chainVars, walletVars, clock, CurrentBlock>>

\* "r": one broadcast for each transaction, and each may break off elsewhere.
ResendPendingTransactions(n) ==
  LET pending == PendingOutgoingTransactions[n]
  IN  /\ AtMenu(n)
      /\ pending # {}
      /\ \A k \in Node, tx \in pending :
           H!Copies(k, H!POST_TRANSACTION(tx)) < MaxCopies
      /\ \E receivers \in [pending -> Reach(n)] :
           calls' = [k \in Node |->
             H!AddAll(calls[k], {H!POST_TRANSACTION(tx) :
                                   tx \in {t \in pending : k \in receivers[t]}})]
      /\ UNCHANGED <<netVars, missed, block, chainVars, walletVars, minerVars, user>>

User(n) ==
  \/ Transfer(n) \/ CheckFunds(n) \/ PostTransaction(n) \/ AddTransaction(n)
  \/ ResendPendingTransactions(n)

-----------------------------------------------------------------------------

Next ==
  \E n \in Node :
    \/ Exit(n) \/ StartProcess(n) \/ User(n)
    \/ HandleBlock(n) \/ HandleRequest(n) \/ HandleTransaction(n) \/ Mine(n)
    \/ \E p \in Node : Meet(n, p)

Spec == Init /\ [][Next]_vars

\* Go runs every goroutine of a process as long as there is a process.
Fairness ==
  \A n \in Node : WF_vars(HandleBlock(n)) /\ WF_vars(HandleRequest(n))

FairSpec == Spec /\ Fairness
=============================================================================
