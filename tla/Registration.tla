---------------------------- MODULE Registration ----------------------------
(***************************************************************************)
(* How the processes of TcpMiner come to know each other: Initialize,      *)
(* RegisterWith, the REGISTER branch of HandleConnection, SaveJson, and    *)
(* the menu of run.go that calls them.                                     *)
(*                                                                         *)
(* A REGISTER message is handled by a goroutine that takes no lock of the  *)
(* miner.  handlers is the bag of them, with what each does next: two that *)
(* are equal are still two.                                                *)
(***************************************************************************)
EXTENDS RealNet, Bags, BagsExt

CONSTANTS
  KnownAtFirst,    \* KnownAtFirst[n]: the connections in n's config file
  MaxConnects,     \* bound: times the users choose "connect"
  MaxExits,        \* bound: processes that end
  MaxHandlers      \* bound: goroutines at which an answer waits to be sent

ASSUME RegistrationAssumption ==
  /\ KnownAtFirst \in [Node -> SUBSET Node]
  /\ MaxConnects \in Nat
  /\ MaxExits \in Nat
  /\ MaxHandlers \in Nat

VARIABLES
  KnownTcpConnections,  \* the list of n, of which only the members matter
  file,                 \* file[n]: the KnownTcpConnections of n's config file
  loading,              \* those that Initialize has still to register
  handlers,             \* the goroutines that handle a REGISTER
  connects,             \* how often a user connected
  exits,                \* the nodes whose process has ended, once per exit
  unheard               \* history: the nodes that missed a REGISTER

memoryVars == <<KnownTcpConnections, loading>>
countVars  == <<connects, exits>>
regVars    == <<netVars, memoryVars, file, handlers, countVars, unheard>>

RegInit ==
  /\ up = Node
  /\ Clients = [n \in Node |-> {}]
  /\ file = KnownAtFirst
  /\ KnownTcpConnections = file
  /\ loading = file
  /\ handlers = << >>                  \* no goroutine: an empty bag
  /\ connects = 0
  /\ exits = << >>
  /\ unheard = {}

-----------------------------------------------------------------------------
(* Handlers *)

Handler(n, from, step, seen) ==
  [at |-> n, from |-> from, step |-> step, seen |-> seen]

Handling(n, p, step) ==
  {h \in DOMAIN handlers : h.at = n /\ h.from = p /\ h.step = step}

\* h goes on to its next step.
Goes(h, step) == BagAdd(BagRemove(handlers, h), [h EXCEPT !.step = step])

\* RegisterWith(p) at n, with bag for the other handlers: the message arrives
\* if p listens, and may be missed all the same.
RegisterWith(bag, n, p) ==
  \/ /\ handlers' = IF Dials(p) THEN BagAdd(bag, Handler(p, n, "check", {}))
                                ELSE bag
     /\ UNCHANGED unheard
  \/ Dials(p) /\ handlers' = bag /\ unheard' = unheard \cup {p}

\* A mistake RegistrationEnds rules out: every REGISTER is answered by one.
AnswerAlways(n, p) ==
  /\ \E h \in Handling(n, p, "check") : handlers' = Goes(h, "answer")
  /\ UNCHANGED <<netVars, memoryVars, unheard>>

\* A sender that is not recognized is to be answered with a REGISTER.
CheckSender(n, p) ==
  /\ \E h \in Handling(n, p, "check") :
       handlers' = Goes(h, IF Recognizes(n, p) THEN "register" ELSE "answer")
  /\ UNCHANGED <<netVars, memoryVars, unheard>>

\* A mistake KnowsBack rules out: an answer that is not sent.
AnswerNobody(n, p) ==
  /\ \E h \in Handling(n, p, "answer") : handlers' = Goes(h, "register")
  /\ UNCHANGED <<netVars, memoryVars, unheard>>

AnswerSender(n, p) ==
  /\ BagCardinality(handlers) < MaxHandlers
  /\ \E h \in Handling(n, p, "answer") :
       RegisterWith(Goes(h, "register"), n, p)
  /\ UNCHANGED <<netVars, memoryVars>>

RegisterSender(n, p) ==
  /\ \E h \in Handling(n, p, "register") :
       /\ Register(n, p)
       /\ handlers' = Goes(h, "read")
  /\ UNCHANGED <<up, memoryVars, unheard>>

\* A mistake SomeoneIsSaved rules out: the result of append is not kept.
WriteNothing(n, p) ==
  /\ \E h \in Handling(n, p, "write") : handlers' = BagRemove(handlers, h)
  /\ UNCHANGED <<netVars, memoryVars, unheard>>

\* append reads the list and writes a longer one back, without a lock: what
\* another handler has written in between is lost.
ReadKnown(n, p) ==
  /\ \E h \in Handling(n, p, "read") :
       handlers' = BagAdd(BagRemove(handlers, h),
                          [h EXCEPT !.step = "write",
                                    !.seen = KnownTcpConnections[n]])
  /\ UNCHANGED <<netVars, memoryVars, unheard>>

WriteKnown(n, p) ==
  /\ \E h \in Handling(n, p, "write") :
       /\ KnownTcpConnections' =
            [KnownTcpConnections EXCEPT ![n] = h.seen \cup {p}]
       /\ handlers' = BagRemove(handlers, h)
  /\ UNCHANGED <<netVars, loading, unheard>>

\* Initialize registers the known connections while the listener, which it has
\* started before, may handle messages.
LoadOne(n) ==
  /\ \E p \in loading[n] :
       /\ Register(n, p)
       /\ loading' = [loading EXCEPT ![n] = @ \ {p}]
  /\ UNCHANGED <<up, KnownTcpConnections, handlers, unheard>>

Rest == UNCHANGED <<file, countVars>>

\* What a handler of REGISTER from p does next.
HandleRegister(n, p) ==
  /\ \/ CheckSender(n, p)
     \/ AnswerSender(n, p)
     \/ RegisterSender(n, p)
     \/ ReadKnown(n, p)
     \/ WriteKnown(n, p)
  /\ Rest

Load(n) == LoadOne(n) /\ Rest

-----------------------------------------------------------------------------
(* Users and processes *)

\* "c": any port may be given, the user's own too.
Connect(n, p) ==
  /\ n \in up
  /\ connects < MaxConnects
  /\ connects' = connects + 1
  /\ RegisterWith(handlers, n, p)
  /\ UNCHANGED <<netVars, memoryVars, file, exits>>

\* "s": the mutex that SaveJson takes is not the handlers' concern.
SaveJson(n) ==
  /\ n \in up
  /\ file' = [file EXCEPT ![n] = KnownTcpConnections[n]]
  /\ UNCHANGED <<netVars, memoryVars, handlers, countVars, unheard>>

\* "x", a panic or a crash: what the process had in memory is gone.
Exit(n) ==
  /\ n \in up
  /\ Len(exits) < MaxExits
  /\ exits' = Append(exits, n)
  /\ up' = up \ {n}
  /\ Clients' = [Clients EXCEPT ![n] = {}]
  /\ KnownTcpConnections' = [KnownTcpConnections EXCEPT ![n] = {}]
  /\ loading' = [loading EXCEPT ![n] = {}]
  /\ handlers' = [h \in {k \in DOMAIN handlers : k.at # n} |-> handlers[h]]
  /\ UNCHANGED <<file, connects, unheard>>

\* main: the miner is made from its config file.
Start(n) ==
  /\ n \notin up
  /\ up' = up \cup {n}
  /\ KnownTcpConnections' = [KnownTcpConnections EXCEPT ![n] = file[n]]
  /\ loading' = [loading EXCEPT ![n] = file[n]]
  /\ UNCHANGED <<Clients, file, handlers, countVars, unheard>>
=============================================================================
