------------------------------ MODULE FakeNet -------------------------------
(***************************************************************************)
(* The in-process network of FakeNet.go.                                   *)
(*                                                                         *)
(* Broadcast and SendMessage start one goroutine per receiver that emits   *)
(* the event on the receiver's emitter, and the emitter calls the handler. *)
(* Every handler begins by taking the receiver's mutex, so between the     *)
(* send and the handling there is only a goroutine waiting for its turn:   *)
(* calls[n] is the bag of those waiting for node n.  Goroutines run in any *)
(* order, none is lost, and two equal messages are two goroutines.         *)
(***************************************************************************)
EXTENDS Integers, BagsExt

CONSTANT Node     \* every NetClient the program creates

VARIABLES
  Clients,        \* the registered nodes, f.Clients
  calls           \* calls[n]: the bag of handler calls pending at node n

netVars == <<Clients, calls>>

NetInit(registered) ==
  /\ Clients = registered
  /\ calls = [n \in Node |-> << >>]     \* no goroutine yet: empty bags

Pending(n, call) == call \in DOMAIN calls[n]

Copies(n, call) == IF Pending(n, call) THEN calls[n][call] ELSE 0

\* pool is a value of calls: the operators below compose in one step.
Spawn(pool, n, call) == [pool EXCEPT ![n] = BagAdd(@, call)]

\* A mistake TypeOK rules out: a finished call that stays as a copy too few.
FinishCount(pool, n, call) == [pool EXCEPT ![n][call] = @ - 1]

Finish(pool, n, call) == [pool EXCEPT ![n] = BagRemove(@, call)]

\* One goroutine for each of newCalls.
AddAll(bag, newCalls) ==
  [c \in DOMAIN bag \cup newCalls |->
     (IF c \in DOMAIN bag THEN bag[c] ELSE 0)
       + (IF c \in newCalls THEN 1 ELSE 0)]

SpawnAll(pool, n, newCalls) == [pool EXCEPT ![n] = AddAll(@, newCalls)]

\* A mistake RequestersRegistered rules out: events for clients not registered.
BroadcastToAnyone(pool, receivers, newCalls) ==
  [n \in Node |-> AddAll(pool[n], newCalls)]

\* One goroutine per receiver: these are the registered Clients, less those
\* that do not listen to the event, for which Emit does nothing.
BroadcastAll(pool, receivers, newCalls) ==
  [n \in Node |-> IF n \in receivers
                  THEN AddAll(pool[n], newCalls) ELSE pool[n]]

Broadcast(pool, receivers, call) == BroadcastAll(pool, receivers, {call})

SendMessage(pool, to, call) == Spawn(pool, to, call)

Register(n) ==
  /\ n \notin Clients
  /\ Clients' = Clients \cup {n}
  /\ UNCHANGED calls
=============================================================================
