------------------------------ MODULE RealNet -------------------------------
(***************************************************************************)
(* The TCP network of RealNet.go.                                          *)
(*                                                                         *)
(* Every process has a RealNet of its own: Clients[n] are the addresses n  *)
(* can send to.  A message is a connection of its own, dialled, written    *)
(* and closed; Dial fails when nobody listens at the other end.  Write     *)
(* may fail too, which nobody looks at, and a listener that reads before   *)
(* all has arrived drops the message: Framing says when.                   *)
(***************************************************************************)
EXTENDS Integers, Sequences

CONSTANT Node      \* the miners; each one's address and port stay the same

VARIABLES
  up,              \* the nodes whose process runs
  Clients          \* Clients[n]: whom n can send to

netVars == <<up, Clients>>

Recognizes(n, p) == p \in Clients[n]

Register(n, p) == Clients' = [Clients EXCEPT ![n] = @ \cup {p}]

Dials(p) == p \in up

\* Broadcast goes through the map in any order and returns at the first Dial
\* that fails: it writes to all clients, or to any of them that run.
WrittenTo(n) ==
  IF Clients[n] \subseteq up THEN {Clients[n]} ELSE SUBSET (Clients[n] \cap up)

\* Any of those may miss the message.
Reach(n) == SUBSET (Clients[n] \cap up)

\* SendMessage prints that it does not find the address, or cannot dial it.
CanSend(n, p) == Recognizes(n, p) /\ Dials(p)
=============================================================================
