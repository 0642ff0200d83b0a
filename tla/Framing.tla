------------------------------ MODULE Framing -------------------------------
(***************************************************************************)
(* How a TcpMiner takes messages off the wire: StartListening, and the     *)
(* Dial, Write, Close of the senders (RealNet and RegisterWith).           *)
(*                                                                         *)
(* A message has no length field and no terminator.  The listener reads    *)
(* pieces of up to CHUNK bytes and takes the first shorter one for the     *)
(* last.  TCP hands bytes over as they arrive: a read returns what is      *)
(* there, which may be less than what was sent.                            *)
(*                                                                         *)
(* Of a message only the number of its bytes matters.  A cut one is lost:  *)
(* HandleConnection prints that it is no JSON object, and returns.         *)
(***************************************************************************)
EXTENDS Integers, Sequences

CONSTANTS
  Conn,       \* the connections made to this listener
  Idle,       \* no connection
  CHUNK,      \* 512 in the code
  Lengths     \* bound: how many bytes come with a connection

ASSUME FramingAssumption ==
  /\ Idle \notin Conn
  /\ CHUNK \in Nat \ {0}
  /\ Lengths \subseteq Nat

VARIABLES
  sent,       \* sent[c]: bytes written to c, or NotDialled
  arrived,    \* arrived[c]: those the listener's kernel has
  backlog,    \* connections not yet accepted, in order
  current,    \* the connection being read, or Idle
  got,        \* got[c]: bytes of data read from c
  early,      \* the connections whose message was all there when accepted
  delivered,  \* the connections whose data went to HandleConnection
  panicked    \* Read met the end of the connection

vars == <<sent, arrived, backlog, current, got, early, delivered, panicked>>

NotDialled == -1

Init ==
  /\ sent = [c \in Conn |-> NotDialled]
  /\ arrived = [c \in Conn |-> 0]
  /\ backlog = << >>
  /\ current = Idle
  /\ got = [c \in Conn |-> 0]
  /\ early = {}
  /\ delivered = {}
  /\ panicked = FALSE

\* Dial succeeds as soon as the connection is in the backlog; then the whole
\* message is written and the connection closed.  A sender that ends in between
\* has written nothing, and its connection is closed too.
Send(c) ==
  /\ ~ panicked
  /\ sent[c] = NotDialled
  /\ \E len \in Lengths : sent' = [sent EXCEPT ![c] = len]
  /\ backlog' = Append(backlog, c)
  /\ UNCHANGED <<arrived, current, got, early, delivered, panicked>>

\* The network delivers some more bytes.
Arrive(c) ==
  /\ \E k \in arrived[c] + 1 .. sent[c] : arrived' = [arrived EXCEPT ![c] = k]
  /\ UNCHANGED <<sent, backlog, current, got, early, delivered, panicked>>

Accept ==
  /\ ~ panicked
  /\ current = Idle
  /\ backlog # << >>
  /\ current' = Head(backlog)
  /\ backlog' = Tail(backlog)
  /\ early' = IF arrived[Head(backlog)] = sent[Head(backlog)]
              THEN early \cup {Head(backlog)} ELSE early
  /\ UNCHANGED <<sent, arrived, got, delivered, panicked>>

\* A mistake PanicsAtMultiples rules out: only an empty read ends a message.
NoneIsLast(n) == n = 0

\* A mistake InTimeIsWhole rules out: a full piece taken for the last.
FullIsLast(n) == n <= CHUNK

\* A read of n bytes is the last one.
IsLast(n) == n < CHUNK

\* Read returns what is there, at most CHUNK bytes, and waits when nothing is.
Read ==
  LET c == current
      n == IF arrived[c] - got[c] < CHUNK THEN arrived[c] - got[c] ELSE CHUNK
  IN  /\ ~ panicked
      /\ c # Idle
      /\ n > 0
      /\ got' = [got EXCEPT ![c] = @ + n]
      /\ IF IsLast(n)
         THEN delivered' = delivered \cup {c} /\ current' = Idle
         ELSE UNCHANGED <<delivered, current>>
      /\ UNCHANGED <<sent, arrived, backlog, early, panicked>>

\* A mistake MessagesEnd rules out: the end of a connection is waited out.
IgnoreEnd == FALSE /\ UNCHANGED vars

\* Everything was read and the sender has closed: Read returns io.EOF, and the
\* listener panics, which ends the process.
ReadEnd ==
  /\ ~ panicked
  /\ current # Idle
  /\ got[current] = sent[current]
  /\ panicked' = TRUE
  /\ UNCHANGED <<sent, arrived, backlog, current, got, early, delivered>>

Listen == Accept \/ Read \/ ReadEnd

Next == Listen \/ \E c \in Conn : Send(c) \/ Arrive(c)

Spec == Init /\ [][Next]_vars

\* The listener's goroutine runs, and TCP delivers what was written.  Nothing
\* obliges anyone to send.
FairSpec == Spec /\ WF_vars(Listen) /\ \A c \in Conn : WF_vars(Arrive(c))

-----------------------------------------------------------------------------

\* The listener panics at the end of a message whose length is a multiple of
\* CHUNK, or of a connection with no message, and at no other, however the bytes
\* arrive.
PanicsAtMultiples == panicked => sent[current] % CHUNK = 0

\* A message that is all there when its connection is accepted is delivered
\* whole: only one that is read while it still arrives can be cut.
InTimeIsWhole == \A c \in delivered \cap early : got[c] = sent[c]

\* The listener handles one connection after the other and never stays with
\* one: every message that is sent gets to a handler, whole or cut, unless the
\* listener has panicked.
MessagesEnd ==
  \A c \in Conn : (sent[c] # NotDialled) ~> (c \in delivered \/ panicked)
=============================================================================
