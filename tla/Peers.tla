------------------------------- MODULE Peers --------------------------------
(***************************************************************************)
(* The membership of a network of TcpMiners, apart from what they mine.    *)
(***************************************************************************)
EXTENDS Registration

Next ==
  \E n \in Node :
    \/ Load(n) \/ SaveJson(n) \/ Exit(n) \/ Start(n)
    \/ \E p \in Node : HandleRegister(n, p) \/ Connect(n, p)

Spec == RegInit /\ [][Next]_regVars

\* Every goroutine gets to run, whatever the others do, and Initialize comes to
\* its end; nothing obliges a user to do anything.  Of a node that answers
\* itself, the handler that is about to register must not be overtaken for ever
\* by those that come after it.
Fairness ==
  \A n \in Node :
    /\ WF_regVars(Load(n))
    /\ \A p \in Node : /\ WF_regVars(HandleRegister(n, p))
                       /\ WF_regVars(RegisterSender(n, p) /\ Rest)

FairSpec == Spec /\ Fairness

-----------------------------------------------------------------------------

Exited == {exits[i] : i \in DOMAIN exits}

\* Whom a node learned of from its config file, and not from a REGISTER.
FromFile(n) == KnownAtFirst[n] \cup UNION {file[k] : k \in Exited \cap {n}}

\* A node that another one can send to can send back, or is about to be able
\* to, unless it has lost its memory or missed a REGISTER: the answer to one is
\* sent before its sender is entered, so two nodes that register with each other
\* at the same time end up knowing each other, in any order of steps.
KnowsBack ==
  \A a, b \in up :
    a \in Clients[b] \ FromFile(b) /\ a \notin Exited /\ a \notin unheard =>
      \/ b \in Clients[a]
      \/ \E h \in DOMAIN handlers : h.at = a /\ h.from = b

\* The answers to REGISTER do not go on for ever, also between nodes that
\* answer each other, register with themselves, and come and go.
RegistrationEnds == (DOMAIN handlers # {}) ~> (DOMAIN handlers = {})

\* HandleConnection appends to KnownTcpConnections without a lock, and of two
\* handlers that overlap one loses its entry.  They never lose all: a miner
\* that has clients, and whose handlers have ended, saves one of them at least
\* (which may be the miner itself, where the user has entered its own port).
SomeoneIsSaved ==
  \A n \in up :
    (Clients[n] # {} /\ loading[n] = {} /\ \A h \in DOMAIN handlers : h.at # n)
      => Clients[n] \cap KnownTcpConnections[n] # {}
=============================================================================
