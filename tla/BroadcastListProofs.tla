--------------------------- MODULE BroadcastListProofs ---------------------------
(***************************************************************************)
(* What BroadcastList guarantees for any number of clients, descriptors    *)
(* and entries: who was put on the list stays on it, once, until its own   *)
(* handler removes it, and is sent every line it is owed since.            *)
(***************************************************************************)
EXTENDS BroadcastList, TcpNetProofs

\* No two clients have the same descriptor.
FdsDistinct == \A c, d \in Clients : fd[c] # 0 /\ fd[c] = fd[d] => c = d

\* A client has a descriptor from accept() to the close() of its handler.
OpenWhileServed ==
    \A c \in Clients : fd[c] # 0 <=> mpc = c \/ pc[c] \notin {"none", "done"}

\* The client main() has accepted has no handler yet.
AcceptedUnserved == \A c \in Clients : mpc = c => pc[c] = "none"

\* Neither has who waits to be accepted, and that once.
QueuedUnserved ==
    /\ \A k \in 1 .. Len(backlog) : /\ pc[backlog[k]] = "none"
                                    /\ peer[backlog[k]] # "absent"
                                    /\ mpc # backlog[k]
    /\ \A k, l \in 1 .. Len(backlog) : k # l => backlog[k] # backlog[l]

\* Nor who has not connected.
AbsentUnserved == \A c \in Clients : peer[c] = "absent" => pc[c] = "none" /\ mpc # c

\* And is owed no line.
NewUnowed == \A c \in Clients : pc[c] = "none" => since[c] = 0

ConnectionInv ==
    /\ NewUnowed
    /\ FdsDistinct
    /\ OpenWhileServed
    /\ AcceptedUnserved
    /\ QueuedUnserved
    /\ AbsentUnserved

\* The operator has typed the line that is being sent.
LineTyped == spc # "fgets" => line \in 1 .. MaxLines

Inv == TypeOK /\ ConnectionInv /\ ListConsistent /\ LineTyped

\* The server starts with an empty list, and nobody waits.
LEMMA InitInv == Init => Inv
<1> SUFFICES ASSUME Init PROVE Inv
  OBVIOUS
<1> USE DEF Init, NetInit
<1>1. TypeOK
  BY BoundsAssumption, ListAssumption DEF TypeOK, NetTypeOK, PeerStates
<1>2. ConnectionInv
  BY NamesAssumption DEF ConnectionInv, NewUnowed, FdsDistinct, OpenWhileServed, AcceptedUnserved,
     QueuedUnserved, AbsentUnserved
<1>3. ListConsistent /\ LineTyped
  BY DEF ListConsistent, LineTyped, Listed, Serving
<1> QED
  BY <1>1, <1>2, <1>3 DEF Inv

\* A client that is accepted or served is not in the queue.
LEMMA ServedNotQueued ==
  ASSUME TypeOK, QueuedUnserved, NEW c \in Clients, pc[c] # "none" \/ mpc = c
  PROVE  \A k \in 1 .. Len(backlog) : backlog[k] \in Clients \ {c}
<1>1. ASSUME NEW k \in 1 .. Len(backlog) PROVE backlog[k] \in Clients
  BY DEF TypeOK, NetTypeOK
<1>2. ASSUME NEW k \in 1 .. Len(backlog) PROVE backlog[k] # c
  BY DEF QueuedUnserved
<1> QED
  BY <1>1, <1>2

-----------------------------------------------------------------------------
(* Steps by what they may change *)

\* The steps of a client's two threads and its user.
ClientStep(c) == ClientMain(c) \/ RecvThread(c) \/ User(c)

\* A client process changes nothing of the server's.  It joins the queue, or leaves.
LEMMA ClientSteps ==
  ASSUME TypeOK, NEW c \in Clients, ClientStep(c)
  PROVE  /\ UNCHANGED <<serverVars, fd>> /\ NetTypeOK(Texts)'
         /\ \/ /\ peer[c] = "absent" /\ peer' = [peer EXCEPT ![c] = "here"]
               /\ backlog' = Append(backlog, c)
            \/ /\ backlog' = backlog
               /\ \A d \in Clients : peer'[d] = "absent" => peer[d] = "absent"
<1> USE DEF ClientStep, ClientMain, RecvThread, User
<1>1. UNCHANGED <<serverVars, fd>>
  BY DEF ClientSends, ClientSendFails, ClientExits, ClientReceives, ClientReceivesLast,
     ClientPrints, ClientSeesEnd, ClientConnect, ClientReads, ClientCloses, ClientKilled,
     NetConnect, NetClientSend, NetClientRecv, NetClientClose, netVars
<1>2. NetTypeOK(Texts)'
  <2>1. CASE ClientSendFails(c)
    BY <2>1 DEF ClientSendFails, TypeOK, NetTypeOK, PeerStates
  <2>2. CASE ClientReceivesLast(c)
    BY <2>2 DEF ClientReceivesLast, TypeOK, NetTypeOK, PeerStates, Departed
  <2>3. CASE UNCHANGED netVars
    BY <2>3 DEF netVars, TypeOK, NetTypeOK
  <2>4. CASE NetConnect(c) \/ NetClientSend(c) \/ NetClientRecv(c) \/ NetClientClose(c)
    BY <2>4, ClientCallsKeepTypes DEF TypeOK
  <2> QED
    BY <2>1, <2>2, <2>3, <2>4 DEF ClientSends, ClientExits, ClientReceives,
       ClientPrints, ClientSeesEnd, ClientConnect, ClientReads, ClientCloses, ClientKilled
<1>3. CASE ClientConnect(c)
  BY <1>1, <1>2, <1>3 DEF ClientConnect, NetConnect
<1>4. CASE ~ ClientConnect(c)
  <2>1. backlog' = backlog
    BY <1>4 DEF ClientSends, ClientSendFails, ClientExits, ClientReceives, ClientReceivesLast,
       ClientPrints, ClientSeesEnd, ClientReads, ClientCloses, ClientKilled,
       NetClientSend, NetClientRecv, NetClientClose, netVars
  <2>2. \/ peer' = peer
        \/ peer[c] = "here" /\ \E p \in {"reset", "closed", "gone"} : peer' = [peer EXCEPT ![c] = p]
        \/ peer' = [peer EXCEPT ![c] = "gone"]
    BY <1>4 DEF ClientSendFails, ClientSends, ClientExits, ClientReceives, ClientReceivesLast,
       ClientPrints, ClientSeesEnd, ClientReads, ClientCloses, ClientKilled,
       NetClientSend, NetClientRecv, NetClientClose, netVars
  <2> QED
    BY <1>1, <1>2, <2>1, <2>2 DEF TypeOK, NetTypeOK
<1> QED
  BY <1>3, <1>4

\* So it keeps descriptors and phases in agreement, and the list as it is.
LEMMA ClientKeepsInv ==
  ASSUME Inv, NEW c \in Clients, ClientStep(c)
  PROVE  ConnectionInv' /\ ListConsistent'
<1> USE DEF Inv, ConnectionInv
<1>1. UNCHANGED <<fd, pc, mpc, clients, since>>
  BY ClientSteps DEF serverVars
<1>2. \A k \in 1 .. Len(backlog) : backlog[k] \in Clients
  BY DEF TypeOK, NetTypeOK
<1>3. ListConsistent'
  BY <1>1 DEF ListConsistent, Listed, Serving
<1>4. NewUnowed' /\ FdsDistinct' /\ OpenWhileServed' /\ AcceptedUnserved'
  BY <1>1 DEF NewUnowed, FdsDistinct, OpenWhileServed, AcceptedUnserved
<1>5. CASE /\ peer[c] = "absent" /\ peer' = [peer EXCEPT ![c] = "here"]
           /\ backlog' = Append(backlog, c)
  <2>1. \A k \in 1 .. Len(backlog') :
          \/ k \in 1 .. Len(backlog) /\ backlog'[k] = backlog[k]
          \/ k = Len(backlog) + 1 /\ backlog'[k] = c
    BY <1>5, SMTT(30) DEF TypeOK, NetTypeOK
  <2>2. \A k \in 1 .. Len(backlog) : backlog[k] # c
    BY <1>5 DEF QueuedUnserved
  <2>3. pc[c] = "none" /\ mpc # c
    BY <1>5 DEF AbsentUnserved
  <2>4. \A d \in Clients : peer'[d] = IF d = c THEN "here" ELSE peer[d]
    BY <1>5 DEF TypeOK, NetTypeOK
  <2>5. \A k \in 1 .. Len(backlog') : /\ pc'[backlog'[k]] = "none"
                                      /\ peer'[backlog'[k]] # "absent"
                                      /\ mpc' # backlog'[k]
    BY <1>1, <1>2, <2>1, <2>3, <2>4 DEF QueuedUnserved
  <2>6. \A k, l \in 1 .. Len(backlog') : k # l => backlog'[k] # backlog'[l]
    BY <2>1, <2>2 DEF QueuedUnserved
  <2>7. AbsentUnserved'
    BY <1>1, <2>4 DEF AbsentUnserved
  <2> QED
    BY <1>3, <1>4, <2>5, <2>6, <2>7 DEF QueuedUnserved
<1>6. CASE /\ backlog' = backlog
           /\ \A d \in Clients : peer'[d] = "absent" => peer[d] = "absent"
  <2>1. QueuedUnserved'
    BY <1>1, <1>2, <1>6 DEF QueuedUnserved
  <2>2. AbsentUnserved'
    BY <1>1, <1>6 DEF AbsentUnserved
  <2> QED
    BY <1>3, <1>4, <2>1, <2>2
<1> QED
  BY <1>5, <1>6, ClientSteps

\* The steps of the server's threads that concern neither list nor connections.
Texting == \/ SenderReads \/ Sender
           \/ \E c \in Clients : Receive(c) \/ ReceiveEnd(c) \/ ReceiveDies(c) \/ Echo(c) \/ EchoDies(c)

\* They keep a handler that serves serving, and nobody's descriptor changes.
LEMMA TextingSteps ==
  ASSUME TypeOK, Texting
  PROVE  /\ UNCHANGED <<fd, backlog, clients, mpc, since>>
         /\ \A d \in Clients : pc'[d] = pc[d]
                               \/ {pc[d], pc'[d]} \subseteq {"recv", "echo", "remove"}
         /\ \A d \in Clients : peer'[d] = "absent" => peer[d] = "absent"
<1> USE DEF TypeOK, NetTypeOK
<1>1. CASE SenderReads \/ Sender
  BY <1>1 DEF SenderReads, Sender, SenderLocks, SenderSends, SenderSendLost, SenderDies,
     SenderUnlocks, NetSend, netVars
<1>2. ASSUME NEW c \in Clients, Receive(c) \/ ReceiveEnd(c) \/ ReceiveDies(c) \/ EchoDies(c)
      PROVE  /\ UNCHANGED <<fd, backlog, clients, mpc, since, peer>>
             /\ \A d \in Clients : pc'[d] = pc[d]
                                   \/ {pc[d], pc'[d]} \subseteq {"recv", "echo", "remove"}
  BY <1>2 DEF Receive, ReceiveEnd, ReceiveDies, EchoDies, netVars
<1>3. ASSUME NEW c \in Clients, Echo(c)
      PROVE  /\ UNCHANGED <<fd, backlog, clients, mpc, since>>
             /\ \A d \in Clients : pc'[d] = pc[d]
                                   \/ {pc[d], pc'[d]} \subseteq {"recv", "echo", "remove"}
             /\ \A d \in Clients : peer'[d] = "absent" => peer[d] = "absent"
  BY <1>3 DEF Echo, NetSend
<1> QED
  BY <1>1, <1>2, <1>3 DEF Texting

\* So they keep descriptors and phases in agreement, and the list consistent.
LEMMA TextingKeepsInv ==
  ASSUME Inv, Texting
  PROVE  ConnectionInv' /\ ListConsistent'
<1> USE DEF Inv, ConnectionInv
<1>1. /\ UNCHANGED <<fd, backlog, clients, mpc, since>>
      /\ \A d \in Clients : pc'[d] = pc[d]
                            \/ {pc[d], pc'[d]} \subseteq {"recv", "echo", "remove"}
      /\ \A d \in Clients : peer'[d] = "absent" => peer[d] = "absent"
  BY TextingSteps
<1>2. \A d \in Clients : /\ pc'[d] = "none" <=> pc[d] = "none"
                         /\ pc'[d] = "done" <=> pc[d] = "done"
                         /\ Serving(d)' <=> Serving(d)
  BY <1>1 DEF Serving
<1>3. \A k \in 1 .. Len(backlog) : backlog[k] \in Clients
  BY DEF TypeOK, NetTypeOK
<1>4. NewUnowed' /\ FdsDistinct' /\ OpenWhileServed' /\ AcceptedUnserved' /\ AbsentUnserved'
  BY <1>1, <1>2 DEF NewUnowed, FdsDistinct, OpenWhileServed, AcceptedUnserved, AbsentUnserved
<1>5. QueuedUnserved'
  BY <1>1, <1>2, <1>3 DEF QueuedUnserved
<1>6. ListConsistent'
  BY <1>1, <1>2 DEF ListConsistent, Listed
<1> QED
  BY <1>4, <1>5, <1>6

-----------------------------------------------------------------------------
(* The steps that concern list or connections *)

\* accept() gives a descriptor nobody has to a client nobody serves.
LEMMA AcceptKeepsInv ==
  ASSUME Inv, NEW c \in Clients, Accept(c)
  PROVE  /\ ConnectionInv' /\ ListConsistent'
         /\ fd' \in [Clients -> Fds \union {0}] /\ backlog' \in Seq(Clients)
<1> USE DEF Inv, ConnectionInv
<1>1. /\ fd' \in [Clients -> Fds \union {0}]
      /\ fd'[c] # 0
      /\ \A d \in Clients \ {c} : fd'[d] = fd[d] /\ fd[d] # fd'[c]
  BY AcceptGivesFreeFd DEF TypeOK, Accept
<1>2. /\ backlog \in Seq(Clients) /\ backlog # <<>>
      /\ c = backlog[1] /\ backlog' = Tail(backlog)
      /\ mpc = Nobody /\ mpc' = c
      /\ UNCHANGED <<pc, peer, clients, since>>
  BY DEF TypeOK, NetTypeOK, Accept, NetAccept
<1>3. 1 \in 1 .. Len(backlog)
  BY <1>2
<1>4. pc[c] = "none" /\ peer[c] # "absent"
  BY <1>2, <1>3 DEF QueuedUnserved
<1>5. NewUnowed' /\ FdsDistinct' /\ OpenWhileServed' /\ AcceptedUnserved' /\ AbsentUnserved'
  <2>1. \A d \in Clients : mpc # d
    BY <1>2, NamesAssumption
  <2> QED
    BY <1>1, <1>2, <1>4, <2>1
       DEF NewUnowed, FdsDistinct, OpenWhileServed, AcceptedUnserved, AbsentUnserved
<1>6. QueuedUnserved'
  <2>1. \A k \in 1 .. Len(backlog') : /\ backlog'[k] = backlog[k + 1]
                                      /\ k + 1 \in 1 .. Len(backlog) /\ k + 1 # 1
    BY <1>2
  <2>2. \A k \in 1 .. Len(backlog') : backlog'[k] # c
    BY <1>2, <1>3, <2>1 DEF QueuedUnserved
  <2>3. \A k, l \in 1 .. Len(backlog') : k # l => backlog'[k] # backlog'[l]
    BY <2>1 DEF QueuedUnserved
  <2> QED
    BY <1>2, <2>1, <2>2, <2>3 DEF QueuedUnserved
<1>7. ListConsistent'
  <2>1. \A d \in Clients : Serving(d) => fd'[d] = fd[d]
    BY <1>1, <1>4 DEF Serving
  <2>2. \A d \in Clients : Serving(d)' <=> Serving(d)
    BY <1>2 DEF Serving
  <2>3. \A d \in Clients : since'[d] # 0 /\ Serving(d)' => Listed(d)'
    BY <1>2, <2>1, <2>2 DEF ListConsistent, Listed
  <2>4. \A k \in DOMAIN clients : \E d \in Clients :
          clients[k] = fd'[d] /\ Serving(d)' /\ since'[d] # 0
    BY <1>2, <2>1, <2>2 DEF ListConsistent
  <2> QED
    BY <1>2, <2>3, <2>4 DEF ListConsistent
<1> QED
  BY <1>1, <1>2, <1>5, <1>6, <1>7

\* add_client() enters a descriptor that is not on the list, or nothing and nobody.
LEMMA AddKeepsInv ==
  ASSUME Inv, AddClient
  PROVE  /\ ConnectionInv' /\ ListConsistent'
         /\ clients' \in Seq(Fds) /\ Len(clients') <= MAXCLIENTS
<1> USE DEF Inv, ConnectionInv
<1>1. PICK c \in Clients : mpc = c
  BY DEF AddClient, TypeOK
<1>2. /\ pc[c] = "none" /\ fd[c] # 0 /\ since[c] = 0
  BY <1>1 DEF AcceptedUnserved, OpenWhileServed, NewUnowed
<1>3. /\ pc' = [pc EXCEPT ![c] = "recv"] /\ mpc' = Nobody
      /\ UNCHANGED <<fd, backlog, peer>>
      /\ \/ /\ Len(clients) < MAXCLIENTS
            /\ clients' = Append(clients, fd[c])
            /\ since' = [since EXCEPT ![c] = FirstLine]
         \/ UNCHANGED <<clients, since>>
  BY <1>1 DEF AddClient, netVars
<1>4. pc'[c] = "recv" /\ \A d \in Clients \ {c} : pc'[d] = pc[d] /\ since'[d] = since[d]
  BY <1>3 DEF TypeOK
<1>5. \A d \in Clients : mpc' # d
  BY <1>3, NamesAssumption
<1>6. \A k \in 1 .. Len(backlog) : backlog[k] \in Clients \ {c}
  BY <1>1, ServedNotQueued
<1>7. NewUnowed' /\ FdsDistinct' /\ OpenWhileServed' /\ AcceptedUnserved' /\ AbsentUnserved'
  BY <1>1, <1>2, <1>3, <1>4, <1>5
     DEF NewUnowed, FdsDistinct, OpenWhileServed, AcceptedUnserved, AbsentUnserved
<1>8. QueuedUnserved'
  BY <1>3, <1>4, <1>5, <1>6 DEF QueuedUnserved
<1>9. \A k \in DOMAIN clients : \E d \in Clients \ {c} :
        clients[k] = fd[d] /\ Serving(d) /\ since[d] # 0
  BY <1>2 DEF ListConsistent
<1>10. \A k \in DOMAIN clients : clients[k] # fd[c]
  BY <1>2, <1>9 DEF FdsDistinct
<1>11. Serving(c)' /\ \A d \in Clients \ {c} : Serving(d)' <=> Serving(d)
  BY <1>4 DEF Serving
<1>12. CASE Len(clients) < MAXCLIENTS /\ clients' = Append(clients, fd[c])
            /\ since' = [since EXCEPT ![c] = FirstLine]
  <2>1. clients \in Seq(Fds) /\ fd[c] \in Fds
    BY <1>2 DEF TypeOK, NetTypeOK
  <2>2. /\ clients' \in Seq(Fds) /\ Len(clients') = Len(clients) + 1
        /\ DOMAIN clients = 1 .. Len(clients) /\ DOMAIN clients' = 1 .. Len(clients) + 1
        /\ \A k \in DOMAIN clients : k \in DOMAIN clients' /\ clients'[k] = clients[k]
        /\ Len(clients) + 1 \in DOMAIN clients' /\ clients'[Len(clients) + 1] = fd[c]
        /\ \A k \in DOMAIN clients' : k \in DOMAIN clients \/ k = Len(clients) + 1
    BY <1>12, <2>1
  <2>3. Len(clients') <= MAXCLIENTS
    BY <1>12, <2>1, <2>2, ListAssumption
  <2>4. since'[c] # 0
    BY <1>12 DEF FirstLine, LineTyped, TypeOK
  <2>5. \A k \in DOMAIN clients' : \E d \in Clients :
          clients'[k] = fd'[d] /\ Serving(d)' /\ since'[d] # 0
    BY <1>3, <1>4, <1>9, <1>11, <2>2, <2>4
  <2>6. \A d \in Clients : since'[d] # 0 /\ Serving(d)' => Listed(d)'
    <3>1. Listed(c)'
      BY <1>3, <2>2 DEF Listed
    <3>2. \A d \in Clients \ {c} : Listed(d) => Listed(d)'
      BY <1>3, <2>2 DEF Listed
    <3> QED
      BY <1>4, <1>11, <3>1, <3>2 DEF ListConsistent
  <2>7. \A k, l \in DOMAIN clients' : k # l => clients'[k] # clients'[l]
    <3>1. \A k, l \in DOMAIN clients : k # l => clients[k] # clients[l]
      BY DEF ListConsistent
    <3>2. ASSUME NEW k \in DOMAIN clients', NEW l \in DOMAIN clients', k # l
          PROVE  clients'[k] # clients'[l]
      <4>1. CASE k \in DOMAIN clients /\ l \in DOMAIN clients
        BY <2>2, <3>1, <3>2, <4>1
      <4>2. CASE k \in DOMAIN clients /\ l = Len(clients) + 1
        BY <1>10, <2>2, <4>2
      <4>3. CASE l \in DOMAIN clients /\ k = Len(clients) + 1
        BY <1>10, <2>2, <4>3
      <4> QED
        BY <2>2, <3>2, <4>1, <4>2, <4>3
    <3> QED
      BY <3>2
  <2> QED
    BY <1>7, <1>8, <2>2, <2>3, <2>5, <2>6, <2>7 DEF ListConsistent
<1>13. CASE UNCHANGED <<clients, since>>
  <2>1. \A d \in Clients : since'[d] # 0 /\ Serving(d)' => Listed(d)'
    BY <1>2, <1>3, <1>11, <1>13 DEF ListConsistent, Listed
  <2>2. \A k \in DOMAIN clients' : \E d \in Clients :
          clients'[k] = fd'[d] /\ Serving(d)' /\ since'[d] # 0
    BY <1>3, <1>9, <1>11, <1>13
  <2>3. \A k, l \in DOMAIN clients' : k # l => clients'[k] # clients'[l]
    BY <1>13 DEF ListConsistent
  <2> QED
    BY <1>7, <1>8, <1>13, <2>1, <2>2, <2>3 DEF ListConsistent, TypeOK
<1> QED
  BY <1>3, <1>12, <1>13

\* The list without one entry: the others, all of them, in their order.
LEMMA WithoutEntry ==
  ASSUME Inv, NEW f
  PROVE  /\ Without(f) \in Seq(Fds) /\ Len(Without(f)) <= MAXCLIENTS
         /\ \A k \in DOMAIN Without(f) :
              \E a \in DOMAIN clients : /\ Without(f)[k] = clients[a]
                                        /\ clients[a] # f
                                        /\ \A l \in DOMAIN Without(f) :
                                             k # l => Without(f)[l] # clients[a]
         /\ \A a \in DOMAIN clients : clients[a] # f =>
              \E k \in DOMAIN Without(f) : Without(f)[k] = clients[a]
<1> USE DEF Inv
<1>1. /\ clients \in Seq(Fds) /\ Len(clients) <= MAXCLIENTS /\ Len(clients) \in Nat
      /\ DOMAIN clients = 1 .. Len(clients)
      /\ \A k, l \in DOMAIN clients : k # l => clients[k] # clients[l]
  BY DEF TypeOK, ListConsistent
<1>2. CASE EntriesOf(f) = {}
  BY <1>1, <1>2 DEF Without, EntriesOf
<1>3. CASE EntriesOf(f) # {}
  <2>1. Min(EntriesOf(f)) \in EntriesOf(f)
    <3>1. EntriesOf(f) \in SUBSET Nat
      BY <1>1 DEF EntriesOf
    <3> QED
      BY <1>3, <3>1, MinIsLeast
  <2>2. PICK m \in EntriesOf(f) : m = Min(EntriesOf(f))
    BY <2>1
  <2>13. m \in 1 .. Len(clients) /\ clients[m] = f
    BY <1>1 DEF EntriesOf
  <2> DEFINE s == RemoveAt(clients, m)
             At(k) == IF k < m THEN k ELSE k + 1
             To(a) == IF a < m THEN a ELSE a - 1
  <2> HIDE DEF At, To
  <2>3. Without(f) = s
    BY <1>3, <2>2 DEF Without
  <2>4. /\ s \in Seq(Fds) /\ Len(s) = Len(clients) - 1
        /\ \A k \in 1 .. Len(clients) - 1 : s[k] = IF k < m THEN clients[k] ELSE clients[k + 1]
    BY <1>1, <2>13, SequenceWithout, Zenon
  <2> HIDE DEF s
  <2>5. DOMAIN s = 1 .. Len(clients) - 1
    BY <2>4
  <2>6. \A k \in DOMAIN s : At(k) \in DOMAIN clients /\ At(k) # m /\ s[k] = clients[At(k)]
    BY <1>1, <2>13, <2>4, <2>5 DEF At
  <2>7. \A k, l \in DOMAIN s : k # l => At(k) # At(l)
    BY <1>1, <2>13, <2>5 DEF At
  <2>8. \A a \in DOMAIN clients : a # m => To(a) \in DOMAIN s /\ At(To(a)) = a
    BY <1>1, <2>13, <2>5 DEF At, To
  <2>9. \A k \in DOMAIN s : clients[At(k)] # f
    BY <1>1, <2>13, <2>6
  <2>10. \A k, l \in DOMAIN s : k # l => s[l] # clients[At(k)]
    BY <1>1, <2>6, <2>7
  <2>11. \A a \in DOMAIN clients : clients[a] # f => To(a) \in DOMAIN s /\ s[To(a)] = clients[a]
    BY <2>13, <2>6, <2>8
  <2>12. Len(s) <= MAXCLIENTS
    BY <1>1, <2>4, ListAssumption
  <2> QED
    BY <2>3, <2>4, <2>6, <2>9, <2>10, <2>11, <2>12
<1> QED
  BY <1>2, <1>3

\* remove_client() takes the client off the list, and nobody else.
LEMMA RemoveKeepsInv ==
  ASSUME Inv, NEW c \in Clients, RemoveClient(c)
  PROVE  /\ ConnectionInv' /\ ListConsistent'
         /\ clients' \in Seq(Fds) /\ Len(clients') <= MAXCLIENTS
<1> USE DEF Inv, ConnectionInv
<1>1. /\ pc[c] = "remove" /\ pc' = [pc EXCEPT ![c] = "close"]
      /\ clients' = Without(fd[c])
      /\ UNCHANGED <<fd, backlog, peer, mpc, since>>
  BY DEF RemoveClient, netVars
<1>2. pc'[c] = "close" /\ \A d \in Clients \ {c} : pc'[d] = pc[d]
  BY <1>1 DEF TypeOK
<1>3. \A k \in 1 .. Len(backlog) : backlog[k] \in Clients \ {c}
  BY <1>1, ServedNotQueued
<1>4. NewUnowed' /\ FdsDistinct' /\ OpenWhileServed' /\ AcceptedUnserved' /\ AbsentUnserved'
  BY <1>1, <1>2 DEF NewUnowed, FdsDistinct, OpenWhileServed, AcceptedUnserved, AbsentUnserved
<1>5. QueuedUnserved'
  BY <1>1, <1>2, <1>3 DEF QueuedUnserved
<1>6. /\ clients' \in Seq(Fds) /\ Len(clients') <= MAXCLIENTS
      /\ \A k \in DOMAIN clients' :
           \E a \in DOMAIN clients : /\ clients'[k] = clients[a]
                                     /\ clients[a] # fd[c]
                                     /\ \A l \in DOMAIN clients' : k # l => clients'[l] # clients[a]
      /\ \A a \in DOMAIN clients : clients[a] # fd[c] =>
           \E k \in DOMAIN clients' : clients'[k] = clients[a]
  BY <1>1, WithoutEntry
<1>7. ~ Serving(c)' /\ \A d \in Clients \ {c} : Serving(d)' <=> Serving(d)
  BY <1>2 DEF Serving
<1>8. \A k \in DOMAIN clients' :
        /\ \E d \in Clients : clients'[k] = fd'[d] /\ Serving(d)' /\ since'[d] # 0
        /\ \A l \in DOMAIN clients' : k # l => clients'[k] # clients'[l]
  <2>1. TAKE k \in DOMAIN clients'
  <2>2. PICK a \in DOMAIN clients : /\ clients'[k] = clients[a]
                                    /\ clients[a] # fd[c]
                                    /\ \A l \in DOMAIN clients' : k # l => clients'[l] # clients[a]
    BY <1>6
  <2>3. PICK d \in Clients : clients[a] = fd[d] /\ Serving(d) /\ since[d] # 0
    BY DEF ListConsistent
  <2> QED
    BY <1>1, <1>7, <2>2, <2>3
<1>9. ASSUME NEW d \in Clients, since'[d] # 0, Serving(d)' PROVE Listed(d)'
  <2>1. d # c /\ Serving(d) /\ since[d] # 0
    BY <1>1, <1>7, <1>9
  <2>2. PICK a \in DOMAIN clients : clients[a] = fd[d]
    BY <2>1 DEF ListConsistent, Listed
  <2>3. fd[d] # 0
    BY <2>1 DEF OpenWhileServed, Serving
  <2>4. clients[a] # fd[c]
    BY <2>1, <2>2, <2>3 DEF FdsDistinct
  <2> QED
    BY <1>1, <1>6, <2>2, <2>4 DEF Listed
<1>10. ListConsistent'
  BY <1>8, <1>9 DEF ListConsistent
<1> QED
  BY <1>4, <1>5, <1>6, <1>10

\* close() of a descriptor that is off the list.
LEMMA CloseKeepsInv ==
  ASSUME Inv, NEW c \in Clients, CloseSocket(c)
  PROVE  ConnectionInv' /\ ListConsistent'
<1> USE DEF Inv, ConnectionInv
<1>1. /\ pc[c] = "close" /\ pc' = [pc EXCEPT ![c] = "done"]
      /\ fd' = [fd EXCEPT ![c] = 0] /\ peer' = [peer EXCEPT ![c] = "gone"]
      /\ UNCHANGED <<backlog, mpc, clients, since>>
  BY DEF CloseSocket, NetClose
<1>2. /\ \A d \in Clients : pc'[d] = IF d = c THEN "done" ELSE pc[d]
      /\ \A d \in Clients : fd'[d] = IF d = c THEN 0 ELSE fd[d]
      /\ \A d \in Clients : peer'[d] = IF d = c THEN "gone" ELSE peer[d]
  BY <1>1 DEF TypeOK, NetTypeOK
<1>3. \A k \in 1 .. Len(backlog) : backlog[k] \in Clients \ {c}
  BY <1>1, ServedNotQueued
<1>4. mpc # c
  BY <1>1 DEF AcceptedUnserved
<1>5. NewUnowed' /\ FdsDistinct' /\ OpenWhileServed' /\ AcceptedUnserved' /\ AbsentUnserved'
  BY <1>1, <1>2, <1>4 DEF NewUnowed, FdsDistinct, OpenWhileServed, AcceptedUnserved, AbsentUnserved
<1>6. QueuedUnserved'
  BY <1>1, <1>2, <1>3 DEF QueuedUnserved
<1>7. ListConsistent'
  <2>1. \A d \in Clients : Serving(d)' <=> Serving(d)
    BY <1>1, <1>2 DEF Serving
  <2>2. \A d \in Clients : Serving(d) => fd'[d] = fd[d]
    BY <1>1, <1>2 DEF Serving
  <2>3. \A d \in Clients : since'[d] # 0 /\ Serving(d)' => Listed(d)'
    BY <1>1, <2>1, <2>2 DEF ListConsistent, Listed
  <2>4. \A k \in DOMAIN clients : \E d \in Clients :
          clients[k] = fd'[d] /\ Serving(d)' /\ since'[d] # 0
    BY <1>1, <2>1, <2>2 DEF ListConsistent
  <2> QED
    BY <1>1, <2>3, <2>4 DEF ListConsistent
<1> QED
  BY <1>5, <1>6, <1>7

-----------------------------------------------------------------------------
(* Types *)

\* An element of the list is the descriptor of a client, which OwnerOf finds.
LEMMA TargetIsClient ==
  ASSUME Inv, i <= Len(clients)
  PROVE  Target \in Clients /\ i + 1 \in 1 .. MAXCLIENTS + 1
<1>1. i \in DOMAIN clients /\ i + 1 \in 1 .. MAXCLIENTS + 1
  BY ListAssumption DEF Inv, TypeOK
<1>2. \E c \in Clients : fd[c] = clients[i]
  BY <1>1 DEF Inv, ListConsistent
<1> QED
  BY <1>1, <1>2 DEF Target, OwnerOf

\* send() of texts keeps the types of the connections.
LEMMA SendKeepsTypes ==
  ASSUME NetTypeOK(Texts), NEW c \in Clients, NEW ms \in Seq(Texts), NetSend(c, ms)
  PROVE  relayed' \in [Clients -> Seq(Texts)] /\ peer' \in [Clients -> PeerStates]
<1>1. relayed[c] \o ms \in Seq(Texts)
  BY DEF NetTypeOK
<1>2. relayed' \in [Clients -> Seq(Texts)]
  BY <1>1 DEF NetTypeOK, NetSend
<1>3. peer' \in [Clients -> PeerStates]
  BY DEF NetTypeOK, NetSend, PeerStates, Departed
<1> QED
  BY <1>2, <1>3

\* The steps of ServerSendThread keep the types.
LEMMA SenderTypes ==
  ASSUME Inv, SenderReads \/ Sender
  PROVE  TypeOK' /\ LineTyped'
<1> USE DEF Inv, TypeOK, LineTyped
<1>1. CASE SenderReads
  BY <1>1, ListAssumption DEF SenderReads, netVars, NetTypeOK, clientVars
<1>2. CASE SenderLocks \/ SenderUnlocks
  <2>1. /\ UNCHANGED <<netVars, clients, mpc, pc, buf, line, server, since, clientVars>>
        /\ clients_mtx' \in {Nobody, Operator} /\ i' = 1
        /\ spc' \in {"send", "fgets"} /\ (spc' # "fgets" => spc # "fgets")
    BY <1>2 DEF SenderLocks, SenderUnlocks
  <2> QED
    BY <2>1, ListAssumption DEF netVars, NetTypeOK, clientVars
<1>3. CASE SenderSends
  <2>1. Target \in Clients /\ i + 1 \in 1 .. MAXCLIENTS + 1
    BY <1>3, TargetIsClient DEF SenderSends
  <2>2. <<<<Operator, line>>>> \in Seq(Texts)
    BY <1>3 DEF SenderSends, Texts
  <2>3. relayed' \in [Clients -> Seq(Texts)] /\ peer' \in [Clients -> PeerStates]
    BY <1>3, <2>1, <2>2, SendKeepsTypes DEF SenderSends
  <2> QED
    BY <1>3, <2>1, <2>3 DEF SenderSends, NetTypeOK, clientVars
<1>4. CASE SenderSendLost
  <2>1. i + 1 \in 1 .. MAXCLIENTS + 1
    BY <1>4, TargetIsClient DEF SenderSendLost
  <2> QED
    BY <1>4, <2>1 DEF SenderSendLost, NetTypeOK, PeerStates, Departed, clientVars
<1>5. CASE SenderDies
  BY <1>5 DEF SenderDies, netVars, NetTypeOK, clientVars
<1> QED
  BY <1>1, <1>2, <1>3, <1>4, <1>5 DEF Sender

\* So do the steps of a handler.
LEMMA HandlerTypes ==
  ASSUME Inv, NEW c \in Clients, Handler(c)
  PROVE  TypeOK' /\ LineTyped'
<1> USE DEF Inv, TypeOK, LineTyped
<1>1. CASE Receive(c)
  <2>1. PICK n \in 1 .. RecvMax : /\ NetRecv(c, n)
                                  /\ buf' = [buf EXCEPT ![c] = SubSeq(up[c], 1, n)]
    BY <1>1 DEF Receive
  <2>2. SubSeq(up[c], 1, n) \in Seq(Units) /\ up' \in [Clients -> Seq(Units)]
    BY <2>1, ReceivedUnits
  <2>3. buf' \in [Clients -> Seq(Units)]
    BY <2>1, <2>2
  <2> QED
    BY <1>1, <2>2, <2>3 DEF Receive, NetTypeOK, clientVars
<1>2. CASE ReceiveEnd(c) \/ ReceiveDies(c) \/ EchoDies(c)
  BY <1>2 DEF ReceiveEnd, ReceiveDies, EchoDies, netVars, NetTypeOK, clientVars
<1>3. CASE Echo(c)
  <2>1. buf[c] \in Seq(Texts)
    BY DEF Texts
  <2>2. relayed' \in [Clients -> Seq(Texts)] /\ peer' \in [Clients -> PeerStates]
    BY <1>3, <2>1, SendKeepsTypes DEF Echo
  <2>3. buf' \in [Clients -> Seq(Units)]
    BY <1>3 DEF Echo
  <2> QED
    BY <1>3, <2>2, <2>3 DEF Echo, NetTypeOK, clientVars
<1>4. CASE RemoveClient(c)
  <2>1. clients' \in Seq(Fds) /\ Len(clients') <= MAXCLIENTS
    BY <1>4, RemoveKeepsInv
  <2> QED
    BY <1>4, <2>1 DEF RemoveClient, netVars, NetTypeOK, clientVars
<1>5. CASE CloseSocket(c)
  BY <1>5 DEF CloseSocket, NetClose, NetTypeOK, PeerStates, clientVars
<1> QED
  BY <1>1, <1>2, <1>3, <1>4, <1>5 DEF Handler

\* A function with a value of its range put in for one argument.
LEMMA UpdateTyped ==
  ASSUME NEW S, NEW T, NEW g \in [S -> T], NEW a, NEW v \in T
  PROVE  [g EXCEPT ![a] = v] \in [S -> T]
OBVIOUS

\* And those of main().
LEMMA MainTypes ==
  ASSUME Inv, Main
  PROVE  TypeOK' /\ LineTyped'
<1> USE DEF Inv, TypeOK, LineTyped
<1>1. ASSUME NEW c \in Clients, Accept(c) PROVE TypeOK' /\ LineTyped'
  <2>1. fd' \in [Clients -> Fds \union {0}] /\ backlog' \in Seq(Clients)
    BY <1>1, AcceptKeepsInv
  <2> QED
    BY <1>1, <2>1 DEF Accept, NetTypeOK, clientVars
<1>2. CASE AcceptDies
  BY <1>2 DEF AcceptDies, netVars, NetTypeOK, clientVars
<1>3. CASE AddClient
  <2>1. clients' \in Seq(Fds) /\ Len(clients') <= MAXCLIENTS
    BY <1>3, AddKeepsInv
  <2>2. since' \in [Clients -> 0 .. MaxLines + 1]
    <3> DEFINE D == 0 .. MaxLines + 1
    <3>1. FirstLine \in D /\ since \in [Clients -> D]
      BY ListAssumption DEF FirstLine
    <3>2. since' \in {since, [since EXCEPT ![mpc] = FirstLine]}
      BY <1>3 DEF AddClient
    <3> HIDE DEF D
    <3>3. [since EXCEPT ![mpc] = FirstLine] \in [Clients -> D]
      BY <3>1, UpdateTyped, Zenon
    <3>4. since' \in [Clients -> D]
      BY <3>1, <3>2, <3>3, Zenon
    <3> QED
      BY <3>4 DEF D
  <2>3. /\ UNCHANGED <<netVars, clients_mtx, buf, spc, line, i, server, clientVars>>
        /\ pc' = [pc EXCEPT ![mpc] = "recv"] /\ mpc' = Nobody
    BY <1>3 DEF AddClient
  <2> DEFINE S == {"none", "recv", "echo", "remove", "close", "done"}
  <2>6. pc \in [Clients -> S] /\ "recv" \in S
    OBVIOUS
  <2> HIDE DEF S
  <2>7. [pc EXCEPT ![mpc] = "recv"] \in [Clients -> S]
    BY <2>6, UpdateTyped, Zenon
  <2>4. pc' \in [Clients -> S]
    BY <2>3, <2>7, Zenon
  <2> USE DEF S
  <2>5. UNCHANGED <<netVars, cpc, rpc>> /\ NetTypeOK(Texts)
    BY <2>3 DEF clientVars
  <2>8. NetTypeOK(Texts)'
    BY <2>5 DEF netVars, NetTypeOK
  <2> QED
    BY <2>1, <2>2, <2>3, <2>4, <2>5, <2>8
<1> QED
  BY <1>1, <1>2, <1>3 DEF Main

\* And those of a client.
LEMMA ClientTypes ==
  ASSUME Inv, NEW c \in Clients, ClientStep(c)
  PROVE  TypeOK' /\ LineTyped'
<1> USE DEF Inv, TypeOK, LineTyped
<1>1. UNCHANGED serverVars /\ NetTypeOK(Texts)'
  BY ClientSteps
<1>2. /\ cpc' \in [Clients -> {"off", "fgets", "send", "join", "exited"}]
      /\ rpc' \in [Clients -> {"off", "recv", "print", "ended"}]
  BY DEF ClientStep, ClientMain, RecvThread, User, ClientSends, ClientSendFails, ClientExits,
     ClientReceives, ClientReceivesLast, ClientPrints, ClientSeesEnd, ClientConnect,
     ClientReads, ClientCloses, ClientKilled
<1> QED
  BY <1>1, <1>2 DEF serverVars

-----------------------------------------------------------------------------
(* The theorems *)

\* Every step keeps the inductive invariant.
LEMMA NextInv ==
  ASSUME Inv, [Next]_vars PROVE Inv'
<1>1. CASE Main
  <2>1. TypeOK' /\ LineTyped'
    BY <1>1, MainTypes
  <2>2. ConnectionInv' /\ ListConsistent'
    <3>1. CASE AddClient
      BY <3>1, AddKeepsInv
    <3>2. CASE AcceptDies
      BY <3>2 DEF AcceptDies, netVars, Inv, ConnectionInv, NewUnowed, FdsDistinct,
         OpenWhileServed, AcceptedUnserved, QueuedUnserved, AbsentUnserved, ListConsistent,
         Listed, Serving
    <3> QED
      BY <1>1, <3>1, <3>2, AcceptKeepsInv DEF Main
  <2> QED
    BY <2>1, <2>2 DEF Inv
<1>2. CASE SenderReads \/ Sender
  BY <1>2, SenderTypes, TextingKeepsInv DEF Inv, Texting
<1>3. ASSUME NEW c \in Clients, Handler(c) PROVE Inv'
  <2>1. TypeOK' /\ LineTyped'
    BY <1>3, HandlerTypes
  <2>2. ConnectionInv' /\ ListConsistent'
    <3>1. CASE Texting
      BY <3>1, TextingKeepsInv
    <3>2. CASE RemoveClient(c) \/ CloseSocket(c)
      BY <3>2, RemoveKeepsInv, CloseKeepsInv
    <3> QED
      BY <1>3, <3>1, <3>2 DEF Handler, Texting
  <2> QED
    BY <2>1, <2>2 DEF Inv
<1>4. ASSUME NEW c \in Clients, ClientStep(c) PROVE Inv'
  BY <1>4, ClientTypes, ClientKeepsInv DEF Inv
<1>5. CASE UNCHANGED vars
  BY <1>5 DEF vars, netVars, serverVars, clientVars, Inv, TypeOK, NetTypeOK, LineTyped,
     ConnectionInv, NewUnowed, FdsDistinct, OpenWhileServed, AcceptedUnserved, QueuedUnserved,
     AbsentUnserved, ListConsistent, Listed, Serving
<1> QED
  BY <1>1, <1>2, <1>3, <1>4, <1>5 DEF Next, ClientStep

\* The inductive invariant holds in every reachable state.
THEOREM InvHolds == Spec => []Inv
<1>1. Inv /\ [Next]_vars => Inv'
  BY NextInv
<1> QED
  BY InitInv, <1>1, PTL DEF Spec

\* Every variable keeps its type: the list never outgrows its array, and the thread
\* that walks it never passes its end.
THEOREM TypeCorrect == Spec => []TypeOK
<1>1. Inv => TypeOK
  BY DEF Inv
<1> QED
  BY InvHolds, <1>1, PTL

\* However clients come and leave, the list holds everybody that add_client() had room
\* for and whose handler has not removed it yet, each once, and nothing else.
THEOREM ListIsConsistent == Spec => []ListConsistent
<1>1. Inv => ListConsistent
  BY DEF Inv
<1> QED
  BY InvHolds, <1>1, PTL

-----------------------------------------------------------------------------
(***************************************************************************)
(* What a client is sent by two threads.  The invariant says of each       *)
(* stream how far either thread has come with it.                          *)
(***************************************************************************)

\* Echoes: what the handler has received, but for what its buffer holds.
Echoed(c) == Taken(c) - Len(buf[c])

\* The buffer holds what was received last, until it is echoed.
BufferIsNext ==
    \A c \in Clients :
      /\ Echoed(c) \in Nat
      /\ \A k \in 1 .. Len(buf[c]) : buf[c][k] = <<c, Echoed(c) + k>>
      /\ pc[c] # "echo" => buf[c] = <<>>

\* Lines: the one being sent is still owed to those the loop has not reached.
Owed(c) == spc = "lock" \/ (spc = "send" /\ \E k \in i .. Len(clients) : clients[k] = fd[c])
Given(c) == IF Owed(c) THEN line - 1 ELSE line

\* The loop runs with the mutex held.
LoopHoldsMutex == clients_mtx = Operator <=> spc = "send"

\* Nobody is sent anything before it has a handler.
NewUnwritten == \A c \in Clients : pc[c] = "none" => relayed[c] = <<>>

Connected(c) == peer[c] \in {"here", "closed"}

Lines(c) == Numbers(relayed[c], Operator)

\* The stream of a client holds all its echoes and all lines from the first it is owed.
Stream(c) ==
    /\ \A k \in DOMAIN relayed[c] : relayed[c][k][1] \in {Operator, c}
    /\ Ordered(relayed[c])
    /\ Numbers(relayed[c], c) = 1 .. Echoed(c)
    /\ since[c] <= Given(c) + 1
    /\ \A n \in Lines(c) :
         n \in 1 .. Given(c) /\ since[c] \in 1 .. n /\ since[c] .. n \subseteq Lines(c)
    /\ since[c] # 0 /\ Listed(c) /\ Connected(c) => since[c] .. Given(c) \subseteq Lines(c)

\* A handler that has taken its client off the list has seen it leave.
RemovedLeft == \A c \in Clients : pc[c] \in {"remove", "close", "done"} => peer[c] # "here"

StreamInv ==
    /\ WaitingIsEnd
    /\ BufferIsNext
    /\ LoopHoldsMutex
    /\ NewUnwritten
    /\ \A c \in Clients : Stream(c)

\* What a sequence put behind another adds to the numbers of an author.
LEMMA NumbersOfConcatenation ==
  ASSUME NEW s \in Seq(Texts), NEW t \in Seq(Texts), NEW a
  PROVE  Numbers(s \o t, a) = Numbers(s, a) \union Numbers(t, a)
<1>1. /\ Len(s) \in Nat /\ Len(t) \in Nat
      /\ DOMAIN s = 1 .. Len(s) /\ DOMAIN t = 1 .. Len(t)
      /\ DOMAIN (s \o t) = 1 .. Len(s) + Len(t)
      /\ \A k \in 1 .. Len(s) : (s \o t)[k] = s[k]
      /\ \A k \in 1 .. Len(t) : (s \o t)[Len(s) + k] = t[k]
  OBVIOUS
<1>2. ASSUME NEW n \in Numbers(s \o t, a)
      PROVE  n \in Numbers(s, a) \union Numbers(t, a)
  <2>1. PICK k \in 1 .. Len(s) + Len(t) : n = (s \o t)[k][2] /\ (s \o t)[k][1] = a
    BY <1>1, <1>2 DEF Numbers
  <2>2. CASE k \in 1 .. Len(s)
    BY <1>1, <2>1, <2>2 DEF Numbers
  <2>3. CASE k \notin 1 .. Len(s)
    <3>1. k - Len(s) \in 1 .. Len(t) /\ Len(s) + (k - Len(s)) = k
      BY <1>1, <2>1, <2>3
    <3>2. (s \o t)[k] = t[k - Len(s)]
      BY <1>1, <3>1
    <3> QED
      BY <1>1, <2>1, <3>1, <3>2 DEF Numbers
  <2> QED
    BY <2>2, <2>3
<1>3. ASSUME NEW n \in Numbers(s, a) PROVE n \in Numbers(s \o t, a)
  <2>1. PICK k \in 1 .. Len(s) : n = s[k][2] /\ s[k][1] = a
    BY <1>1, <1>3 DEF Numbers
  <2>2. k \in DOMAIN (s \o t) /\ (s \o t)[k] = s[k]
    BY <1>1
  <2> QED
    BY <2>1, <2>2 DEF Numbers
<1>4. ASSUME NEW n \in Numbers(t, a) PROVE n \in Numbers(s \o t, a)
  <2>1. PICK k \in 1 .. Len(t) : n = t[k][2] /\ t[k][1] = a
    BY <1>1, <1>4 DEF Numbers
  <2>2. Len(s) + k \in DOMAIN (s \o t) /\ (s \o t)[Len(s) + k] = t[k]
    BY <1>1
  <2> QED
    BY <2>1, <2>2 DEF Numbers
<1> QED
  BY <1>2, <1>3, <1>4

\* Each element of a concatenation is one of its parts'.
LEMMA ElementsOfConcatenation ==
  ASSUME NEW s \in Seq(Texts), NEW t \in Seq(Texts), NEW k \in DOMAIN (s \o t)
  PROVE  \/ k \in DOMAIN s /\ (s \o t)[k] = s[k]
         \/ \E l \in DOMAIN t : (s \o t)[k] = t[l]
<1>1. /\ Len(s) \in Nat /\ Len(t) \in Nat
      /\ DOMAIN s = 1 .. Len(s) /\ DOMAIN t = 1 .. Len(t)
      /\ DOMAIN (s \o t) = 1 .. Len(s) + Len(t)
      /\ \A j \in 1 .. Len(s) : (s \o t)[j] = s[j]
      /\ \A j \in 1 .. Len(t) : (s \o t)[Len(s) + j] = t[j]
  OBVIOUS
<1>2. CASE k \in 1 .. Len(s)
  BY <1>1, <1>2
<1>3. CASE k \notin 1 .. Len(s)
  <2>1. k - Len(s) \in 1 .. Len(t) /\ Len(s) + (k - Len(s)) = k
    BY <1>1, <1>3
  <2>2. (s \o t)[k] = t[k - Len(s)]
    BY <1>1, <2>1
  <2> QED
    BY <1>1, <2>1, <2>2
<1> QED
  BY <1>2, <1>3

\* Two ordered sequences, the second of which goes on where the first ends.
LEMMA OrderedConcatenation ==
  ASSUME NEW s \in Seq(Texts), NEW t \in Seq(Texts), Ordered(s), Ordered(t),
         \A j \in DOMAIN s, k \in DOMAIN t : s[j][1] = t[k][1] => s[j][2] < t[k][2]
  PROVE  Ordered(s \o t)
<1>1. /\ Len(s) \in Nat /\ Len(t) \in Nat
      /\ DOMAIN s = 1 .. Len(s) /\ DOMAIN t = 1 .. Len(t)
      /\ DOMAIN (s \o t) = 1 .. Len(s) + Len(t)
      /\ \A k \in 1 .. Len(s) : (s \o t)[k] = s[k]
      /\ \A k \in 1 .. Len(t) : (s \o t)[Len(s) + k] = t[k]
  OBVIOUS
<1>2. \A k \in 1 .. Len(s) + Len(t) :
        \/ k \in 1 .. Len(s) /\ (s \o t)[k] = s[k]
        \/ k > Len(s) /\ k - Len(s) \in 1 .. Len(t) /\ (s \o t)[k] = t[k - Len(s)]
  <2>1. TAKE k \in 1 .. Len(s) + Len(t)
  <2>2. CASE k \in 1 .. Len(s)
    BY <1>1, <2>2
  <2>3. CASE k \notin 1 .. Len(s)
    <3>1. k > Len(s) /\ k - Len(s) \in 1 .. Len(t) /\ Len(s) + (k - Len(s)) = k
      BY <1>1, <2>3
    <3> QED
      BY <1>1, <3>1
  <2> QED
    BY <2>2, <2>3
<1>3. ASSUME NEW j \in DOMAIN (s \o t), NEW k \in DOMAIN (s \o t),
             j < k, (s \o t)[j][1] = (s \o t)[k][1]
      PROVE  (s \o t)[j][2] < (s \o t)[k][2]
  <2> DEFINE J == j - Len(s)
             K == k - Len(s)
  <2>1. CASE j \in 1 .. Len(s) /\ k \in 1 .. Len(s)
    BY <1>1, <1>3, <2>1 DEF Ordered
  <2>2. CASE j \in 1 .. Len(s) /\ k > Len(s)
    BY <1>1, <1>2, <1>3, <2>2
  <2>3. CASE j > Len(s)
    <3>1. k > Len(s) /\ J < K
      BY <1>1, <1>3, <2>3
    <3>2. J \in DOMAIN t /\ K \in DOMAIN t /\ (s \o t)[j] = t[J] /\ (s \o t)[k] = t[K]
      BY <1>1, <1>2, <2>3, <3>1
    <3> HIDE DEF J, K
    <3> QED
      BY <1>3, <3>1, <3>2 DEF Ordered
  <2> QED
    BY <1>1, <1>2, <1>3, <2>1, <2>2, <2>3
<1> QED
  BY <1>3 DEF Ordered

\* Who is on the list has a handler and a descriptor of its own.
LEMMA ListedServed ==
  ASSUME Inv, NEW c \in Clients, Listed(c)
  PROVE  fd[c] # 0 /\ pc[c] \in {"recv", "echo", "remove"} /\ since[c] # 0
<1>1. PICK k \in DOMAIN clients : clients[k] = fd[c]
  BY DEF Listed
<1>2. fd[c] # 0
  BY <1>1, FdsAssumption DEF Inv, TypeOK
<1>3. PICK d \in Clients : clients[k] = fd[d] /\ Serving(d) /\ since[d] # 0
  BY DEF Inv, ListConsistent
<1>4. c = d
  BY <1>1, <1>2, <1>3 DEF Inv, ConnectionInv, FdsDistinct
<1> QED
  BY <1>2, <1>3, <1>4 DEF Serving

\* How many lines a client was given is a number.
LEMMA GivenIsNat ==
  ASSUME TypeOK, LineTyped, NEW c \in Clients
  PROVE  Given(c) \in Nat /\ line \in Nat /\ since[c] \in Nat
<1>1. line \in Nat
  BY DEF TypeOK
<1>2. Owed(c) => line >= 1
  BY DEF Owed, LineTyped
<1>3. since[c] \in Nat
  BY ListAssumption DEF TypeOK
<1> QED
  BY <1>1, <1>2, <1>3 DEF Given

\* A stream that is not written to stays right when nothing more was owed to it.
LEMMA StreamKept ==
  ASSUME NEW c \in Clients, Stream(c), relayed'[c] = relayed[c], Echoed(c)' = Echoed(c),
         Given(c) \in Nat, Given(c)' \in Nat, Given(c) <= Given(c)', since[c] \in Nat,
         \/ relayed[c] = <<>> /\ since'[c] = Given(c)' + 1
         \/ /\ since'[c] = since[c]
            /\ since[c] # 0 /\ Listed(c)' /\ Connected(c)' =>
                 Listed(c) /\ Connected(c) /\ Given(c)' = Given(c)
  PROVE  Stream(c)'
<1>1. Lines(c)' = Lines(c) /\ (relayed[c] = <<>> => Lines(c) = {})
  BY DEF Lines, Numbers
<1>2. CASE relayed[c] = <<>> /\ since'[c] = Given(c)' + 1
  <2>1. since'[c] <= Given(c)' + 1 /\ since'[c] .. Given(c)' = {}
    BY <1>2
  <2> QED
    BY <1>1, <1>2, <2>1 DEF Stream
<1>3. CASE /\ since'[c] = since[c]
           /\ since[c] # 0 /\ Listed(c)' /\ Connected(c)' =>
                Listed(c) /\ Connected(c) /\ Given(c)' = Given(c)
  <2>1. \A n \in Lines(c) : n \in 1 .. Given(c) => n \in 1 .. Given(c)'
    OBVIOUS
  <2>2. since'[c] <= Given(c)' + 1
    BY <1>3 DEF Stream
  <2> QED
    BY <1>1, <1>3, <2>1, <2>2 DEF Stream
<1> QED
  BY <1>2, <1>3

\* The same two facts of the next state.
GivenNumbers == \A c \in Clients : Given(c) \in Nat
ListedAreServed == \A c \in Clients : Listed(c) => pc[c] \in {"recv", "echo", "remove"}

LEMMA NextStateFacts == Inv' => GivenNumbers' /\ ListedAreServed'
<1>1. Inv => GivenNumbers /\ ListedAreServed
  BY GivenIsNat, ListedServed DEF Inv, GivenNumbers, ListedAreServed
<1> QED
  BY <1>1, PTL

\* A step that sends nothing and reads no line.
LEMMA QuietStreams ==
  ASSUME Inv, Inv', StreamInv, relayed' = relayed, line' = line,
         \A d \in Clients : Echoed(d)' = Echoed(d) /\ (Owed(d)' => Owed(d)),
         \A d \in Clients :
           \/ relayed[d] = <<>> /\ since'[d] = Given(d)' + 1
           \/ /\ since'[d] = since[d]
              /\ since[d] # 0 /\ Listed(d)' /\ Connected(d)' =>
                   Listed(d) /\ Connected(d) /\ (Owed(d) => Owed(d)')
  PROVE  \A d \in Clients : Stream(d)'
<1> TAKE d \in Clients
<1>1. Given(d) \in Nat /\ Given(d)' \in Nat /\ line \in Nat /\ since[d] \in Nat
  BY GivenIsNat, NextStateFacts DEF Inv, GivenNumbers
<1>2. Given(d) <= Given(d)'
  BY <1>1 DEF Given
<1>3. (Owed(d) => Owed(d)') => Given(d)' = Given(d)
  BY DEF Given
<1>4. \/ relayed[d] = <<>> /\ since'[d] = Given(d)' + 1
      \/ /\ since'[d] = since[d]
         /\ since[d] # 0 /\ Listed(d)' /\ Connected(d)' =>
              Listed(d) /\ Connected(d) /\ Given(d)' = Given(d)
  BY <1>3
<1> QED
  BY <1>1, <1>2, <1>4, StreamKept DEF StreamInv

\* A step that leaves the text of the clients where it is.
LEMMA QuietBuffers ==
  ASSUME StreamInv, UNCHANGED <<written, up, buf>>,
         \A d \in Clients : pc[d] = "echo" => pc'[d] = "echo"
  PROVE  WaitingIsEnd' /\ BufferIsNext' /\ \A d \in Clients : Echoed(d)' = Echoed(d)
<1>1. \A d \in Clients : Taken(d)' = Taken(d)
  BY DEF Taken
<1>2. \A d \in Clients : Echoed(d)' = Echoed(d)
  BY <1>1 DEF Echoed
<1>3. WaitingIsEnd'
  BY <1>1 DEF StreamInv, WaitingIsEnd
<1>4. BufferIsNext'
  BY <1>2 DEF StreamInv, BufferIsNext
<1> QED
  BY <1>2, <1>3, <1>4

\* The steps of the clients.
LEMMA ClientStreams ==
  ASSUME Inv, Inv', StreamInv, NEW c \in Clients, ClientStep(c)
  PROVE  StreamInv'
<1>1. UNCHANGED <<serverVars, fd, relayed>>
  <2>1. relayed' = relayed
    BY DEF ClientStep, ClientMain, RecvThread, User, ClientSends, ClientSendFails, ClientExits,
       ClientReceives, ClientReceivesLast, ClientPrints, ClientSeesEnd, ClientConnect,
       ClientReads, ClientCloses, ClientKilled, NetConnect, NetClientSend, NetClientRecv,
       NetClientClose, netVars
  <2> QED
    BY <2>1, ClientSteps DEF Inv
<1>2. WaitingIsEnd' /\ \A d \in Clients : Taken(d)' = Taken(d)
  <2>1. CASE ClientSends(c)
    BY <2>1, SendingKeepsWaiting DEF ClientSends, StreamInv, Inv, TypeOK
  <2>2. CASE ~ ClientSends(c)
    <3>1. UNCHANGED <<written, up>>
      BY <2>2 DEF ClientStep, ClientMain, RecvThread, User, ClientSendFails, ClientExits,
         ClientReceives, ClientReceivesLast, ClientPrints, ClientSeesEnd, ClientConnect,
         ClientReads, ClientCloses, ClientKilled, NetConnect, NetClientRecv,
         NetClientClose, netVars
    <3> QED
      BY <3>1 DEF StreamInv, WaitingIsEnd, Taken
  <2> QED
    BY <2>1, <2>2
<1>3. \A d \in Clients : Connected(d)' => Connected(d) \/ peer[d] = "absent"
  <2>1. \/ peer' = peer
        \/ /\ peer[c] \in {"absent", "here"}
           /\ \E p \in PeerStates : peer' = [peer EXCEPT ![c] = p]
        \/ peer' = [peer EXCEPT ![c] = "gone"]
    BY DEF ClientStep, ClientMain, RecvThread, User, ClientSends, ClientSendFails, ClientExits,
       ClientReceives, ClientReceivesLast, ClientPrints, ClientSeesEnd, ClientConnect,
       ClientReads, ClientCloses, ClientKilled, NetConnect, NetClientSend, NetClientRecv,
       NetClientClose, netVars, PeerStates, Departed
  <2> QED
    BY <2>1 DEF Connected, Inv, TypeOK, NetTypeOK
<1>4. /\ UNCHANGED <<clients, clients_mtx, pc, buf, spc, line, i, since>>
      /\ \A d \in Clients : Echoed(d)' = Echoed(d) /\ Listed(d)' = Listed(d) /\ Owed(d)' = Owed(d)
  BY <1>1, <1>2 DEF serverVars, Echoed, Listed, Owed
<1>5. \A d \in Clients : Listed(d) => peer[d] # "absent"
  BY ListedServed DEF Inv, ConnectionInv, AbsentUnserved
<1>6. \A d \in Clients : Stream(d)'
  BY <1>1, <1>3, <1>4, <1>5, QuietStreams
<1> QED
  BY <1>1, <1>2, <1>4, <1>6 DEF StreamInv, BufferIsNext, LoopHoldsMutex, NewUnwritten

\* recv() moves units from the connection to the empty buffer.
LEMMA ReceiveStreams ==
  ASSUME Inv, Inv', StreamInv, NEW c \in Clients, Receive(c)
  PROVE  StreamInv'
<1>1. PICK n \in 1 .. RecvMax : NetRecv(c, n) /\ buf' = [buf EXCEPT ![c] = SubSeq(up[c], 1, n)]
  BY DEF Receive
<1>2. /\ pc[c] = "recv" /\ pc' = [pc EXCEPT ![c] = "echo"]
      /\ UNCHANGED <<peer, fd, written, relayed, clients, clients_mtx, spc, line, i, since>>
  BY DEF Receive
<1>3. /\ WaitingIsEnd'
      /\ Taken(c)' = Taken(c) + n /\ \A d \in Clients \ {c} : Taken(d)' = Taken(d)
      /\ Len(SubSeq(up[c], 1, n)) = n
      /\ \A k \in 1 .. n : SubSeq(up[c], 1, n)[k] = <<c, Taken(c) + k>>
  BY <1>1, <1>2, ReceivingTakesNext DEF Inv, TypeOK, StreamInv
<1>4. buf'[c] = SubSeq(up[c], 1, n) /\ \A d \in Clients \ {c} : buf'[d] = buf[d]
  BY <1>1 DEF Inv, TypeOK
<1>5. buf[c] = <<>> /\ Taken(c) \in Nat
  BY <1>2 DEF StreamInv, BufferIsNext, WaitingIsEnd
<1>6. Echoed(c) = Taken(c) /\ Echoed(c)' = Taken(c)
  BY <1>3, <1>4, <1>5 DEF Echoed
<1>7. \A d \in Clients : Echoed(d)' = Echoed(d)
  BY <1>3, <1>4, <1>6 DEF Echoed
<1>8. \A d \in Clients : Listed(d)' = Listed(d) /\ Owed(d)' = Owed(d) /\ Connected(d)' = Connected(d)
  BY <1>2 DEF Listed, Owed, Connected
<1>9. \A d \in Clients : Stream(d)'
  BY <1>2, <1>7, <1>8, QuietStreams
<1>10. pc'[c] = "echo" /\ \A d \in Clients \ {c} : pc'[d] = pc[d]
  BY <1>2 DEF Inv, TypeOK
<1>11. BufferIsNext'
  <2>1. ASSUME NEW d \in Clients
        PROVE  /\ Echoed(d)' \in Nat
               /\ \A k \in 1 .. Len(buf'[d]) : buf'[d][k] = <<d, Echoed(d)' + k>>
               /\ pc'[d] # "echo" => buf'[d] = <<>>
    <3>1. CASE d = c
      BY <1>3, <1>4, <1>5, <1>6, <1>10, <3>1
    <3>2. CASE d # c
      BY <1>4, <1>7, <1>10, <3>2 DEF StreamInv, BufferIsNext
    <3> QED
      BY <3>1, <3>2
  <2> QED
    BY <2>1 DEF BufferIsNext
<1> QED
  BY <1>2, <1>3, <1>9, <1>10, <1>11 DEF StreamInv, LoopHoldsMutex, NewUnwritten

\* The steps of a handler that neither receive nor send.
LEMMA HandlerStreams ==
  ASSUME Inv, Inv', StreamInv, NEW c \in Clients,
         \/ ReceiveEnd(c) \/ ReceiveDies(c) \/ EchoDies(c) \/ RemoveClient(c) \/ CloseSocket(c)
  PROVE  StreamInv'
<1>1. /\ UNCHANGED <<written, up, relayed, buf, spc, line, i, clients_mtx, since>>
      /\ \/ pc' = pc
         \/ pc[c] # "echo" /\ pc[c] # "none" /\ \E p \in {"remove", "close", "done"} : pc' = [pc EXCEPT ![c] = p]
  BY DEF ReceiveEnd, ReceiveDies, EchoDies, RemoveClient, CloseSocket, NetClose, netVars
<1>2. \A d \in Clients : /\ pc[d] = "echo" => pc'[d] = "echo"
                         /\ pc'[d] = "none" => pc[d] = "none"
  BY <1>1 DEF Inv, TypeOK
<1>3. WaitingIsEnd' /\ BufferIsNext' /\ \A d \in Clients : Echoed(d)' = Echoed(d)
  BY <1>1, <1>2, QuietBuffers
<1>4. \A d \in Clients : /\ Owed(d)' => Owed(d)
                         /\ Listed(d)' /\ Connected(d)' =>
                              Listed(d) /\ Connected(d) /\ (Owed(d) => Owed(d)')
  <2>1. CASE ReceiveEnd(c) \/ ReceiveDies(c) \/ EchoDies(c)
    BY <2>1 DEF ReceiveEnd, ReceiveDies, EchoDies, netVars, Owed, Listed, Connected
  <2>2. CASE RemoveClient(c)
    <3>1. spc # "send" /\ UNCHANGED <<spc, fd, peer>> /\ clients' = Without(fd[c])
      BY <2>2 DEF RemoveClient, MutexFree, Operator, Nobody, StreamInv, LoopHoldsMutex, netVars
    <3>2. \A d \in Clients : Owed(d)' = Owed(d) /\ Connected(d)' = Connected(d)
      BY <3>1 DEF Owed, Connected
    <3>3. \A d \in Clients : Listed(d)' => Listed(d)
      BY <3>1, WithoutEntry DEF Listed
    <3> QED
      BY <3>2, <3>3
  <2>3. CASE CloseSocket(c)
    <3>1. /\ fd' = [fd EXCEPT ![c] = 0] /\ peer' = [peer EXCEPT ![c] = "gone"]
          /\ UNCHANGED <<spc, i, clients>>
      BY <2>3 DEF CloseSocket, NetClose
    <3>2. /\ fd'[c] = 0 /\ peer'[c] = "gone"
          /\ \A d \in Clients \ {c} : fd'[d] = fd[d] /\ peer'[d] = peer[d]
      BY <3>1 DEF Inv, TypeOK, NetTypeOK
    <3>3. \A d \in Clients \ {c} :
            Owed(d)' = Owed(d) /\ Listed(d)' = Listed(d) /\ Connected(d)' = Connected(d)
      BY <3>1, <3>2 DEF Owed, Listed, Connected
    <3>4. ~ Connected(c)'
      BY <3>2 DEF Connected
    <3>5. Owed(c)' => Owed(c)
      <4>1. \A k \in i .. Len(clients) : clients[k] # 0
        <5>1. clients \in Seq(Fds) /\ i \in Nat /\ i >= 1
          BY DEF Inv, TypeOK
        <5> QED
          BY <5>1, FdsAssumption
      <4> QED
        BY <3>1, <3>2, <4>1 DEF Owed
    <3> QED
      BY <3>3, <3>4, <3>5
  <2> QED
    BY <2>1, <2>2, <2>3
<1>5. \A d \in Clients : Stream(d)'
  BY <1>1, <1>3, <1>4, QuietStreams
<1> QED
  BY <1>1, <1>2, <1>3, <1>5 DEF StreamInv, LoopHoldsMutex, NewUnwritten

\* The steps of main(): who is new on the list was sent nothing.
LEMMA MainStreams ==
  ASSUME Inv, Inv', StreamInv, Main
  PROVE  StreamInv'
<1>1. UNCHANGED <<written, up, relayed, buf, spc, line, i, clients_mtx, peer>>
  BY DEF Main, AddClient, AcceptDies, Accept, NetAccept, netVars
<1>2. \A d \in Clients : /\ pc[d] = "echo" => pc'[d] = "echo"
                         /\ pc'[d] = "none" => pc[d] = "none"
  <2>1. CASE AddClient
    <3>1. pc' = [pc EXCEPT ![mpc] = "recv"] /\ mpc \in Clients /\ pc[mpc] = "none"
      BY <2>1 DEF AddClient, Inv, TypeOK, ConnectionInv, AcceptedUnserved
    <3> QED
      BY <3>1 DEF Inv, TypeOK
  <2>2. CASE ~ AddClient
    BY <2>2 DEF Main, AcceptDies, Accept
  <2> QED
    BY <2>1, <2>2
<1>3. WaitingIsEnd' /\ BufferIsNext' /\ \A d \in Clients : Echoed(d)' = Echoed(d)
  BY <1>1, <1>2, QuietBuffers
<1>4. \A d \in Clients :
        /\ Owed(d)' => Owed(d)
        /\ \/ relayed[d] = <<>> /\ since'[d] = Given(d)' + 1
           \/ /\ since'[d] = since[d]
              /\ since[d] # 0 /\ Listed(d)' /\ Connected(d)' =>
                   Listed(d) /\ Connected(d) /\ (Owed(d) => Owed(d)')
  <2>1. CASE AcceptDies
    <3>1. UNCHANGED <<netVars, clients, spc, i, since>>
      BY <2>1 DEF AcceptDies
    <3>2. \A d \in Clients :
            Owed(d)' = Owed(d) /\ Listed(d)' = Listed(d) /\ Connected(d)' = Connected(d)
      BY <3>1 DEF netVars, Owed, Listed, Connected
    <3> QED
      BY <3>1, <3>2
  <2>2. ASSUME NEW c \in Clients, Accept(c)
        PROVE  \A d \in Clients : /\ Owed(d)' => Owed(d)
                                  /\ since'[d] = since[d]
                                  /\ Listed(d)' /\ Connected(d)' =>
                                       Listed(d) /\ Connected(d) /\ (Owed(d) => Owed(d)')
    <3>1. /\ clients' = clients /\ pc' = pc /\ since' = since
          /\ \A d \in Clients \ {c} : fd'[d] = fd[d]
      BY <2>2, AcceptGivesFreeFd DEF Accept, Inv, TypeOK
    <3>2. \A d \in Clients \ {c} :
            Owed(d)' = Owed(d) /\ Listed(d)' = Listed(d) /\ Connected(d)' = Connected(d)
      BY <1>1, <3>1 DEF Owed, Listed, Connected
    <3>3. ~ Listed(c)'
      <4>1. mpc' = c
        BY <2>2 DEF Accept
      <4>2. pc'[c] = "none"
        BY <4>1 DEF Inv, ConnectionInv, AcceptedUnserved
      <4> QED
        BY <4>2, NextStateFacts DEF ListedAreServed
    <3>4. Owed(c)' => Owed(c)
      <4>1. \A k \in i .. Len(clients) : clients[k] # fd'[c]
        BY <3>1, <3>3 DEF Listed, Inv, TypeOK
      <4> QED
        BY <1>1, <3>1, <4>1 DEF Owed
    <3> QED
      BY <3>1, <3>2, <3>3, <3>4
  <2>3. CASE AddClient
    <3>1. /\ fd' = fd
          /\ clients' = IF Len(clients) < MAXCLIENTS THEN Append(clients, fd[mpc]) ELSE clients
      BY <2>3 DEF AddClient, netVars
    <3>2. mpc \in Clients /\ pc[mpc] = "none" /\ fd[mpc] # 0
      BY <2>3 DEF AddClient, Inv, TypeOK, ConnectionInv, AcceptedUnserved, OpenWhileServed
    <3>3. spc # "send"
      BY <2>3 DEF AddClient, MutexFree, Operator, Nobody, StreamInv, LoopHoldsMutex
    <3>4. \A d \in Clients : Owed(d)' = Owed(d) /\ Connected(d)' = Connected(d)
      BY <1>1, <3>3 DEF Owed, Connected
    <3>5. relayed[mpc] = <<>>
      BY <3>2 DEF StreamInv, NewUnwritten
    <3>6. ASSUME NEW d \in Clients \ {mpc}, Listed(d)' PROVE Listed(d)
      <4>1. PICK k \in DOMAIN clients' : clients'[k] = fd[d]
        BY <3>1, <3>6 DEF Listed
      <4>2. fd[d] # fd[mpc]
        BY <3>2 DEF Inv, ConnectionInv, FdsDistinct
      <4>3. clients \in Seq(Fds) /\ fd[mpc] \in Fds
        BY <3>2 DEF Inv, TypeOK, NetTypeOK
      <4>4. k \in DOMAIN clients /\ clients[k] = fd[d]
        BY <3>1, <4>1, <4>2, <4>3
      <4> QED
        BY <4>4 DEF Listed
    <3>8. since[mpc] = 0 /\ line \in Nat /\ since \in [Clients -> 0 .. MaxLines + 1]
      BY <3>2 DEF Inv, TypeOK, ConnectionInv, NewUnowed
    <3>7. /\ since'[mpc] \in {0, FirstLine}
          /\ \A d \in Clients \ {mpc} : since'[d] = since[d]
      BY <2>3, <3>2, <3>8 DEF AddClient
    <3>9. PICK m \in Clients : m = mpc
      BY <3>2
    <3>10. Given(m)' + 1 = FirstLine
      BY <1>1, <3>3, <3>8 DEF Given, Owed, FirstLine
    <3>11. ASSUME NEW d \in Clients \ {m}
           PROVE  /\ Owed(d)' => Owed(d)
                  /\ since'[d] = since[d]
                  /\ Listed(d)' /\ Connected(d)' =>
                       Listed(d) /\ Connected(d) /\ (Owed(d) => Owed(d)')
      BY <3>4, <3>6, <3>7, <3>9
    <3>12. \/ since'[m] = since[m] /\ since[m] = 0
           \/ since'[m] = Given(m)' + 1
      BY <3>7, <3>8, <3>9, <3>10
    <3>13. relayed[m] = <<>> /\ (Owed(m)' => Owed(m))
      BY <3>4, <3>5, <3>9
    <3> QED
      BY <3>11, <3>12, <3>13
  <2> QED
    BY <2>1, <2>2, <2>3 DEF Main
<1>5. \A d \in Clients : Stream(d)'
  BY <1>1, <1>3, <1>4, QuietStreams
<1> QED
  BY <1>1, <1>2, <1>3, <1>5 DEF StreamInv, LoopHoldsMutex, NewUnwritten


\* An echo goes on where the last one ended.
LEMMA EchoStreams ==
  ASSUME Inv, Inv', StreamInv, NEW c \in Clients, Echo(c)
  PROVE  StreamInv'
<1> DEFINE s == relayed[c]
           t == buf[c]
           e == Echoed(c)
<1>1. /\ NetSend(c, t) /\ relayed' = [relayed EXCEPT ![c] = s \o t]
      /\ buf' = [buf EXCEPT ![c] = <<>>] /\ pc' = [pc EXCEPT ![c] = "recv"]
      /\ UNCHANGED <<fd, written, up, clients, clients_mtx, spc, line, i, since>>
      /\ pc[c] = "echo"
  BY DEF Echo, NetSend
<1>2. s \in Seq(Texts) /\ t \in Seq(Texts) /\ t \in Seq(Units) /\ Len(t) \in Nat
  <2>1. Units \subseteq Texts /\ s \in Seq(Texts) /\ t \in Seq(Units)
    BY DEF Inv, TypeOK, NetTypeOK, Texts
  <2> QED
    BY <2>1
<1>3. /\ relayed'[c] = s \o t /\ buf'[c] = <<>> /\ pc'[c] = "recv"
      /\ \A d \in Clients \ {c} : /\ relayed'[d] = relayed[d] /\ buf'[d] = buf[d]
                                  /\ pc'[d] = pc[d] /\ peer'[d] = peer[d]
  <2>1. /\ relayed \in [Clients -> Seq(Texts)] /\ buf \in [Clients -> Seq(Units)]
        /\ pc \in [Clients -> {"none", "recv", "echo", "remove", "close", "done"}]
        /\ peer \in [Clients -> PeerStates]
    BY DEF Inv, TypeOK, NetTypeOK
  <2>2. \A d \in Clients \ {c} : peer'[d] = peer[d]
    BY <1>1, <2>1 DEF NetSend
  <2> QED
    BY <1>1, <2>1, <2>2
<1>4. e \in Nat /\ \A k \in 1 .. Len(t) : t[k] = <<c, e + k>>
  BY DEF StreamInv, BufferIsNext
<1>5. \A d \in Clients : Taken(d)' = Taken(d) /\ Listed(d)' = Listed(d) /\ Given(d)' = Given(d)
  BY <1>1 DEF Taken, Listed, Given, Owed
<1>6. Echoed(c)' = e + Len(t) /\ \A d \in Clients \ {c} : Echoed(d)' = Echoed(d)
  <2>1. Taken(c) \in Nat
    BY DEF StreamInv, WaitingIsEnd
  <2> QED
    BY <1>2, <1>3, <1>5, <2>1 DEF Echoed
<1>7. Connected(c) /\ \A d \in Clients \ {c} : Connected(d)' = Connected(d)
  BY <1>1, <1>3 DEF NetSend, Connected
<1>8. WaitingIsEnd'
  BY <1>1, <1>5 DEF StreamInv, WaitingIsEnd
<1>9. BufferIsNext'
  <2>1. Echoed(c)' \in Nat /\ Len(buf'[c]) = 0
    BY <1>2, <1>3, <1>4, <1>6
  <2> QED
    BY <1>3, <1>6, <2>1, SMTT(30) DEF StreamInv, BufferIsNext
<1>10. ASSUME NEW d \in Clients \ {c} PROVE Stream(d)'
  <2>1. Given(d) \in Nat /\ since[d] \in Nat
    BY GivenIsNat DEF Inv
  <2> QED
    BY <1>1, <1>3, <1>5, <1>6, <1>7, <2>1, StreamKept DEF StreamInv
<1>11. Stream(c)'
  <2>1. Stream(c)
    BY DEF StreamInv
  <2>2. Operator # c
    BY NamesAssumption
  <2>3. Numbers(t, c) = e + 1 .. e + Len(t) /\ Numbers(t, Operator) = {}
    <3>1. DOMAIN t = 1 .. Len(t)
      BY <1>2
    <3>2. ASSUME NEW n \in e + 1 .. e + Len(t) PROVE n \in Numbers(t, c)
      <4>1. n - e \in 1 .. Len(t) /\ e + (n - e) = n
        BY <1>2, <1>4
      <4>2. t[n - e] = <<c, n>>
        BY <1>4, <4>1
      <4> QED
        BY <3>1, <4>1, <4>2 DEF Numbers
    <3>3. ASSUME NEW n \in Numbers(t, c) PROVE n \in e + 1 .. e + Len(t)
      BY <1>2, <1>4, <3>1, <3>3 DEF Numbers
    <3>4. Numbers(t, Operator) = {}
      BY <1>4, <2>2, <3>1 DEF Numbers
    <3> QED
      BY <3>2, <3>3, <3>4
  <2>4. Numbers(s \o t, c) = 1 .. e + Len(t) /\ Numbers(s \o t, Operator) = Numbers(s, Operator)
    <3>1. Numbers(s, c) = 1 .. e
      BY <2>1 DEF Stream
    <3>2. (1 .. e) \union (e + 1 .. e + Len(t)) = 1 .. e + Len(t)
      BY <1>2, <1>4
    <3>3. \A a : Numbers(s \o t, a) = Numbers(s, a) \union Numbers(t, a)
      BY <1>2, NumbersOfConcatenation
    <3> QED
      BY <2>3, <3>1, <3>2, <3>3
  <2>5. Ordered(s \o t)
    <3>1. DOMAIN t = 1 .. Len(t)
      BY <1>2
    <3>2. Ordered(t)
      BY <1>2, <1>4, <3>1 DEF Ordered
    <3>3. ASSUME NEW j \in DOMAIN s, NEW k \in DOMAIN t, s[j][1] = t[k][1]
          PROVE  s[j][2] < t[k][2]
      <4>1. t[k] = <<c, e + k>>
        BY <1>4, <3>1
      <4>2. s[j][2] \in Numbers(s, c)
        BY <3>3, <4>1 DEF Numbers
      <4>3. s[j][2] \in 1 .. e
        BY <2>1, <4>2 DEF Stream
      <4> QED
        BY <1>2, <1>4, <3>1, <4>1, <4>3
    <3> QED
      BY <1>2, <2>1, <3>2, <3>3, OrderedConcatenation DEF Stream
  <2>6. \A k \in DOMAIN (s \o t) : (s \o t)[k][1] \in {Operator, c}
    <3>1. ASSUME NEW k \in DOMAIN (s \o t) PROVE (s \o t)[k][1] \in {Operator, c}
      <4>1. DOMAIN t = 1 .. Len(t)
        BY <1>2
      <4>2. (k \in DOMAIN s /\ (s \o t)[k] = s[k]) \/ \E l \in DOMAIN t : (s \o t)[k] = t[l]
        BY <1>2, ElementsOfConcatenation
      <4> QED
        BY <1>4, <2>1, <4>1, <4>2 DEF Stream
    <3> QED
      BY <3>1
  <2> QED
    BY <1>1, <1>3, <1>5, <1>6, <1>7, <2>1, <2>4, <2>5, <2>6 DEF Stream, Lines
<1>12. LoopHoldsMutex' /\ NewUnwritten'
  BY <1>1, <1>3 DEF StreamInv, LoopHoldsMutex, NewUnwritten
<1> QED
  BY <1>8, <1>9, <1>10, <1>11, <1>12 DEF StreamInv

\* The client the loop is at is on the list once, and is nobody else.
LEMMA TargetListed ==
  ASSUME Inv, i <= Len(clients)
  PROVE  /\ Target \in Clients /\ fd[Target] = clients[i]
         /\ pc[Target] # "none" /\ Listed(Target) /\ since[Target] # 0
         /\ \A k \in i + 1 .. Len(clients) : clients[k] # fd[Target]
         /\ \A d \in Clients \ {Target} : fd[d] # clients[i]
<1>1. i \in DOMAIN clients /\ i \in Nat /\ DOMAIN clients = 1 .. Len(clients) /\ i >= 1
  BY DEF Inv, TypeOK
<1>2. PICK c \in Clients : fd[c] = clients[i]
  BY <1>1 DEF Inv, ListConsistent
<1>3. Target \in Clients /\ fd[Target] = clients[i]
  BY <1>2 DEF Target, OwnerOf
<1>4. Listed(Target)
  BY <1>1, <1>3 DEF Listed
<1>5. fd[Target] # 0 /\ pc[Target] \in {"recv", "echo", "remove"} /\ since[Target] # 0
  BY <1>3, <1>4, ListedServed
<1>6. \A d \in Clients \ {Target} : fd[d] # clients[i]
  BY <1>3, <1>5 DEF Inv, ConnectionInv, FdsDistinct
<1>7. \A k \in i + 1 .. Len(clients) : clients[k] # fd[Target]
  BY <1>1, <1>3 DEF Inv, ListConsistent
<1> QED
  BY <1>3, <1>4, <1>5, <1>6, <1>7

\* Past a client, the loop owes it nothing, and the others what it owed them before.
LEMMA LoopPasses ==
  ASSUME Inv, NEW c \in Clients, c = Target,
         spc = "send", i <= Len(clients), i' = i + 1, UNCHANGED <<spc, clients, fd>>
  PROVE  /\ Owed(c) /\ ~ Owed(c)'
         /\ \A d \in Clients \ {c} : Owed(d)' = Owed(d)
<1>1. /\ fd[c] = clients[i]
      /\ \A k \in i + 1 .. Len(clients) : clients[k] # fd[c]
      /\ \A d \in Clients \ {c} : fd[d] # clients[i]
  BY TargetListed
<1>2. i \in Nat /\ Len(clients) \in Nat
  BY DEF Inv, TypeOK
<1>3. /\ i \in i .. Len(clients)
      /\ \A k \in i .. Len(clients) : k = i \/ k \in i + 1 .. Len(clients)
      /\ \A k \in i + 1 .. Len(clients) : k \in i .. Len(clients)
  BY <1>2
<1>4. \A d \in Clients : /\ Owed(d)' <=> \E k \in i + 1 .. Len(clients) : clients[k] = fd[d]
                         /\ Owed(d) <=> \E k \in i .. Len(clients) : clients[k] = fd[d]
  BY DEF Owed
<1>5. ASSUME NEW d \in Clients \ {c} PROVE Owed(d)' = Owed(d)
  <2>1. (\E k \in i + 1 .. Len(clients) : clients[k] = fd[d])
          <=> (\E k \in i .. Len(clients) : clients[k] = fd[d])
    BY <1>1, <1>3
  <2>2. Owed(d)' <=> Owed(d)
    BY <1>4, <2>1
  <2> QED
    BY <2>2 DEF Owed
<1> QED
  BY <1>1, <1>3, <1>4, <1>5

\* A line goes to the client the loop is at, after the lines it has.
LEMMA LineStreams ==
  ASSUME Inv, Inv', StreamInv, SenderSends
  PROVE  StreamInv'
<1>1. PICK c \in Clients : c = Target
  BY TargetListed DEF SenderSends
<1> DEFINE s == relayed[c]
           t == <<<<Operator, line>>>>
           N == Numbers(s, Operator)
<1>2. /\ spc = "send" /\ i <= Len(clients) /\ i' = i + 1
      /\ peer[c] \in {"here", "closed"} /\ relayed' = [relayed EXCEPT ![c] = s \o t]
      /\ peer' \in {peer, [peer EXCEPT ![c] = IF @ = "closed" THEN "broken" ELSE @]}
      /\ UNCHANGED <<fd, written, up, clients, clients_mtx, pc, buf, spc, line, since>>
  BY <1>1 DEF SenderSends, NetSend
<1>3. s \in Seq(Texts) /\ line \in 1 .. MaxLines /\ line \in Nat
  BY <1>2 DEF Inv, TypeOK, NetTypeOK, LineTyped
<1>4. t \in Seq(Texts) /\ DOMAIN t = {1} /\ Len(t) = 1 /\ t[1] = <<Operator, line>>
  BY <1>3 DEF Texts
<1>5. /\ relayed'[c] = s \o t
      /\ \A d \in Clients \ {c} : relayed'[d] = relayed[d] /\ peer'[d] = peer[d]
  BY <1>2 DEF Inv, TypeOK, NetTypeOK
<1>6. /\ Owed(c) /\ ~ Owed(c)' /\ pc[c] # "none" /\ Listed(c) /\ since[c] # 0
      /\ \A d \in Clients \ {c} : Owed(d)' = Owed(d)
  BY <1>1, <1>2, LoopPasses, TargetListed
<1>7. WaitingIsEnd' /\ BufferIsNext' /\ \A d \in Clients : Echoed(d)' = Echoed(d)
  BY <1>2, QuietBuffers
<1>8. \A d \in Clients \ {c} : /\ Given(d)' = Given(d) /\ Listed(d)' = Listed(d)
                               /\ Connected(d)' = Connected(d)
  BY <1>2, <1>5, <1>6 DEF Given, Listed, Connected
<1>9. Given(c) = line - 1 /\ Given(c)' = line /\ Connected(c)
  BY <1>2, <1>6 DEF Given, Connected
<1>10. ASSUME NEW d \in Clients \ {c} PROVE Stream(d)'
  <2>1. Given(d) \in Nat /\ since[d] \in Nat
    BY GivenIsNat DEF Inv
  <2> QED
    BY <1>2, <1>5, <1>7, <1>8, <2>1, StreamKept DEF StreamInv
<1>11. Stream(c)'
  <2>1. Stream(c)
    BY DEF StreamInv
  <2>2. Operator # c
    BY NamesAssumption
  <2>3. /\ N \subseteq 1 .. line - 1
        /\ since[c] <= (line - 1) + 1 /\ since[c] .. line - 1 \subseteq N
        /\ \A n \in N : since[c] \in 1 .. n /\ since[c] .. n \subseteq N
    BY <1>6, <1>9, <2>1 DEF Stream, Lines
  <2> HIDE DEF t
  <2>4. Numbers(t, c) = {} /\ Numbers(t, Operator) = {line}
    BY <1>4, <2>2 DEF Numbers
  <2>5. /\ Numbers(s \o t, c) = Numbers(s, c)
        /\ Numbers(s \o t, Operator) = N \union {line}
    <3>1. \A a : Numbers(s \o t, a) = Numbers(s, a) \union Numbers(t, a)
      BY <1>3, <1>4, NumbersOfConcatenation
    <3> QED
      BY <2>4, <3>1
  <2>6. Ordered(s \o t)
    <3>1. Ordered(t)
      BY <1>4 DEF Ordered
    <3>2. ASSUME NEW j \in DOMAIN s, NEW k \in DOMAIN t, s[j][1] = t[k][1]
          PROVE  s[j][2] < t[k][2]
      <4>1. t[k] = <<Operator, line>>
        BY <1>4
      <4>2. s[j][2] \in N
        BY <3>2, <4>1 DEF Numbers
      <4>3. s[j][2] \in 1 .. line - 1
        BY <2>3, <4>2
      <4> QED
        BY <1>3, <4>1, <4>3
    <3> QED
      BY <1>3, <1>4, <2>1, <3>1, <3>2, OrderedConcatenation DEF Stream
  <2>7. \A k \in DOMAIN (s \o t) : (s \o t)[k][1] \in {Operator, c}
    <3>1. ASSUME NEW k \in DOMAIN (s \o t) PROVE (s \o t)[k][1] \in {Operator, c}
      <4>1. (k \in DOMAIN s /\ (s \o t)[k] = s[k]) \/ \E l \in DOMAIN t : (s \o t)[k] = t[l]
        BY <1>3, <1>4, ElementsOfConcatenation
      <4> QED
        BY <1>4, <2>1, <4>1 DEF Stream
    <3> QED
      BY <3>1
  <2> HIDE DEF N
  <2>8. since[c] \in 1 .. line /\ since[c] .. line \subseteq N \union {line}
    <3>1. since[c] \in Nat
      BY GivenIsNat DEF Inv
    <3>2. \A x \in since[c] .. line : x \in since[c] .. line - 1 \/ x = line
      BY <1>3, <3>1
    <3> QED
      BY <1>3, <1>6, <2>3, <3>1, <3>2
  <2>9. \A n \in N \union {line} : /\ n \in 1 .. line /\ since[c] \in 1 .. n
                                 /\ since[c] .. n \subseteq N \union {line}
    BY <1>3, <2>3, <2>8
  <2>10. Numbers(s, c) = 1 .. Echoed(c)
    BY <2>1 DEF Stream
  <2> QED
    <3>1. Lines(c)' = N \union {line} /\ since'[c] = since[c] /\ since[c] <= line + 1
      <4>1. Lines(c)' = N \union {line}
        BY <1>5, <2>5 DEF Lines
      <4>2. since[c] <= line + 1
        BY <1>3, <2>8
      <4> QED
        BY <1>2, <4>1, <4>2
    <3> QED
      BY <1>5, <1>7, <1>9, <2>5, <2>6, <2>7, <2>8, <2>9, <2>10, <3>1 DEF Stream
<1>12. LoopHoldsMutex' /\ NewUnwritten'
  BY <1>2, <1>5, <1>6 DEF StreamInv, LoopHoldsMutex, NewUnwritten
<1> QED
  BY <1>7, <1>10, <1>11, <1>12 DEF StreamInv

\* The other steps of ServerSendThread: reading a line owes it to everybody.
LEMMA SenderStreams ==
  ASSUME Inv, Inv', StreamInv, SenderReads \/ Sender
  PROVE  StreamInv'
<1>1. CASE SenderSends
  BY <1>1, LineStreams
<1>2. CASE SenderReads
  <2>1. /\ spc = "fgets" /\ spc' = "lock" /\ line' = line + 1
        /\ UNCHANGED <<netVars, clients, clients_mtx, pc, buf, since>>
    BY <1>2 DEF SenderReads
  <2>2. WaitingIsEnd' /\ BufferIsNext' /\ \A d \in Clients : Echoed(d)' = Echoed(d)
    BY <2>1, QuietBuffers DEF netVars
  <2>3. ASSUME NEW d \in Clients PROVE Stream(d)'
    <3>1. Given(d) \in Nat /\ line \in Nat /\ since[d] \in Nat
      BY GivenIsNat DEF Inv
    <3>2. Given(d)' = Given(d)
      BY <2>1, <3>1 DEF Given, Owed
    <3>3. Listed(d)' = Listed(d) /\ Connected(d)' = Connected(d) /\ relayed'[d] = relayed[d]
      BY <2>1 DEF Listed, Connected, netVars
    <3> QED
      BY <2>1, <2>2, <3>1, <3>2, <3>3, StreamKept DEF StreamInv
  <2> QED
    BY <2>1, <2>2, <2>3 DEF StreamInv, LoopHoldsMutex, NewUnwritten, netVars
<1>3. CASE SenderLocks \/ SenderSendLost \/ SenderDies \/ SenderUnlocks
  <2>1. UNCHANGED <<written, up, relayed, buf, fd, line, clients, pc, since>>
    BY <1>3 DEF SenderLocks, SenderSendLost, SenderDies, SenderUnlocks, netVars
  <2>2. WaitingIsEnd' /\ BufferIsNext' /\ \A d \in Clients : Echoed(d)' = Echoed(d)
    BY <2>1, QuietBuffers
  <2>3. \A d \in Clients : /\ Owed(d)' => Owed(d)
                           /\ Listed(d)' /\ Connected(d)' =>
                                Listed(d) /\ Connected(d) /\ (Owed(d) => Owed(d)')
    <3>1. CASE SenderLocks
      <4>1. spc = "lock" /\ spc' = "send" /\ i' = 1 /\ peer' = peer
        BY <3>1 DEF SenderLocks, netVars
      <4>2. DOMAIN clients = 1 .. Len(clients)
        BY DEF Inv, TypeOK
      <4> QED
        BY <2>1, <4>1, <4>2 DEF Owed, Listed, Connected
    <3>2. CASE SenderSendLost
      <4>1. PICK c \in Clients : c = Target
        BY <3>2, TargetListed DEF SenderSendLost
      <4>2. /\ spc = "send" /\ i <= Len(clients) /\ i' = i + 1 /\ spc' = spc
            /\ peer' = [peer EXCEPT ![c] = "broken"]
        BY <3>2, <4>1 DEF SenderSendLost
      <4>3. Owed(c) /\ ~ Owed(c)' /\ \A d \in Clients \ {c} : Owed(d)' = Owed(d)
        BY <2>1, <4>1, <4>2, LoopPasses
      <4>4. ~ Connected(c)' /\ \A d \in Clients \ {c} : Connected(d)' = Connected(d)
        BY <4>2 DEF Connected, Inv, TypeOK, NetTypeOK
      <4>5. \A d \in Clients : Listed(d)' = Listed(d)
        BY <2>1 DEF Listed
      <4> QED
        BY <4>3, <4>4, <4>5
    <3>3. CASE SenderDies
      BY <2>1, <3>3 DEF SenderDies, netVars, Owed, Listed, Connected
    <3>4. CASE SenderUnlocks
      <4>1. spc = "send" /\ spc' = "fgets" /\ i > Len(clients) /\ peer' = peer
        BY <3>4 DEF SenderUnlocks, netVars
      <4>2. i \in Nat /\ Len(clients) \in Nat
        BY DEF Inv, TypeOK
      <4>3. \A d \in Clients : ~ Owed(d) /\ ~ Owed(d)'
        BY <4>1, <4>2 DEF Owed
      <4> QED
        BY <2>1, <4>1, <4>3 DEF Listed, Connected
    <3> QED
      BY <1>3, <3>1, <3>2, <3>3, <3>4
  <2>4. \A d \in Clients : Stream(d)'
    BY <2>1, <2>2, <2>3, QuietStreams
  <2>5. LoopHoldsMutex'
    BY <1>3 DEF SenderLocks, SenderSendLost, SenderDies, SenderUnlocks, Operator, Nobody,
       StreamInv, LoopHoldsMutex
  <2>6. NewUnwritten'
    BY <2>1 DEF StreamInv, NewUnwritten
  <2> QED
    BY <2>2, <2>4, <2>5, <2>6 DEF StreamInv
<1> QED
  BY <1>1, <1>2, <1>3 DEF Sender

\* Nothing was sent when the server starts.
LEMMA InitStreams == Init => StreamInv
<1> SUFFICES ASSUME Init PROVE StreamInv
  OBVIOUS
<1>1. WaitingIsEnd /\ BufferIsNext
  BY DEF Init, NetInit, WaitingIsEnd, BufferIsNext, Taken, Echoed
<1>2. LoopHoldsMutex /\ NewUnwritten
  BY DEF Init, NetInit, LoopHoldsMutex, NewUnwritten, Operator, Nobody
<1>3. ASSUME NEW c \in Clients PROVE Stream(c)
  <2>1. relayed[c] = <<>> /\ Echoed(c) = 0
    BY DEF Init, NetInit, Echoed, Taken
  <2>2. \A a : Numbers(relayed[c], a) = {}
    BY <2>1 DEF Numbers
  <2> QED
    <3>1. Given(c) = 0 /\ since[c] = 0
      BY DEF Init, Given, Owed
    <3> QED
      BY <2>1, <2>2, <3>1 DEF Stream, Ordered, Lines
<1> QED
  BY <1>1, <1>2, <1>3 DEF StreamInv

\* Every step keeps the streams.
LEMMA NextStreams == Inv /\ Inv' /\ StreamInv /\ [Next]_vars => StreamInv'
<1> SUFFICES ASSUME Inv, Inv', StreamInv, [Next]_vars PROVE StreamInv'
  OBVIOUS
<1>1. ASSUME NEW c \in Clients, Handler(c) PROVE StreamInv'
  BY <1>1, ReceiveStreams, EchoStreams, HandlerStreams DEF Handler
<1>2. ASSUME NEW c \in Clients, ClientStep(c) PROVE StreamInv'
  BY <1>2, ClientStreams
<1>3. CASE UNCHANGED vars
  <2>1. UNCHANGED <<netVars, serverVars>>
    BY <1>3 DEF vars
  <2>2. \A d \in Clients : /\ Echoed(d)' = Echoed(d) /\ Owed(d)' = Owed(d)
                           /\ Listed(d)' = Listed(d) /\ Connected(d)' = Connected(d)
    BY <2>1 DEF netVars, serverVars, Echoed, Taken, Owed, Listed, Connected
  <2>3. \A d \in Clients : Stream(d)'
    BY <2>1, <2>2, QuietStreams DEF netVars, serverVars
  <2>4. WaitingIsEnd' /\ BufferIsNext'
    BY <2>1, QuietBuffers DEF netVars, serverVars
  <2> QED
    BY <2>1, <2>3, <2>4 DEF StreamInv, LoopHoldsMutex, NewUnwritten, netVars, serverVars
<1> QED
  BY <1>1, <1>2, <1>3, MainStreams, SenderStreams DEF Next, ClientStep

\* A handler takes its client off the list when it has seen the client leave, and who
\* has left does not come back.
LEMMA NextRemoved == Inv /\ RemovedLeft /\ [Next]_vars => RemovedLeft'
<1> SUFFICES ASSUME Inv, RemovedLeft, [Next]_vars PROVE RemovedLeft'
  OBVIOUS
<1> DEFINE R == {"remove", "close", "done"}
<1> USE DEF Inv, TypeOK, NetTypeOK
<1>1. CASE Main
  <2>1. peer' = peer /\ \A d \in Clients : pc'[d] \in R => pc[d] \in R
    BY <1>1 DEF Main, AddClient, AcceptDies, Accept, netVars
  <2> QED
    BY <2>1 DEF RemovedLeft
<1>2. CASE SenderReads \/ Sender
  <2>1. pc' = pc /\ \A d \in Clients : peer'[d] = "here" => peer[d] = "here"
    BY <1>2 DEF SenderReads, Sender, SenderLocks, SenderSends, SenderSendLost, SenderDies,
                SenderUnlocks, NetSend, netVars
  <2> QED
    BY <2>1 DEF RemovedLeft
<1>3. ASSUME NEW c \in Clients, Handler(c) PROVE RemovedLeft'
  <2>1. \A d \in Clients : peer'[d] = "here" => peer[d] = "here"
    BY <1>3 DEF Handler, Receive, ReceiveEnd, ReceiveDies, Echo, EchoDies, RemoveClient,
                CloseSocket, NetSend, NetClose, netVars
  <2>2. \A d \in Clients \ {c} : pc'[d] = pc[d]
    BY <1>3 DEF Handler, Receive, ReceiveEnd, ReceiveDies, Echo, EchoDies, RemoveClient,
                CloseSocket
  <2>3. pc'[c] \in R => pc[c] \in R \/ peer[c] # "here"
    BY <1>3 DEF Handler, Receive, ReceiveEnd, ReceiveDies, Echo, EchoDies, RemoveClient,
                CloseSocket
  <2> QED
    BY <2>1, <2>2, <2>3 DEF RemovedLeft
<1>4. ASSUME NEW c \in Clients, ClientStep(c) PROVE RemovedLeft'
  <2>1. pc' = pc
    BY <1>4, ClientSteps DEF serverVars
  <2>2. \A d \in Clients : peer'[d] = "here" => peer[d] \in {"here", "absent"}
    BY <1>4 DEF ClientStep, ClientMain, ClientSends, ClientSendFails, ClientExits, RecvThread,
         ClientReceives, ClientReceivesLast, ClientPrints, ClientSeesEnd, User, ClientConnect,
         ClientReads, ClientCloses, ClientKilled, NetConnect, NetClientSend, NetClientRecv,
         NetClientClose, netVars
  <2>3. \A d \in Clients : peer[d] = "absent" => pc[d] = "none"
    BY DEF ConnectionInv, AbsentUnserved
  <2> QED
    BY <2>1, <2>2, <2>3 DEF RemovedLeft
<1>5. CASE UNCHANGED vars
  BY <1>5 DEF vars, netVars, serverVars, RemovedLeft
<1> QED
  BY <1>1, <1>2, <1>3, <1>4, <1>5 DEF Next, ClientStep

\* Two threads write to one socket while others join and leave, and still each client is
\* sent all of its own text and all lines from the first it is owed, in order.
THEOREM StreamsAreFaithful == Spec => []StreamsFaithful
<1>1. Inv /\ StreamInv /\ RemovedLeft => StreamsFaithful
  <2> SUFFICES ASSUME Inv, StreamInv, RemovedLeft, NEW c \in Clients
               PROVE  LET lines == Numbers(relayed[c], Operator)
                          echoed == Numbers(relayed[c], c)
                      IN  /\ \A k \in DOMAIN relayed[c] : relayed[c][k][1] \in {Operator, c}
                          /\ Ordered(relayed[c])
                          /\ \A n \in echoed : 1 .. n \subseteq echoed
                          /\ \A n \in lines : since[c] \in 1 .. n /\ since[c] .. n \subseteq lines
                          /\ spc = "fgets" /\ peer[c] = "here" /\ since[c] # 0 =>
                               since[c] .. line \subseteq lines
    BY DEF StreamsFaithful
  <2>1. Stream(c) /\ Echoed(c) \in Nat
    BY DEF StreamInv, BufferIsNext
  <2>2. \A n \in 1 .. Echoed(c) : 1 .. n \subseteq 1 .. Echoed(c)
    BY <2>1
  <2>3. spc = "fgets" => Given(c) = line
    BY DEF Given, Owed
  <2>4. peer[c] = "here" /\ since[c] # 0 => Listed(c)
    <3>1. since[c] # 0 => pc[c] # "none"
      BY DEF Inv, ConnectionInv, NewUnowed
    <3>2. peer[c] = "here" /\ since[c] # 0 => Serving(c)
      BY <3>1 DEF RemovedLeft, Serving, Inv, TypeOK
    <3> QED
      BY <3>2 DEF Inv, ListConsistent
  <2> QED
    BY <2>1, <2>2, <2>3, <2>4 DEF Stream, Connected, Lines
<1>2. Init => StreamInv /\ RemovedLeft
  BY InitStreams DEF Init, RemovedLeft
<1>3. Inv /\ Inv' /\ StreamInv /\ RemovedLeft /\ [Next]_vars => StreamInv' /\ RemovedLeft'
  BY NextStreams, NextRemoved
<1> QED
  BY <1>1, <1>2, <1>3, InvHolds, PTL DEF Spec

-----------------------------------------------------------------------------
(***************************************************************************)
(* Sends get through.  Besides Inv and LoopHoldsMutex this needs to know   *)
(* how the threads of a client stand to its connection.                    *)
(***************************************************************************)

\* A connection is given up by its handler, as the last thing it does.
GivenUpWhenDone == Running => \A c \in Clients : peer[c] = "gone" => pc[c] = "done"

\* While the client's end is open, its RecvThread receives.
HereReads == Running => \A c \in Clients : peer[c] = "here" => Reads(c)

\* What a handler echoes is no more than it may receive at once.
BufFits == \A c \in Clients : Len(buf[c]) <= RecvMax

ThroughInv == GivenUpWhenDone /\ HereReads /\ BufFits

\* It holds before anybody has connected.
LEMMA InitThrough == Init => ThroughInv
BY BoundsAssumption DEF Init, NetInit, ThroughInv, GivenUpWhenDone, HereReads, BufFits

\* A client's threads: it ends RecvThread only together with its connection.
LEMMA ClientThrough ==
  ASSUME Inv, ThroughInv, NEW c \in Clients, ClientStep(c)
  PROVE  ThroughInv'
<1> USE DEF Inv, TypeOK, NetTypeOK
<1>1. UNCHANGED serverVars
  BY ClientSteps
<1>2. \A d \in Clients \ {c} : peer'[d] = peer[d] /\ cpc'[d] = cpc[d] /\ rpc'[d] = rpc[d]
  BY DEF ClientStep, ClientMain, ClientSends, ClientSendFails, ClientExits, RecvThread,
         ClientReceives, ClientReceivesLast, ClientPrints, ClientSeesEnd, User, ClientConnect,
         ClientReads, ClientCloses, ClientKilled, NetConnect, NetClientSend, NetClientRecv,
         NetClientClose, netVars
<1>3. /\ Running /\ peer'[c] = "gone" => peer[c] = "gone"
      /\ Running /\ peer'[c] = "here" /\ (peer[c] = "here" => Reads(c)) => Reads(c)'
  <2>1. CASE ClientSends(c) \/ ClientReads(c) \/ ClientExits(c)
    BY <2>1 DEF ClientSends, ClientReads, ClientExits, NetClientSend, Reads, netVars
  <2>2. CASE ClientSendFails(c) \/ ClientSeesEnd(c)
    BY <2>2 DEF ClientSendFails, ClientSeesEnd
  <2>3. CASE ClientReceives(c) \/ ClientPrints(c)
    BY <2>3 DEF ClientReceives, ClientPrints, NetClientRecv, Reads, netVars
  <2>4. CASE ClientReceivesLast(c) \/ ClientKilled(c)
    BY <2>4 DEF ClientReceivesLast, ClientKilled, NetClientClose
  <2>5. CASE ClientConnect(c)
    BY <2>5 DEF ClientConnect, NetConnect, Reads
  <2>6. CASE ClientCloses(c)
    BY <2>6 DEF ClientCloses, NetClientClose, Reads, netVars
  <2> QED
    BY <2>1, <2>2, <2>3, <2>4, <2>5, <2>6 DEF ClientStep, ClientMain, RecvThread, User
<1>4. GivenUpWhenDone'
  BY <1>1, <1>2, <1>3 DEF ThroughInv, GivenUpWhenDone, Running, serverVars
<1>5. HereReads'
  BY <1>1, <1>2, <1>3 DEF ThroughInv, HereReads, Running, Reads, serverVars
<1>6. BufFits'
  BY <1>1 DEF ThroughInv, BufFits, serverVars
<1> QED
  BY <1>4, <1>5, <1>6 DEF ThroughInv

\* A step of the server opens no client's end and leaves the client's threads alone.
LEMMA ServerThrough ==
  ASSUME ThroughInv, UNCHANGED clientVars,
         server' = "running" => server = "running",
         \A d \in Clients : peer'[d] = "here" => peer[d] = "here",
         \A d \in Clients : peer'[d] = "gone" => peer[d] = "gone" \/ pc'[d] = "done",
         \A d \in Clients : pc[d] = "done" => pc'[d] = "done",
         \A d \in Clients : buf'[d] = buf[d] \/ Len(buf'[d]) <= RecvMax
  PROVE  ThroughInv'
<1>1. GivenUpWhenDone'
  BY DEF ThroughInv, GivenUpWhenDone, Running
<1>2. HereReads'
  BY DEF ThroughInv, HereReads, Running, Reads, clientVars
<1>3. BufFits'
  BY DEF ThroughInv, BufFits
<1> QED
  BY <1>1, <1>2, <1>3 DEF ThroughInv

\* A handler takes no more than one recv() gives, and gives up what it has served.
LEMMA HandlerThrough ==
  ASSUME Inv, ThroughInv, NEW c \in Clients, Handler(c)
  PROVE  ThroughInv'
<1> USE DEF Inv, TypeOK, NetTypeOK
<1>1. UNCHANGED clientVars /\ (server' = "running" => server = "running")
  BY DEF Handler, Receive, ReceiveEnd, ReceiveDies, Echo, EchoDies, RemoveClient, CloseSocket
<1>2. pc[c] # "done" /\ \A d \in Clients \ {c} : pc'[d] = pc[d]
  BY DEF Handler, Receive, ReceiveEnd, ReceiveDies, Echo, EchoDies, RemoveClient, CloseSocket
<1>3. \A d \in Clients : /\ peer'[d] = "here" => peer[d] = "here"
                         /\ peer'[d] = "gone" => peer[d] = "gone" \/ pc'[d] = "done"
  <2>1. CASE UNCHANGED peer
    BY <2>1
  <2>2. CASE Echo(c)
    BY <2>2 DEF Echo, NetSend
  <2>3. CASE CloseSocket(c)
    BY <2>3 DEF CloseSocket, NetClose
  <2> QED
    BY <2>1, <2>2, <2>3
       DEF Handler, Receive, ReceiveEnd, ReceiveDies, EchoDies, RemoveClient, netVars
<1>4. \A d \in Clients : buf'[d] = buf[d] \/ Len(buf'[d]) <= RecvMax
  <2>1. CASE Receive(c)
    <3>1. PICK n \in 1 .. RecvMax : NetRecv(c, n) /\ buf' = [buf EXCEPT ![c] = SubSeq(up[c], 1, n)]
      BY <2>1 DEF Receive
    <3>2. Len(SubSeq(up[c], 1, n)) = n /\ n <= RecvMax
      BY <3>1, BoundsAssumption DEF NetRecv
    <3> QED
      BY <3>1, <3>2
  <2>2. CASE Echo(c)
    BY <2>2, BoundsAssumption DEF Echo
  <2>3. CASE UNCHANGED buf
    BY <2>3
  <2> QED
    BY <2>1, <2>2, <2>3
       DEF Handler, ReceiveEnd, ReceiveDies, EchoDies, RemoveClient, CloseSocket
<1> QED
  BY <1>1, <1>2, <1>3, <1>4, ServerThrough

\* Neither main() nor the operator's thread gives up a connection.
LEMMA OthersThrough ==
  ASSUME Inv, ThroughInv, Main \/ SenderReads \/ Sender
  PROVE  ThroughInv'
<1> USE DEF Inv, TypeOK, NetTypeOK
<1>1. CASE Main
  <2>1. UNCHANGED <<clientVars, peer, buf>> /\ (server' = "running" => server = "running")
    BY <1>1 DEF Main, AddClient, AcceptDies, Accept, netVars
  <2>2. \A d \in Clients : pc[d] = "done" => pc'[d] = "done"
    BY <1>1 DEF Main, AddClient, AcceptDies, Accept, ConnectionInv, AcceptedUnserved
  <2> QED
    BY <2>1, <2>2, ServerThrough
<1>2. CASE SenderReads \/ Sender
  <2>1. UNCHANGED <<clientVars, pc, buf>> /\ (server' = "running" => server = "running")
    BY <1>2 DEF SenderReads, Sender, SenderLocks, SenderSends, SenderSendLost, SenderDies,
                SenderUnlocks
  <2>2. \A d \in Clients : /\ peer'[d] = "here" => peer[d] = "here"
                           /\ peer'[d] = "gone" => peer[d] = "gone"
    BY <1>2 DEF SenderReads, Sender, SenderLocks, SenderSends, SenderSendLost, SenderDies,
                SenderUnlocks, NetSend, netVars
  <2> QED
    BY <2>1, <2>2, ServerThrough
<1> QED
  BY <1>1, <1>2

\* Every step keeps it.
LEMMA NextThrough == Inv /\ ThroughInv /\ [Next]_vars => ThroughInv'
<1> SUFFICES ASSUME Inv, ThroughInv, [Next]_vars PROVE ThroughInv'
  OBVIOUS
<1>1. CASE UNCHANGED vars
  BY <1>1 DEF vars, netVars, serverVars, clientVars, ThroughInv, GivenUpWhenDone, HereReads,
              BufFits, Reads, Running
<1> QED
  BY <1>1, ClientThrough, HandlerThrough, OthersThrough DEF Next, ClientStep

\* To a client that is served every text of that size gets through.
LEMMA ServedGetsThrough ==
  ASSUME Inv, ThroughInv, Running, NEW c \in Clients, pc[c] \notin {"none", "done"},
         NEW ms \in Seq(Texts), Len(ms) <= RecvMax
  PROVE  GetsThrough(c, ms)
<1>1. peer[c] \notin {"absent", "gone"}
  BY DEF Inv, ConnectionInv, AbsentUnserved, ThroughInv, GivenUpWhenDone
<1>2. Deliverable(c, ms)
  BY <1>1, ServedIsDeliverable DEF Inv, TypeOK
<1>3. SendBlocks(c, ms) => Reads(c)
  BY DEF SendBlocks, ThroughInv, HereReads
<1> QED
  BY <1>2, <1>3 DEF GetsThrough

\* The handlers and the operator's thread are never stuck in a send(), however clients
\* come, quit and are killed: each waits for a thread that will make room.
THEOREM AllSendsGetThrough == Spec => []SendsGetThrough
<1>1. Inv /\ StreamInv /\ ThroughInv => SendsGetThrough
  <2> SUFFICES ASSUME Inv, StreamInv, ThroughInv, Running PROVE SendsGetThrough
    BY DEF SendsGetThrough
  <2>1. clients_mtx = Operator => spc = "send"
    BY DEF StreamInv, LoopHoldsMutex
  <2>2. ASSUME spc = "send", i <= Len(clients)
        PROVE  GetsThrough(Target, <<<<Operator, line>>>>)
    <3>1. Target \in Clients /\ pc[Target] \in {"recv", "echo", "remove"}
      BY <2>2, TargetListed, ListedServed
    <3>2. <<<<Operator, line>>>> \in Seq(Texts) /\ Len(<<<<Operator, line>>>>) <= RecvMax
      <4>1. <<Operator, line>> \in Texts
        BY <2>2 DEF Inv, LineTyped, Texts
      <4> QED
        BY <4>1, BoundsAssumption
    <3> QED
      BY <3>1, <3>2, ServedGetsThrough
  <2>3. ASSUME NEW c \in Clients, pc[c] = "echo" PROVE GetsThrough(c, buf[c])
    <3>1. buf[c] \in Seq(Texts) /\ Len(buf[c]) <= RecvMax
      BY DEF Inv, TypeOK, Texts, ThroughInv, BufFits
    <3> QED
      BY <2>3, <3>1, ServedGetsThrough
  <2> QED
    BY <2>1, <2>2, <2>3 DEF SendsGetThrough
<1>2. Init => StreamInv /\ ThroughInv
  BY InitStreams, InitThrough
<1>3. Inv /\ Inv' /\ StreamInv /\ ThroughInv /\ [Next]_vars => StreamInv' /\ ThroughInv'
  BY NextStreams, NextThrough
<1> QED
  BY <1>1, <1>2, <1>3, InvHolds, PTL DEF Spec
=============================================================================
