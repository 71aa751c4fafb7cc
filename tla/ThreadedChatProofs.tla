------------------------- MODULE ThreadedChatProofs -------------------------
(***************************************************************************)
(* What ThreadedChat guarantees for any number of clients, descriptors and *)
(* entries.                                                                *)
(***************************************************************************)
EXTENDS ThreadedChat, TcpNetProofs, FiniteSetTheorems

\* The index of a nonempty set of entries that Min picks.
LEMMA MinSlot ==
  ASSUME NEW is \in SUBSET Slots, is # {}
  PROVE  Min(is) \in is /\ Min(is) \in Slots
<1>1. is \in SUBSET Nat
  BY DEF Slots
<1> QED
  BY <1>1, MinIsLeast

-----------------------------------------------------------------------------
(* Type correctness *)

\* The server starts with every variable in its type.
LEMMA InitTypes == Init => TypeOK
BY TableAssumption, BoundsAssumption DEF Init, NetInit, TypeOK, NetTypeOK, PeerStates, Slots

\* accept() in main() keeps the types: the descriptor it stores is one of Fds.
LEMMA MainTypes ==
  ASSUME TypeOK, Main PROVE TypeOK'
<1>1. ASSUME NEW c \in Clients, Accept(c) PROVE TypeOK'
  <2>1. fd' \in [Clients -> Fds \union {0}]
    BY <1>1, AcceptGivesFreeFd DEF TypeOK, Accept
  <2>2. backlog' \in Seq(Clients)
    BY <1>1 DEF TypeOK, NetTypeOK, Accept, NetAccept
  <2> QED
    BY <1>1, <2>1, <2>2 DEF TypeOK, NetTypeOK, Accept, clientVars
<1>2. CASE AcceptDies
  BY <1>2 DEF TypeOK, NetTypeOK, AcceptDies, netVars, clientVars
<1> QED
  BY <1>1, <1>2 DEF Main

\* Every step of a handler keeps the types.
LEMMA HandlerTypes ==
  ASSUME TypeOK, NEW c \in Clients, Handler(c) PROVE TypeOK'
<1> USE DEF TypeOK, clientVars
<1>1. CASE AddToTable(c)
  <2>1. Added(c) \in [Slots -> Fds \union {0}]
    BY DEF Added, Overwritten, NetTypeOK
  <2> QED
    BY <1>1, <2>1 DEF AddToTable, NetTypeOK, netVars
<1>2. CASE Receive(c)
  <2>1. PICK n \in 1 .. RecvMax :
          NetRecv(c, n) /\ buffer' = [buffer EXCEPT ![c] = SubSeq(up[c], 1, n)]
    BY <1>2 DEF Receive
  <2>2. SubSeq(up[c], 1, n) \in Seq(Units) /\ up' \in [Clients -> Seq(Units)]
    BY <2>1, ReceivedUnits
  <2> QED
    BY <1>2, <2>1, <2>2 DEF Receive, NetTypeOK
<1>3. CASE ReceiveEnd(c)
  BY <1>3 DEF ReceiveEnd, NetRecvEnd, NetTypeOK, PeerStates, Departed
<1>4. CASE BroadcastLock(c)
  BY <1>4, TableAssumption DEF BroadcastLock, NetTypeOK, netVars
<1>5. CASE BroadcastSend(c)
  <2>1. Targets(c) \in SUBSET Slots /\ Targets(c) # {}
    BY <1>5 DEF BroadcastSend, Targets
  <2>2. Min(Targets(c)) + 1 \in 1 .. MAX_CLIENTS + 1
    <3>1. Min(Targets(c)) \in Slots
      BY <2>1, MinSlot
    <3> QED
      BY <3>1, TableAssumption DEF Slots
  <2>3. /\ relayed' = [relayed EXCEPT ![Target(c)] = @ \o buffer[c]]
        /\ peer' \in {peer, [peer EXCEPT ![Target(c)] = IF @ = "closed" THEN "broken" ELSE @]}
    BY <1>5 DEF BroadcastSend, NetSend
  <2>4. relayed' \in [Clients -> Seq(Units)]
    <3>1. \A d \in Clients : relayed[d] \o buffer[c] \in Seq(Units)
      BY DEF NetTypeOK
    <3>2. relayed \in [Clients -> Seq(Units)]
      BY DEF NetTypeOK
    <3>3. relayed' = [d \in Clients |-> IF d = Target(c) THEN relayed[d] \o buffer[c]
                                                         ELSE relayed[d]]
      BY ONLY <2>3, <3>2
    <3> QED
      BY ONLY <3>1, <3>2, <3>3
  <2>5. peer' \in [Clients -> PeerStates]
    BY <2>3, ZenonT(30) DEF NetTypeOK, PeerStates, Departed
  <2> QED
    BY <1>5, <2>2, <2>4, <2>5 DEF BroadcastSend, NetTypeOK
<1>6. CASE BroadcastDies(c)
  BY <1>6 DEF BroadcastDies, NetTypeOK, netVars
<1>7. CASE BroadcastUnlock(c)
  BY <1>7, TableAssumption DEF BroadcastUnlock, NetTypeOK, netVars
<1>8. CASE RemoveFromTable(c)
  <2>1. Removed(c) \in [Slots -> Fds \union {0}]
    BY DEF Removed, Overwritten
  <2> QED
    BY <1>8, <2>1 DEF RemoveFromTable, NetTypeOK, netVars
<1>9. CASE CloseSocket(c)
  BY <1>9 DEF CloseSocket, NetClose, NetTypeOK, PeerStates
<1> QED
  BY <1>1, <1>2, <1>3, <1>4, <1>5, <1>6, <1>7, <1>8, <1>9 DEF Handler

\* A client makes one call on its connection, or gives it up when the server is dead.
LEMMA ClientSteps ==
  ASSUME NEW c \in Clients, Client(c)
  PROVE  /\ UNCHANGED serverVars
         /\ \/ NetConnect(c) \/ NetClientSend(c) \/ NetClientRecv(c) \/ NetClientClose(c)
            \/ UNCHANGED netVars
            \/ /\ (server = "dead" /\ spc[c] = "send") \/ rpc[c] = "exit"
               /\ peer' = [peer EXCEPT ![c] = "gone"]
               /\ UNCHANGED <<backlog, fd, written, up, relayed, seen>>
BY DEF Client, SendThread, ReceiveThread, User, ClientConnect, ClientReads, ClientInputEnds,
   ClientKilled, ClientSend, ClientSendFails, ClientReceive, ClientSeesEnd, ClientExits, Reset

\* Every step of a client process keeps the types.
LEMMA ClientTypes ==
  ASSUME TypeOK, NEW c \in Clients, Client(c) PROVE TypeOK'
<1>1. NetTypeOK(Units)'
  <2>1. CASE peer' = [peer EXCEPT ![c] = "gone"] /\ UNCHANGED <<backlog, fd, written, up, relayed, seen>>
    BY <2>1 DEF TypeOK, NetTypeOK, PeerStates
  <2>2. CASE UNCHANGED netVars
    BY <2>2 DEF TypeOK, NetTypeOK, netVars
  <2> QED
    BY <2>1, <2>2, ClientSteps, ClientCallsKeepTypes DEF TypeOK
<1>2. UNCHANGED serverVars
  BY ClientSteps
<1>3. /\ spc' \in [Clients -> {"off", "fgets", "send", "ended"}]
      /\ rpc' \in [Clients -> {"off", "recv", "exit", "ended"}]
  BY DEF TypeOK, Client, SendThread, ReceiveThread, User, ClientConnect, ClientReads,
     ClientInputEnds, ClientKilled, ClientSend, ClientSendFails, ClientReceive, ClientSeesEnd,
     ClientExits, ThreadsEnd, clientVars
<1> QED
  BY <1>1, <1>2, <1>3 DEF TypeOK, serverVars

\* Every step keeps the types.
LEMMA NextTypes ==
  ASSUME TypeOK, [Next]_vars PROVE TypeOK'
<1>1. CASE UNCHANGED vars
  BY <1>1 DEF vars, netVars, serverVars, clientVars, TypeOK, NetTypeOK
<1> QED
  BY <1>1, MainTypes, HandlerTypes, ClientTypes DEF Next

\* Every variable keeps its type, whatever the clients do.
THEOREM TypeCorrect == Spec => []TypeOK
<1>1. TypeOK /\ [Next]_vars => TypeOK'
  BY NextTypes
<1> QED
  BY InitTypes, <1>1, PTL DEF Spec

-----------------------------------------------------------------------------
(***************************************************************************)
(* The table.  TableConsistent is not inductive by itself: that adding     *)
(* does not enter a descriptor twice, and that closing one leaves no entry *)
(* behind, rests on who has which descriptor in which phase.               *)
(***************************************************************************)

\* No two clients have the same descriptor.
FdsDistinct == \A c, d \in Clients : fd[c] # 0 /\ fd[c] = fd[d] => c = d

\* A client has a descriptor exactly while it has a handler.
OpenWhileServed == \A c \in Clients : fd[c] # 0 <=> pc[c] \notin {"none", "done"}

\* Who waits to be accepted has no handler yet, and waits once.
QueuedUnserved ==
    /\ \A k \in 1 .. Len(backlog) : pc[backlog[k]] = "none" /\ peer[backlog[k]] # "absent"
    /\ \A k, l \in 1 .. Len(backlog) : k # l => backlog[k] # backlog[l]

\* Who has not connected has no handler.
AbsentUnserved == \A c \in Clients : peer[c] = "absent" => pc[c] = "none"

\* A handler removes its entry only after its client has left.
RemovedDeparted == \A c \in Clients : pc[c] \in {"remove", "close"} => peer[c] \in Departed

ConnectionInv ==
    /\ FdsDistinct
    /\ OpenWhileServed
    /\ QueuedUnserved
    /\ AbsentUnserved
    /\ RemovedDeparted

\* A client has a connection while it has a thread that works, and a receive_thread that
\* receives while both live.  Only the death of the server makes that thread exit.
ThreadsFollow ==
    \A c \in Clients :
      /\ spc[c] \in {"fgets", "send"} \/ rpc[c] \in {"recv", "exit"} => peer[c] = "here"
      /\ server = "running" /\ peer[c] = "here" => rpc[c] = "recv"
      /\ rpc[c] = "exit" => server = "dead"

Inv == TypeOK /\ ConnectionInv /\ ThreadsFollow /\ TableConsistent

\* The invariant holds of an empty table.
LEMMA InitInv == Init => Inv
<1>1. Init => ConnectionInv
  BY DEF Init, NetInit, ConnectionInv, FdsDistinct, OpenWhileServed, QueuedUnserved,
         AbsentUnserved, RemovedDeparted
<1>2. Init => TableConsistent
  BY DEF Init, TableConsistent
<1>3. Init => ThreadsFollow
  BY DEF Init, NetInit, ThreadsFollow
<1> QED
  BY <1>1, <1>2, <1>3, InitTypes DEF Inv

\* The client that accept() takes from the listen queue has no handler yet.
LEMMA AcceptedUnserved ==
  ASSUME TypeOK, QueuedUnserved, NEW c \in Clients, Accept(c)
  PROVE  pc[c] = "none" /\ peer[c] # "absent"
<1>1. backlog \in Seq(Clients) /\ backlog # <<>> /\ c = Head(backlog)
  BY DEF TypeOK, NetTypeOK, Accept, NetAccept
<1>2. 1 \in 1 .. Len(backlog) /\ c = backlog[1]
  BY <1>1
<1> QED
  BY <1>2 DEF QueuedUnserved

\* accept() gives a descriptor nobody has to a client nobody serves.
LEMMA AcceptConnections ==
  ASSUME TypeOK, ConnectionInv, NEW c \in Clients, Accept(c) PROVE ConnectionInv'
<1> USE DEF ConnectionInv
<1>1. /\ fd' \in [Clients -> Fds \union {0}]
      /\ fd'[c] # 0
      /\ \A d \in Clients \ {c} : fd'[d] = fd[d] /\ fd[d] # fd'[c]
  BY AcceptGivesFreeFd DEF TypeOK, Accept
<1>2. pc' = [pc EXCEPT ![c] = "add"] /\ peer' = peer
  BY DEF Accept
<1>3. /\ backlog \in Seq(Clients) /\ backlog # <<>>
      /\ c = backlog[1]
      /\ backlog' = Tail(backlog)
  BY DEF TypeOK, NetTypeOK, Accept, NetAccept
<1>4. pc[c] = "none" /\ peer[c] # "absent"
  BY AcceptedUnserved
<1>5. FdsDistinct'
  BY <1>1 DEF FdsDistinct
<1>6. OpenWhileServed'
  BY <1>1, <1>2 DEF OpenWhileServed, TypeOK
<1>7. QueuedUnserved'
  <2>1. /\ Len(backlog') = Len(backlog) - 1
        /\ \A k \in 1 .. Len(backlog') : backlog'[k] = backlog[k + 1] /\ backlog'[k] \in Clients
    BY <1>3
  <2>2. \A k \in 1 .. Len(backlog') : backlog'[k] # c
    BY <1>3, <2>1 DEF QueuedUnserved
  <2>3. \A k \in 1 .. Len(backlog') : pc'[backlog'[k]] = "none" /\ peer'[backlog'[k]] # "absent"
    BY <1>2, <1>3, <2>1, <2>2 DEF QueuedUnserved, TypeOK
  <2>4. \A k, l \in 1 .. Len(backlog') : k # l => backlog'[k] # backlog'[l]
    BY <1>3, <2>1 DEF QueuedUnserved
  <2> QED
    BY <2>3, <2>4 DEF QueuedUnserved
<1>8. AbsentUnserved' /\ RemovedDeparted'
  BY <1>2, <1>4 DEF AbsentUnserved, RemovedDeparted, TypeOK
<1> QED
  BY <1>5, <1>6, <1>7, <1>8

\* A client with a handler does not wait to be accepted.
LEMMA ServedNotQueued ==
  ASSUME TypeOK, QueuedUnserved, NEW c \in Clients, pc[c] # "none"
  PROVE  \A k \in 1 .. Len(backlog) : backlog[k] \in Clients \ {c}
<1>1. ASSUME NEW k \in 1 .. Len(backlog) PROVE backlog[k] \in Clients
  BY DEF TypeOK, NetTypeOK
<1>2. ASSUME NEW k \in 1 .. Len(backlog) PROVE backlog[k] # c
  BY DEF QueuedUnserved
<1> QED
  BY <1>1, <1>2

\* Every step of a handler keeps descriptors and phases in agreement.
LEMMA HandlerConnections ==
  ASSUME TypeOK, ConnectionInv, NEW c \in Clients, Handler(c) PROVE ConnectionInv'
<1> USE DEF ConnectionInv
<1>1. CASE UNCHANGED <<peer, backlog, fd>>
  <2>1. pc[c] \notin {"none", "done"} /\ fd[c] # 0
    BY DEF OpenWhileServed, Handler, AddToTable, Receive, ReceiveEnd, BroadcastLock,
           BroadcastSend, BroadcastDies, BroadcastUnlock, RemoveFromTable, CloseSocket
  <2>2. PICK p \in {"add", "recv", "lock", "send", "remove", "close"} :
          pc' = [pc EXCEPT ![c] = p] /\ (p \in {"remove", "close"} => peer[c] \in Departed)
    <3>1. CASE ReceiveEnd(c)
      BY <3>1 DEF ReceiveEnd, NetRecvEnd
    <3>2. CASE CloseSocket(c)
      BY <1>1, <2>1, <3>2 DEF CloseSocket, NetClose, TypeOK, NetTypeOK
    <3>3. CASE RemoveFromTable(c)
      BY <3>3 DEF RemoveFromTable, RemovedDeparted
    <3>4. CASE BroadcastSend(c) \/ BroadcastDies(c)
      BY <3>4 DEF BroadcastSend, BroadcastDies, TypeOK
    <3>5. CASE AddToTable(c) \/ Receive(c) \/ BroadcastLock(c) \/ BroadcastUnlock(c)
      BY <3>5 DEF AddToTable, Receive, BroadcastLock, BroadcastUnlock
    <3> QED
      BY <3>1, <3>2, <3>3, <3>4, <3>5 DEF Handler
  <2>3. \A k \in 1 .. Len(backlog) : backlog[k] \in Clients \ {c}
    BY <2>1, ServedNotQueued
  <2>4. FdsDistinct' /\ OpenWhileServed'
    BY <1>1, <2>1, <2>2 DEF FdsDistinct, OpenWhileServed, TypeOK
  <2>5. QueuedUnserved'
    BY <1>1, <2>2, <2>3 DEF QueuedUnserved, TypeOK
  <2>6. AbsentUnserved' /\ RemovedDeparted'
    BY <1>1, <2>1, <2>2 DEF AbsentUnserved, RemovedDeparted, TypeOK
  <2> QED
    BY <2>4, <2>5, <2>6
<1>2. CASE ReceiveEnd(c)
  <2>1. /\ peer' = [peer EXCEPT ![c] = IF @ = "reset" THEN "broken" ELSE @]
        /\ pc' = [pc EXCEPT ![c] = "remove"] /\ pc[c] = "recv"
        /\ peer[c] \in Departed
        /\ UNCHANGED <<backlog, fd>>
    BY <1>2 DEF ReceiveEnd, NetRecvEnd
  <2>2. peer'[c] \in Departed /\ \A d \in Clients \ {c} : peer'[d] = peer[d]
    BY <2>1 DEF TypeOK, NetTypeOK, Departed
  <2>3. \A k \in 1 .. Len(backlog) : backlog[k] \in Clients \ {c}
    BY <2>1, ServedNotQueued
  <2>4. FdsDistinct' /\ OpenWhileServed'
    BY <2>1 DEF FdsDistinct, OpenWhileServed, TypeOK
  <2>5. QueuedUnserved'
    BY <2>1, <2>2, <2>3 DEF QueuedUnserved, TypeOK
  <2>6. AbsentUnserved' /\ RemovedDeparted'
    BY <2>1, <2>2 DEF AbsentUnserved, RemovedDeparted, TypeOK, Departed
  <2> QED
    BY <2>4, <2>5, <2>6
<1>3. CASE BroadcastSend(c)
  <2>1. /\ \A d \in Clients : peer'[d] = peer[d]
                               \/ (peer[d] = "closed" /\ peer'[d] = "broken")
        /\ UNCHANGED <<backlog, fd, pc>>
    BY <1>3 DEF BroadcastSend, NetSend, TypeOK, NetTypeOK
  <2>2. \A k \in 1 .. Len(backlog) : backlog[k] \in Clients
    BY DEF TypeOK, NetTypeOK
  <2>3. FdsDistinct' /\ OpenWhileServed'
    BY <2>1 DEF FdsDistinct, OpenWhileServed
  <2>4. QueuedUnserved'
    BY <2>1, <2>2 DEF QueuedUnserved
  <2>5. AbsentUnserved' /\ RemovedDeparted'
    BY <2>1 DEF AbsentUnserved, RemovedDeparted, Departed
  <2> QED
    BY <2>3, <2>4, <2>5
<1>4. CASE CloseSocket(c)
  <2>1. /\ pc[c] = "close" /\ pc' = [pc EXCEPT ![c] = "done"]
        /\ fd' = [fd EXCEPT ![c] = 0] /\ peer' = [peer EXCEPT ![c] = "gone"]
        /\ backlog' = backlog
    BY <1>4 DEF CloseSocket, NetClose
  <2>2. \A k \in 1 .. Len(backlog) : backlog[k] \in Clients \ {c}
    BY <2>1, ServedNotQueued
  <2>3. FdsDistinct' /\ OpenWhileServed'
    BY <2>1 DEF FdsDistinct, OpenWhileServed, TypeOK, NetTypeOK
  <2>4. QueuedUnserved'
    BY <2>1, <2>2 DEF QueuedUnserved, TypeOK, NetTypeOK
  <2>5. AbsentUnserved' /\ RemovedDeparted'
    BY <2>1 DEF AbsentUnserved, RemovedDeparted, TypeOK, NetTypeOK
  <2> QED
    BY <2>3, <2>4, <2>5
<1> QED
  <2>1. \/ UNCHANGED <<peer, backlog, fd>>
        \/ ReceiveEnd(c) \/ BroadcastSend(c) \/ CloseSocket(c)
    BY DEF Handler, AddToTable, Receive, BroadcastLock, BroadcastDies, BroadcastUnlock,
           RemoveFromTable, netVars
  <2> QED
    BY <2>1, <1>1, <1>2, <1>3, <1>4

\* So does every step of a client process.
LEMMA ClientConnections ==
  ASSUME TypeOK, ConnectionInv, ThreadsFollow, NEW c \in Clients, Client(c)
  PROVE  ConnectionInv'
<1> USE DEF ConnectionInv
<1>1. CASE NetConnect(c)
  <2>1. /\ peer[c] = "absent" /\ peer' = [peer EXCEPT ![c] = "here"]
        /\ backlog \in Seq(Clients) /\ backlog' = Append(backlog, c)
        /\ UNCHANGED <<fd, pc>>
    BY <1>1, ClientSteps DEF NetConnect, serverVars, TypeOK, NetTypeOK
  <2>2. \A k \in 1 .. Len(backlog) : backlog[k] \in Clients \ {c}
    BY <2>1 DEF QueuedUnserved
  <2>3. \A k \in 1 .. Len(backlog') :
          \/ k \in 1 .. Len(backlog) /\ backlog'[k] = backlog[k]
          \/ k = Len(backlog) + 1 /\ backlog'[k] = c
    BY <2>1
  <2>4. FdsDistinct' /\ OpenWhileServed'
    BY <2>1 DEF FdsDistinct, OpenWhileServed
  <2>5. pc[c] = "none"
    BY <2>1 DEF AbsentUnserved
  <2>6. \A k \in 1 .. Len(backlog') : pc'[backlog'[k]] = "none" /\ peer'[backlog'[k]] # "absent"
    <3>1. peer'[c] = "here" /\ \A d \in Clients \ {c} : peer'[d] = peer[d]
      BY <2>1 DEF TypeOK, NetTypeOK
    <3> QED
      BY <2>1, <2>2, <2>3, <2>5, <3>1 DEF QueuedUnserved
  <2>7. \A k, l \in 1 .. Len(backlog') : k # l => backlog'[k] # backlog'[l]
    BY <2>2, <2>3 DEF QueuedUnserved
  <2>8. AbsentUnserved' /\ RemovedDeparted'
    BY <2>1 DEF AbsentUnserved, RemovedDeparted, TypeOK, NetTypeOK, Departed
  <2> QED
    BY <2>4, <2>6, <2>7, <2>8 DEF QueuedUnserved
<1>2. CASE ~NetConnect(c)
  <2>1. /\ UNCHANGED <<fd, pc, backlog>>
        /\ \A d \in Clients :
             \/ peer'[d] = peer[d]
             \/ peer[d] = "here" /\ peer'[d] \in {"closed", "reset", "gone"}
    <3>1. UNCHANGED serverVars
      BY ClientSteps
    <3>2. CASE NetClientSend(c) \/ NetClientRecv(c) \/ NetClientClose(c) \/ UNCHANGED netVars
      BY <3>1, <3>2 DEF serverVars, netVars, NetClientSend, NetClientRecv, NetClientClose,
                        TypeOK, NetTypeOK
    <3>3. CASE /\ spc[c] = "send" \/ rpc[c] = "exit"
               /\ peer' = [peer EXCEPT ![c] = "gone"]
               /\ UNCHANGED <<backlog, fd, written, up, relayed, seen>>
      BY <3>1, <3>3 DEF serverVars, ThreadsFollow, TypeOK, NetTypeOK
    <3> QED
      BY <1>2, <3>2, <3>3, ClientSteps
  <2>2. \A k \in 1 .. Len(backlog) : backlog[k] \in Clients
    BY DEF TypeOK, NetTypeOK
  <2>3. FdsDistinct' /\ OpenWhileServed'
    BY <2>1 DEF FdsDistinct, OpenWhileServed
  <2>4. QueuedUnserved'
    BY <2>1, <2>2 DEF QueuedUnserved
  <2>5. AbsentUnserved' /\ RemovedDeparted'
    BY <2>1 DEF AbsentUnserved, RemovedDeparted, Departed
  <2> QED
    BY <2>3, <2>4, <2>5
<1> QED
  BY <1>1, <1>2

\* So does every step.
LEMMA NextConnections ==
  ASSUME TypeOK, ConnectionInv, ThreadsFollow, [Next]_vars PROVE ConnectionInv'
<1>1. CASE UNCHANGED <<fd, pc, backlog, peer>>
  BY <1>1 DEF ConnectionInv, FdsDistinct, OpenWhileServed, QueuedUnserved, AbsentUnserved,
              RemovedDeparted
<1>2. CASE UNCHANGED vars
  BY <1>1, <1>2 DEF vars, netVars, serverVars
<1>3. CASE AcceptDies
  BY <1>1, <1>3 DEF AcceptDies, netVars
<1> QED
  BY <1>2, <1>3, AcceptConnections, HandlerConnections, ClientConnections DEF Next, Main

\* The threads of a client keep to its connection: of the server's steps only its death
\* and the close() of a connection whose client has left touch them.
LEMMA NextThreads ==
  ASSUME TypeOK, ConnectionInv, ThreadsFollow, [Next]_vars PROVE ThreadsFollow'
<1> USE DEF TypeOK, NetTypeOK
<1>1. CASE Main \/ UNCHANGED vars
  <2>1. UNCHANGED <<peer, clientVars>> /\ (server' = "running" => server = "running")
        /\ (server = "dead" => server' = "dead")
    BY <1>1 DEF Main, Accept, AcceptDies, vars, netVars, serverVars
  <2> QED
    BY <2>1 DEF ThreadsFollow, clientVars
<1>2. ASSUME NEW c \in Clients, Handler(c) PROVE ThreadsFollow'
  <2>1. UNCHANGED clientVars /\ server = "running"
    BY <1>2 DEF Handler, AddToTable, Receive, ReceiveEnd, BroadcastLock, BroadcastSend,
       BroadcastDies, BroadcastUnlock, RemoveFromTable, CloseSocket
  <2>2. \A d \in Clients : peer'[d] = "here" <=> peer[d] = "here"
    <3>1. CASE UNCHANGED peer
      BY <3>1
    <3>2. CASE ReceiveEnd(c)
      BY <3>2 DEF ReceiveEnd, NetRecvEnd, Departed
    <3>3. CASE BroadcastSend(c)
      BY <3>3 DEF BroadcastSend, NetSend
    <3>4. CASE CloseSocket(c)
      <4>1. pc[c] = "close" /\ peer' = [peer EXCEPT ![c] = "gone"]
        BY <3>4 DEF CloseSocket, NetClose
      <4>2. peer[c] \in Departed
        BY <4>1 DEF ConnectionInv, RemovedDeparted
      <4> QED
        BY <4>1, <4>2 DEF Departed
    <3> QED
      BY <1>2, <3>1, <3>2, <3>3, <3>4
         DEF Handler, AddToTable, Receive, BroadcastLock, BroadcastDies, BroadcastUnlock,
             RemoveFromTable, netVars
  <2> QED
    BY <2>1, <2>2 DEF ThreadsFollow, clientVars
<1>3. ASSUME NEW c \in Clients, Client(c) PROVE ThreadsFollow'
  <2>1. server' = server
    BY <1>3, ClientSteps DEF serverVars
  <2>2. CASE ClientConnect(c)
    BY <2>1, <2>2 DEF ClientConnect, NetConnect, ThreadsFollow
  <2>3. CASE ClientKilled(c)
    BY <2>1, <2>3 DEF ClientKilled, NetClientClose, ThreadsEnd, ThreadsFollow
  <2>4. CASE ClientSendFails(c)
    BY <2>1, <2>4 DEF ClientSendFails, ThreadsEnd, ThreadsFollow
  <2>5. CASE ClientExits(c)
    BY <2>1, <2>5 DEF ClientExits, ThreadsEnd, ThreadsFollow
  <2>6. CASE ClientReads(c) \/ ClientInputEnds(c) \/ ClientSeesEnd(c)
    BY <2>1, <2>6 DEF ClientReads, ClientInputEnds, ClientSeesEnd, netVars, ThreadsFollow
  <2>7. CASE ClientSend(c) \/ ClientReceive(c)
    BY <2>1, <2>7 DEF ClientSend, ClientReceive, NetClientSend, NetClientRecv, clientVars,
       ThreadsFollow
  <2> QED
    BY <1>3, <2>2, <2>3, <2>4, <2>5, <2>6, <2>7 DEF Client, SendThread, ReceiveThread, User
<1> QED
  BY <1>1, <1>2, <1>3 DEF Next

-----------------------------------------------------------------------------
\* Entering a descriptor that is not in the table.
LEMMA AddedEntry ==
  ASSUME TypeOK, NEW c \in Clients
  PROVE  \/ Added(c) = client_sockets
         \/ \E k \in Slots : client_sockets[k] = 0 /\ Added(c) = [client_sockets EXCEPT ![k] = fd[c]]
<1> DEFINE is == {i \in Slots : client_sockets[i] = 0}
<1>1. CASE is = {}
  BY <1>1 DEF Added, Overwritten
<1>2. CASE is # {}
  <2>1. Min(is) \in is
    BY <1>2, MinSlot
  <2> QED
    BY <1>2, <2>1 DEF Added, Overwritten
<1> QED
  BY <1>1, <1>2

\* Removing a descriptor that has at most one entry.
LEMMA RemovedEntry ==
  ASSUME TypeOK, TableConsistent, NEW c \in Clients, fd[c] # 0
  PROVE  Removed(c) = [i \in Slots |-> IF client_sockets[i] = fd[c] THEN 0 ELSE client_sockets[i]]
<1> DEFINE is == {i \in Slots : client_sockets[i] = fd[c]}
<1>1. client_sockets \in [Slots -> Fds \union {0}]
  BY DEF TypeOK
<1>2. CASE is = {}
  BY <1>1, <1>2 DEF Removed, Overwritten
<1>3. CASE is # {}
  <2>1. Min(is) \in Slots /\ client_sockets[Min(is)] = fd[c]
    BY <1>3, MinSlot
  <2>2. \A i \in Slots : client_sockets[i] = fd[c] => i = Min(is)
    BY <2>1 DEF TableConsistent
  <2>3. Removed(c) = [client_sockets EXCEPT ![Min(is)] = 0]
    BY <1>3 DEF Removed, Overwritten
  <2> HIDE DEF is
  <2> QED
    BY <1>1, <2>1, <2>2, <2>3
<1> QED
  BY <1>2, <1>3

\* The steps that leave the table alone, and do not end a membership.
LEMMA OtherStepsTable ==
  ASSUME TypeOK, TableConsistent, UNCHANGED client_sockets,
         \A d \in Clients : (fd[d] # 0 /\ pc[d] \in {"recv", "lock", "send", "remove"}) =>
                              fd'[d] = fd[d] /\ pc'[d] \in {"recv", "lock", "send", "remove"}
  PROVE  TableConsistent'
BY DEF TypeOK, TableConsistent

\* Every step of a handler keeps the table consistent.
LEMMA HandlerTable ==
  ASSUME Inv, NEW c \in Clients, Handler(c) PROVE TableConsistent'
<1> USE DEF Inv
<1>1. CASE AddToTable(c)
  <2>1. /\ pc[c] = "add" /\ pc' = [pc EXCEPT ![c] = "recv"]
        /\ client_sockets' = Added(c) /\ fd' = fd
    BY <1>1 DEF AddToTable, netVars
  <2>2. \A i \in Slots : client_sockets[i] # 0 => client_sockets[i] # fd[c]
    BY <2>1 DEF TableConsistent, ConnectionInv, FdsDistinct
  <2>3. CASE Added(c) = client_sockets
    BY <2>1, <2>3, OtherStepsTable DEF TypeOK
  <2>4. CASE \E k \in Slots : client_sockets[k] = 0 /\ Added(c) = [client_sockets EXCEPT ![k] = fd[c]]
    <3>1. PICK k \in Slots : client_sockets[k] = 0 /\ Added(c) = [client_sockets EXCEPT ![k] = fd[c]]
      BY <2>4
    <3>2. \A i \in Slots : client_sockets'[i] = IF i = k THEN fd[c] ELSE client_sockets[i]
      BY <2>1, <3>1 DEF TypeOK
    <3>3. ASSUME NEW i \in Slots, client_sockets'[i] # 0
          PROVE  \E d \in Clients :
                   fd'[d] = client_sockets'[i] /\ pc'[d] \in {"recv", "lock", "send", "remove"}
      <4>1. CASE i = k
        BY <2>1, <3>2, <4>1 DEF TypeOK
      <4>2. CASE i # k
        <5>1. PICK d \in Clients :
                fd[d] = client_sockets[i] /\ pc[d] \in {"recv", "lock", "send", "remove"}
          BY <3>2, <3>3, <4>2 DEF TableConsistent
        <5> QED
          BY <2>1, <3>2, <4>2, <5>1 DEF TypeOK
      <4> QED
        BY <4>1, <4>2
    <3>4. \A i, j \in Slots :
            i # j /\ client_sockets'[i] # 0 => client_sockets'[i] # client_sockets'[j]
      BY <2>2, <3>2 DEF TableConsistent
    <3> QED
      BY <3>3, <3>4 DEF TableConsistent
  <2> QED
    BY <2>3, <2>4, AddedEntry
<1>2. CASE RemoveFromTable(c)
  <2>1. /\ pc[c] = "remove" /\ pc' = [pc EXCEPT ![c] = "close"]
        /\ client_sockets' = Removed(c) /\ fd' = fd
    BY <1>2 DEF RemoveFromTable, netVars
  <2>2. fd[c] # 0
    BY <2>1 DEF ConnectionInv, OpenWhileServed
  <2>3. \A i \in Slots :
          client_sockets'[i] = IF client_sockets[i] = fd[c] THEN 0 ELSE client_sockets[i]
    BY <2>1, <2>2, RemovedEntry
  <2>4. ASSUME NEW i \in Slots, client_sockets'[i] # 0
        PROVE  \E d \in Clients :
                 fd'[d] = client_sockets'[i] /\ pc'[d] \in {"recv", "lock", "send", "remove"}
    <3>1. PICK d \in Clients :
            fd[d] = client_sockets[i] /\ pc[d] \in {"recv", "lock", "send", "remove"}
      BY <2>3, <2>4 DEF TableConsistent
    <3>2. d # c
      BY <2>3, <2>4, <3>1
    <3> QED
      BY <2>1, <2>3, <2>4, <3>1, <3>2 DEF TypeOK
  <2>5. \A i, j \in Slots :
          i # j /\ client_sockets'[i] # 0 => client_sockets'[i] # client_sockets'[j]
    BY <2>3 DEF TableConsistent
  <2> QED
    BY <2>4, <2>5 DEF TableConsistent
<1>3. CASE CloseSocket(c)
  BY <1>3, OtherStepsTable DEF CloseSocket, NetClose, TypeOK, NetTypeOK
<1>4. CASE Receive(c) \/ ReceiveEnd(c) \/ BroadcastLock(c)
  BY <1>4, OtherStepsTable DEF Receive, ReceiveEnd, BroadcastLock, netVars, TypeOK
<1>5. CASE BroadcastSend(c) \/ BroadcastDies(c) \/ BroadcastUnlock(c)
  BY <1>5, OtherStepsTable DEF BroadcastSend, BroadcastDies, BroadcastUnlock, netVars, TypeOK
<1> QED
  BY <1>1, <1>2, <1>3, <1>4, <1>5 DEF Handler

\* The invariant is inductive.
LEMMA NextInv ==
  ASSUME Inv, [Next]_vars PROVE Inv'
<1>1. TypeOK' /\ ConnectionInv' /\ ThreadsFollow'
  BY NextTypes, NextConnections, NextThreads DEF Inv
<1>2. TableConsistent'
  <2>1. ASSUME NEW c \in Clients, Accept(c) PROVE TableConsistent'
    <3>1. /\ \A d \in Clients \ {c} : fd'[d] = fd[d]
          /\ pc' = [pc EXCEPT ![c] = "add"] /\ UNCHANGED client_sockets
      BY <2>1, AcceptGivesFreeFd DEF Inv, TypeOK, Accept
    <3>2. pc[c] = "none"
      BY <2>1, AcceptedUnserved DEF Inv, ConnectionInv
    <3> QED
      BY <3>1, <3>2, OtherStepsTable DEF Inv, TypeOK
  <2>2. CASE UNCHANGED <<client_sockets, fd, pc>>
    BY <2>2, OtherStepsTable DEF Inv
  <2>3. CASE AcceptDies \/ UNCHANGED vars
    BY <2>2, <2>3 DEF AcceptDies, vars, netVars, serverVars
  <2>4. ASSUME NEW c \in Clients, Client(c) PROVE TableConsistent'
    BY <2>2, <2>4, ClientSteps DEF NetConnect, NetClientSend, NetClientRecv, NetClientClose,
          serverVars, netVars
  <2> QED
    BY <2>1, <2>3, <2>4, HandlerTable DEF Next, Main
<1> QED
  BY <1>1, <1>2 DEF Inv

\* The inductive invariant holds in every reachable state: descriptors, phases
\* of the handlers, listen queue and table agree.
THEOREM InvHolds == Spec => []Inv
<1>1. Inv /\ [Next]_vars => Inv'
  BY NextInv
<1> QED
  BY InitInv, <1>1, PTL DEF Spec

\* Whatever clients come, type and are killed, and whoever is scheduled when,
\* the table holds open descriptors of members only, each once.
THEOREM TableIsConsistent == Spec => []TableConsistent
<1>1. Inv => TableConsistent
  BY DEF Inv
<1> QED
  BY InvHolds, <1>1, PTL

-----------------------------------------------------------------------------
\* The owner of a used entry is the client whose descriptor it is.
LEMMA OwnerOfEntry ==
  ASSUME Inv, NEW c \in Clients, fd[c] # 0 PROVE OwnerOf(fd[c]) = c
BY DEF Inv, ConnectionInv, FdsDistinct, OwnerOf

\* A step that changes a used entry is the removal of it by its handler.
LEMMA NextKeepsEntries ==
  ASSUME Inv, [Next]_vars, NEW i \in Slots,
         client_sockets[i] # 0, client_sockets'[i] # client_sockets[i]
  PROVE  client_sockets'[i] = 0 /\ peer[OwnerOf(client_sockets[i])] \in Departed
<1>1. PICK c \in Clients : AddToTable(c) \/ RemoveFromTable(c)
  <2>1. client_sockets' # client_sockets
    OBVIOUS
  <2>2. ASSUME NEW c \in Clients, Handler(c) PROVE AddToTable(c) \/ RemoveFromTable(c)
    BY <2>1, <2>2 DEF Handler, Receive, ReceiveEnd, BroadcastLock, BroadcastSend,
          BroadcastDies, BroadcastUnlock, CloseSocket
  <2>3. ASSUME NEW c \in Clients, Client(c) PROVE FALSE
    BY <2>1, <2>3, ClientSteps DEF serverVars
  <2>4. ~ Main
    BY <2>1 DEF Main, Accept, AcceptDies
  <2> QED
    BY <2>1, <2>2, <2>3, <2>4 DEF Next, vars, serverVars
<1>2. CASE AddToTable(c)
  <2>1. client_sockets' = Added(c)
    BY <1>2 DEF AddToTable
  <2> QED
    BY <2>1, AddedEntry DEF Inv, TypeOK
<1>3. CASE RemoveFromTable(c)
  <2>1. client_sockets' = Removed(c) /\ pc[c] = "remove"
    BY <1>3 DEF RemoveFromTable
  <2>2. fd[c] # 0 /\ peer[c] \in Departed
    BY <2>1 DEF Inv, ConnectionInv, OpenWhileServed, RemovedDeparted
  <2>3. client_sockets[i] = fd[c] /\ client_sockets'[i] = 0
    BY <2>1, <2>2, RemovedEntry DEF Inv
  <2> QED
    BY <2>2, <2>3, OwnerOfEntry
<1> QED
  BY <1>1, <1>2, <1>3

\* A used entry is only ever freed, and only after its client has left.
THEOREM EntriesAreKept == Spec => EntryKept
<1>1. Inv /\ [Next]_vars =>
        [\A i \in Slots :
           client_sockets[i] # 0 /\ client_sockets'[i] # client_sockets[i] =>
             /\ client_sockets'[i] = 0
             /\ peer[OwnerOf(client_sockets[i])] \in Departed]_vars
  BY NextKeepsEntries
<1> QED
  BY InvHolds, <1>1, PTL DEF Spec, EntryKept

-----------------------------------------------------------------------------
(***************************************************************************)
(* What the mapping needs besides Inv: who holds the mutex, and which part *)
(* of each client's text is where.                                         *)
(***************************************************************************)

\* The mutex is held by the handler that broadcasts, and by no other.
MutexHeldBySender == \A c \in Clients : client_mutex = c <=> pc[c] = "send"

\* What a handler is about to broadcast is what it took last, at most RecvMax units.
BufferIsLastTaken ==
    \A c \in Clients : pc[c] = "lock" =>
      /\ Len(buffer[c]) \in 1 .. RecvMax
      /\ Len(buffer[c]) <= Taken(c)
      /\ \A k \in 1 .. Len(buffer[c]) :
           buffer[c][k] = <<c, Taken(c) - Len(buffer[c]) + k>>

\* Nobody broadcasts an empty text.
PostNotEmpty == \A c \in Clients : pc[c] = "send" => buffer[c] # <<>>

RoomInv == MutexHeldBySender /\ WaitingIsEnd /\ BufferIsLastTaken /\ PostNotEmpty

\* The room starts empty and silent.
LEMMA InitRoomInv == Init => RoomInv
BY FreeAssumption DEF Init, NetInit, RoomInv, MutexHeldBySender, WaitingIsEnd, Taken,
   BufferIsLastTaken, PostNotEmpty

\* The steps that leave texts, phases and mutex alone.
LEMMA OtherStepsRoomInv ==
  ASSUME TypeOK, RoomInv, UNCHANGED <<client_mutex, written, up, buffer>>,
         NEW c \in Clients,
         \A d \in Clients \ {c} : pc'[d] = pc[d],
         pc'[c] = pc[c] \/ (pc[c] # "send" /\ pc'[c] \notin {"lock", "send"})
  PROVE  RoomInv'
<1>1. MutexHeldBySender'
  BY DEF RoomInv, MutexHeldBySender
<1>2. WaitingIsEnd'
  BY DEF RoomInv, WaitingIsEnd, Taken
<1>3. BufferIsLastTaken'
  BY DEF RoomInv, BufferIsLastTaken, Taken
<1>4. PostNotEmpty'
  BY DEF RoomInv, PostNotEmpty
<1> QED
  BY <1>1, <1>2, <1>3, <1>4 DEF RoomInv

\* Receiving takes the next units of the client.
LEMMA ReceiveRoomInv ==
  ASSUME TypeOK, RoomInv, NEW c \in Clients, Receive(c)
  PROVE  RoomInv'
<1> USE DEF RoomInv
<1>1. PICK n \in 1 .. RecvMax :
        NetRecv(c, n) /\ buffer' = [buffer EXCEPT ![c] = SubSeq(up[c], 1, n)]
  BY DEF Receive
<1>2. /\ pc[c] = "recv" /\ pc'[c] = "lock" /\ buffer'[c] = SubSeq(up[c], 1, n)
      /\ \A d \in Clients \ {c} : buffer'[d] = buffer[d] /\ pc'[d] = pc[d]
      /\ UNCHANGED <<written, client_mutex>>
  BY <1>1 DEF Receive, TypeOK
<1>3. /\ WaitingIsEnd'
      /\ Taken(c)' = Taken(c) + n /\ \A d \in Clients \ {c} : Taken(d)' = Taken(d)
      /\ Len(buffer'[c]) = n
      /\ \A k \in 1 .. n : buffer'[c][k] = <<c, Taken(c) + k>>
  BY <1>1, <1>2, ReceivingTakesNext DEF TypeOK
<1>4. Taken(c) \in Nat /\ n \in Nat
  BY BoundsAssumption DEF WaitingIsEnd
<1>5. BufferIsLastTaken'
  <2>1. Len(buffer'[c]) \in 1 .. RecvMax /\ Len(buffer'[c]) <= Taken(c)'
    BY <1>3, <1>4
  <2>2. Taken(c)' - Len(buffer'[c]) = Taken(c)
    BY <1>3, <1>4
  <2> QED
    BY <1>2, <1>3, <2>1, <2>2 DEF BufferIsLastTaken
<1>6. MutexHeldBySender' /\ PostNotEmpty'
  BY <1>2 DEF MutexHeldBySender, PostNotEmpty
<1> QED
  BY <1>3, <1>5, <1>6

\* Taking the mutex, and giving it back.
LEMMA MutexRoomInv ==
  ASSUME TypeOK, RoomInv, NEW c \in Clients, BroadcastLock(c) \/ BroadcastUnlock(c)
  PROVE  RoomInv'
<1> USE DEF RoomInv
<1>1. /\ pc[c] = "lock" /\ pc'[c] = "send" /\ client_mutex = Free /\ client_mutex' = c
         /\ buffer' = buffer
      \/ /\ pc[c] = "send" /\ pc'[c] = "recv" /\ client_mutex' = Free
  BY DEF BroadcastLock, BroadcastUnlock, TypeOK, MutexFree
<1>2. /\ \A d \in Clients \ {c} : pc'[d] = pc[d] /\ buffer'[d] = buffer[d]
      /\ UNCHANGED <<written, up>>
  BY DEF BroadcastLock, BroadcastUnlock, TypeOK, netVars
<1>3. MutexHeldBySender'
  BY <1>1, <1>2, FreeAssumption DEF MutexHeldBySender
<1>4. WaitingIsEnd'
  BY <1>2 DEF WaitingIsEnd, Taken
<1>5. BufferIsLastTaken'
  BY <1>1, <1>2 DEF BufferIsLastTaken, Taken
<1>6. PostNotEmpty'
  <2>1. pc[c] = "lock" => buffer[c] # <<>>
    BY DEF BufferIsLastTaken
  <2> QED
    BY <1>1, <1>2, <2>1 DEF PostNotEmpty
<1> QED
  BY <1>3, <1>4, <1>5, <1>6

\* A line of the user goes to the end of what waits.
LEMMA ClientSendRoomInv ==
  ASSUME TypeOK, RoomInv, NEW c \in Clients, Client(c), NetClientSend(c)
  PROVE  RoomInv'
<1>1. NetClientSend(c) /\ UNCHANGED <<client_mutex, pc, buffer>>
  BY ClientSteps DEF serverVars
<1>2. WaitingIsEnd' /\ \A d \in Clients : Taken(d)' = Taken(d)
  BY <1>1, SendingKeepsWaiting DEF TypeOK, RoomInv
<1> QED
  BY <1>1, <1>2 DEF RoomInv, BufferIsLastTaken, MutexHeldBySender, PostNotEmpty

\* Every step keeps the mapping's invariant.
LEMMA NextRoomInv ==
  ASSUME Inv, RoomInv, [Next]_vars
  PROVE  RoomInv'
<1> USE DEF Inv
<1>1. CASE UNCHANGED <<client_mutex, written, up, buffer, pc>>
  BY <1>1 DEF RoomInv, MutexHeldBySender, WaitingIsEnd, Taken, BufferIsLastTaken, PostNotEmpty
<1>2. CASE UNCHANGED vars \/ AcceptDies
  BY <1>1, <1>2 DEF vars, netVars, serverVars, AcceptDies
<1>3. ASSUME NEW c \in Clients, Accept(c) PROVE RoomInv'
  <2>1. pc[c] = "none"
    BY <1>3, AcceptedUnserved DEF ConnectionInv
  <2> QED
    BY <1>3, <2>1, OtherStepsRoomInv DEF Accept, TypeOK
<1>4. ASSUME NEW c \in Clients, Client(c) PROVE RoomInv'
  <2>1. CASE NetClientSend(c)
    BY <1>4, <2>1, ClientSendRoomInv
  <2>2. CASE ~ NetClientSend(c)
    BY <1>1, <1>4, <2>2, ClientSteps DEF NetConnect, NetClientRecv, NetClientClose, netVars,
       serverVars
  <2> QED
    BY <2>1, <2>2
<1>5. ASSUME NEW c \in Clients, Handler(c) PROVE RoomInv'
  <2>1. CASE Receive(c)
    BY <2>1, ReceiveRoomInv
  <2>2. CASE BroadcastLock(c) \/ BroadcastUnlock(c)
    BY <2>2, MutexRoomInv
  <2>3. CASE BroadcastSend(c) \/ BroadcastDies(c)
    BY <1>1, <2>3 DEF BroadcastSend, BroadcastDies, netVars
  <2>4. CASE AddToTable(c) \/ ReceiveEnd(c) \/ RemoveFromTable(c) \/ CloseSocket(c)
    BY <2>4, OtherStepsRoomInv
       DEF AddToTable, ReceiveEnd, RemoveFromTable, CloseSocket, TypeOK, netVars
  <2> QED
    BY <1>5, <2>1, <2>2, <2>3, <2>4 DEF Handler
<1> QED
  BY <1>2, <1>3, <1>4, <1>5 DEF Next, Main

-----------------------------------------------------------------------------
(* What the mapped variables are in a state of the server. *)

RefInv == Inv /\ RoomInv

\* Every step keeps both invariants.
LEMMA NextRefInv == RefInv /\ [Next]_vars => RefInv'
BY NextInv, NextRoomInv DEF RefInv

\* The members are the clients whose descriptor is in an entry.
MembersHaveEntries ==
    Members = {c \in Clients : fd[c] # 0 /\ \E i \in Slots : client_sockets[i] = fd[c]}

\* Those who still get the post at hand are the clients of the entries ahead.
AwaitingAhead ==
    Awaiting = {d \in Clients : Broadcasting /\ \E i \in Targets(client_mutex) : client_sockets[i] = fd[d]}

\* Between posts the room is silent.
SilentBetweenPosts ==
    ~ Broadcasting => Awaiting = {} /\ PostAtHand = Room!NoPost /\ Inbox = relayed

\* The mapping in terms of descriptors and entries.
LEMMA MappedState ==
  RefInv => MembersHaveEntries /\ AwaitingAhead /\ SilentBetweenPosts
<1> SUFFICES ASSUME RefInv PROVE MembersHaveEntries /\ AwaitingAhead /\ SilentBetweenPosts
  OBVIOUS
<1> USE DEF RefInv, Inv
<1>1. DOMAIN client_sockets = Slots
  BY DEF TypeOK
<1>2. MembersHaveEntries
  BY <1>1 DEF MembersHaveEntries, Members, ToSet
<1>3. AwaitingAhead
  <2>1. CASE ~ Broadcasting
    BY <2>1 DEF AwaitingAhead, Awaiting
  <2>2. CASE Broadcasting
    <3>1. client_mutex \in Clients
      BY <2>2 DEF Broadcasting, TypeOK
    <3>2. \A i \in Targets(client_mutex) :
            \E d \in Clients : fd[d] = client_sockets[i] /\ fd[d] # 0
      BY DEF Targets, TableConsistent
    <3>3. \A i \in Targets(client_mutex) : \A d \in Clients :
            fd[d] = client_sockets[i] => OwnerOf(client_sockets[i]) = d
      <4>1. \A d \in Clients : fd[d] # 0 => OwnerOf(fd[d]) = d
        BY OwnerOfEntry
      <4> QED
        BY <4>1 DEF Targets
    <3> QED
      BY <2>2, <3>2, <3>3 DEF AwaitingAhead, Awaiting
  <2> QED
    BY <2>1, <2>2
<1>4. SilentBetweenPosts
  <2>1. ASSUME ~ Broadcasting PROVE Awaiting = {} /\ PostAtHand = Room!NoPost
    BY <2>1 DEF Awaiting, PostAtHand, Room!NoPost
  <2>2. ASSUME ~ Broadcasting PROVE Inbox = relayed
    BY <2>1, <2>2 DEF Inbox, TypeOK, NetTypeOK
  <2> QED
    BY <2>1, <2>2 DEF SilentBetweenPosts
<1> QED
  BY <1>2, <1>3, <1>4

\* The same of the next state.
LEMMA MappedNextState ==
  RefInv' => MembersHaveEntries' /\ AwaitingAhead' /\ SilentBetweenPosts'
BY MappedState, PTL

\* A step that changes none of the mapped variables.
LEMMA SameRoom ==
  ASSUME server' = server, Entered' = Entered, Members' = Members, Posted' = Posted,
         PostAtHand' = PostAtHand, Inbox' = Inbox
  PROVE  UNCHANGED Room!roomVars
<1>1. Open' = Open
  BY DEF Open
<1> QED
  BY <1>1 DEF Room!roomVars

\* A step that leaves table, mutex and deliveries alone, and gives or takes
\* only a descriptor that has no entry, leaves members, post and inboxes alone.
LEMMA SameDelivery ==
  ASSUME RefInv, RefInv',
         UNCHANGED <<client_sockets, client_mutex, next, server, relayed>>,
         Broadcasting => buffer'[client_mutex] = buffer[client_mutex]
                         /\ fd'[client_mutex] = fd[client_mutex],
         \A d \in Clients : \/ fd'[d] = fd[d]
                            \/ \A i \in Slots : client_sockets[i] # 0 =>
                                 client_sockets[i] \notin {fd[d], fd'[d]}
  PROVE  Members' = Members /\ PostAtHand' = PostAtHand /\ Inbox' = Inbox
<1>1. /\ MembersHaveEntries /\ MembersHaveEntries'
      /\ AwaitingAhead /\ AwaitingAhead'
  BY MappedState, MappedNextState
<1>2. Members' = Members
  BY <1>1 DEF MembersHaveEntries
<1>3. Broadcasting' = Broadcasting
  BY DEF Broadcasting
<1>4. Broadcasting => Targets(client_mutex)' = Targets(client_mutex)
  BY DEF Targets
<1>5. Awaiting' = Awaiting
  <2>1. \A i \in Targets(client_mutex) : i \in Slots /\ client_sockets[i] # 0
    BY DEF Targets
  <2>2. \A d \in Clients :
          Broadcasting' /\ (\E i \in Targets(client_mutex)' : client_sockets'[i] = fd'[d])
          <=> Broadcasting /\ \E i \in Targets(client_mutex) : client_sockets[i] = fd[d]
    BY <1>3, <1>4, <2>1
  <2> QED
    BY <1>1, <2>2 DEF AwaitingAhead
<1>6. PostAtHand' = PostAtHand
  BY <1>2, <1>3 DEF PostAtHand
<1>7. Inbox' = Inbox
  <2>1. Awaiting # {} => Broadcasting
    BY DEF Awaiting
  <2> QED
    BY <1>5, <2>1 DEF Inbox
<1> QED
  BY <1>2, <1>6, <1>7

-----------------------------------------------------------------------------
(* The steps that the room does not see. *)

\* What a client does alone.
LEMMA ClientStutters ==
  ASSUME RefInv, RefInv', NEW c \in Clients, Client(c)
  PROVE  UNCHANGED Room!roomVars
<1> USE DEF RefInv, Inv, TypeOK, NetTypeOK
<1>1. UNCHANGED serverVars /\ UNCHANGED <<fd, relayed>>
  BY ClientSteps DEF NetConnect, NetClientSend, NetClientRecv, NetClientClose, netVars
<1>2. Entered' = Entered
  BY <1>1 DEF Entered, serverVars
<1>3. Posted' = Posted
  <2>1. \A d \in Clients : Taken(d)' = Taken(d)
    <3>1. CASE NetClientSend(c)
      BY <3>1, SendingKeepsWaiting DEF RoomInv
    <3>2. CASE ~ NetClientSend(c)
      BY <3>2, ClientSteps DEF NetConnect, NetClientRecv, NetClientClose, netVars, Taken
    <3> QED
      BY <3>1, <3>2
  <2> QED
    BY <1>1, <2>1 DEF Posted, Taken, serverVars
<1>4. Members' = Members /\ PostAtHand' = PostAtHand /\ Inbox' = Inbox
  BY <1>1, SameDelivery DEF serverVars
<1> QED
  BY <1>1, <1>2, <1>3, <1>4, SameRoom DEF serverVars

\* accept(): the client's handler has still to enter it.
LEMMA AcceptStutters ==
  ASSUME RefInv, RefInv', NEW c \in Clients, Accept(c)
  PROVE  UNCHANGED Room!roomVars
<1> USE DEF RefInv, Inv
<1>1. /\ fd'[c] # 0
      /\ \A d \in Clients \ {c} : fd'[d] = fd[d] /\ fd[d] # fd'[c]
  BY AcceptGivesFreeFd DEF Accept, TypeOK
<1>2. pc[c] = "none" /\ pc' = [pc EXCEPT ![c] = "add"]
      /\ UNCHANGED <<written, up, relayed, client_sockets, client_mutex, buffer, next, server>>
  BY AcceptedUnserved DEF Accept, ConnectionInv
<1>3. Entered' = Entered
  BY <1>2 DEF Entered, TypeOK
<1>4. Posted' = Posted
  BY <1>2 DEF Posted, TypeOK
<1>5. fd[c] = 0
  BY <1>2 DEF ConnectionInv, OpenWhileServed
<1>6. \A i \in Slots : client_sockets[i] # 0 => client_sockets[i] \notin {fd[c], fd'[c]}
  <2>1. \A d \in Clients : pc[d] \in {"recv", "lock", "send", "remove"} => d # c
    BY <1>2
  <2> QED
    BY <1>1, <1>5, <2>1 DEF TableConsistent
<1>7. Broadcasting => client_mutex \in Clients \ {c}
  BY <1>2 DEF Broadcasting, RoomInv, MutexHeldBySender, TypeOK
<1>8. Members' = Members /\ PostAtHand' = PostAtHand /\ Inbox' = Inbox
  BY <1>1, <1>2, <1>6, <1>7, SameDelivery
<1> QED
  BY <1>2, <1>3, <1>4, <1>8, SameRoom

\* Taking text from the connection.
LEMMA ReceiveStutters ==
  ASSUME RefInv, RefInv', NEW c \in Clients, Receive(c)
  PROVE  UNCHANGED Room!roomVars
<1> USE DEF RefInv, Inv
<1>1. PICK n \in 1 .. RecvMax :
        /\ n <= Len(up[c])
        /\ up' = [up EXCEPT ![c] = SubSeq(up[c], n + 1, Len(up[c]))]
        /\ buffer' = [buffer EXCEPT ![c] = SubSeq(up[c], 1, n)]
  BY DEF Receive, NetRecv
<1>2. /\ pc[c] = "recv" /\ pc' = [pc EXCEPT ![c] = "lock"]
      /\ UNCHANGED <<written, relayed, fd, client_sockets, client_mutex, next, server>>
  BY DEF Receive
<1>3. n \in Nat /\ up[c] \in Seq(Units) /\ written[c] \in Nat
  BY BoundsAssumption DEF TypeOK, NetTypeOK
<1>4. /\ Len(up'[c]) = Len(up[c]) - n
      /\ Len(buffer'[c]) = n
      /\ pc'[c] = "lock"
      /\ \A d \in Clients \ {c} : up'[d] = up[d] /\ buffer'[d] = buffer[d] /\ pc'[d] = pc[d]
  BY <1>1, <1>2, <1>3 DEF TypeOK, NetTypeOK
<1>5. Entered' = Entered
  BY <1>2 DEF Entered, TypeOK
<1>6. Posted' = Posted
  <2>1. ASSUME NEW d \in Clients
        PROVE  written'[d] - Len(up'[d]) - (IF pc'[d] = "lock" THEN Len(buffer'[d]) ELSE 0)
               = written[d] - Len(up[d]) - (IF pc[d] = "lock" THEN Len(buffer[d]) ELSE 0)
    <3>1. CASE d = c
      <4>1. /\ written'[d] - Len(up'[d]) - (IF pc'[d] = "lock" THEN Len(buffer'[d]) ELSE 0)
               = written[c] - (Len(up[c]) - n) - n
            /\ written[d] - Len(up[d]) - (IF pc[d] = "lock" THEN Len(buffer[d]) ELSE 0)
               = written[c] - Len(up[c]) - 0
        BY <1>2, <1>4, <3>1
      <4>2. Len(up[c]) \in Nat
        BY <1>3
      <4> QED
        BY <1>3, <4>1, <4>2
    <3>2. CASE d # c
      BY <1>2, <1>4, <3>2
    <3> QED
      BY <3>1, <3>2
  <2> QED
    BY <2>1 DEF Posted
<1>7. Broadcasting => client_mutex \in Clients \ {c}
  BY <1>2 DEF Broadcasting, RoomInv, MutexHeldBySender, TypeOK
<1>8. Members' = Members /\ PostAtHand' = PostAtHand /\ Inbox' = Inbox
  BY <1>2, <1>4, <1>7, SameDelivery
<1> QED
  BY <1>2, <1>5, <1>6, <1>8, SameRoom

\* The end of a connection, and close().
LEMMA EndStutters ==
  ASSUME RefInv, RefInv', NEW c \in Clients, ReceiveEnd(c) \/ CloseSocket(c)
  PROVE  UNCHANGED Room!roomVars
<1> USE DEF RefInv, Inv
<1>1. /\ \/ pc[c] = "recv" /\ pc' = [pc EXCEPT ![c] = "remove"] /\ fd' = fd
         \/ pc[c] = "close" /\ pc' = [pc EXCEPT ![c] = "done"] /\ fd' = [fd EXCEPT ![c] = 0]
      /\ UNCHANGED <<written, up, relayed, client_sockets, client_mutex, buffer, next, server>>
  BY DEF ReceiveEnd, CloseSocket, NetClose
<1>2. Entered' = Entered
  BY <1>1 DEF Entered, TypeOK
<1>3. Posted' = Posted
  BY <1>1 DEF Posted, TypeOK
<1>4. \A d \in Clients : \/ fd'[d] = fd[d]
                         \/ \A i \in Slots : client_sockets[i] # 0 =>
                              client_sockets[i] \notin {fd[d], fd'[d]}
  <2>1. CASE fd' = fd
    BY <2>1
  <2>2. CASE pc[c] = "close" /\ fd' = [fd EXCEPT ![c] = 0]
    <3>1. /\ \A d \in Clients \ {c} : fd'[d] = fd[d]
          /\ fd'[c] = 0
      BY <2>2 DEF TypeOK, NetTypeOK
    <3>2. \A i \in Slots : client_sockets[i] # 0 => client_sockets[i] # fd[c]
      <4>1. \A d \in Clients : fd[d] = fd[c] /\ fd[d] # 0 => d = c
        BY DEF ConnectionInv, FdsDistinct
      <4> QED
        BY <2>2, <4>1 DEF TableConsistent
    <3> QED
      BY <3>1, <3>2
  <2> QED
    BY <1>1, <2>1, <2>2
<1>5. Broadcasting => client_mutex \in Clients \ {c}
  BY <1>1 DEF Broadcasting, RoomInv, MutexHeldBySender, TypeOK
<1>6. Broadcasting => fd'[client_mutex] = fd[client_mutex]
  BY <1>1, <1>5 DEF TypeOK, NetTypeOK
<1>7. Members' = Members /\ PostAtHand' = PostAtHand /\ Inbox' = Inbox
  BY <1>1, <1>4, <1>6, SameDelivery
<1> QED
  BY <1>1, <1>2, <1>3, <1>7, SameRoom

-----------------------------------------------------------------------------
(* The table and the number of members. *)

\* The table has a free entry exactly while there are fewer members than entries.
LEMMA FreeEntryIffRoom ==
  ASSUME RefInv
  PROVE  (\E i \in Slots : client_sockets[i] = 0) <=> Cardinality(Members) < MAX_CLIENTS
<1> USE DEF RefInv, Inv
<1> DEFINE Used == {i \in Slots : client_sockets[i] # 0}
           owner == [i \in Used |-> OwnerOf(client_sockets[i])]
<1>1. /\ IsFiniteSet(Slots) /\ Cardinality(Slots) = MAX_CLIENTS
      /\ MAX_CLIENTS \in Nat
  BY TableAssumption, FS_Interval DEF Slots
<1>2. /\ IsFiniteSet(Used)
      /\ Cardinality(Used) <= Cardinality(Slots)
      /\ Cardinality(Slots) = Cardinality(Used) => Slots = Used
  BY <1>1, FS_Subset
<1>3. \A i \in Used : /\ owner[i] \in Members
                      /\ fd[owner[i]] = client_sockets[i]
  <2>1. TAKE i \in Used
  <2>2. PICK d \in Clients : fd[d] = client_sockets[i]
    BY DEF TableConsistent
  <2>3. owner[i] = d
    BY <2>2, OwnerOfEntry
  <2>4. d \in Members
    BY <2>2, MappedState DEF MembersHaveEntries
  <2> QED
    BY <2>2, <2>3, <2>4
<1>4. \A i, j \in Used : owner[i] = owner[j] => i = j
  BY <1>3 DEF TableConsistent
<1>5. \A d \in Members : \E i \in Used : owner[i] = d
  <2>1. TAKE d \in Members
  <2>2. PICK i \in Slots : d \in Clients /\ fd[d] # 0 /\ client_sockets[i] = fd[d]
    BY MappedState DEF MembersHaveEntries
  <2>3. owner[i] = d
    BY <2>2, OwnerOfEntry
  <2> QED
    BY <2>2, <2>3
<1>6. owner \in Bijection(Used, Members)
  <2> HIDE DEF Used
  <2>1. owner \in [Used -> Members]
    BY <1>3
  <2> HIDE DEF owner
  <2> QED
    BY <2>1, <1>4, <1>5 DEF Bijection, Injection, Surjection, IsInjective
<1>7. Cardinality(Members) = Cardinality(Used)
  <2>1. ExistsBijection(Used, Members)
    BY <1>6 DEF ExistsBijection
  <2> HIDE DEF Used
  <2> QED
    BY <1>2, <2>1, FS_Bijection
<1>8. Cardinality(Used) \in Nat
  BY <1>2, FS_CardinalityType
<1>9. (\E i \in Slots : client_sockets[i] = 0) <=> Used # Slots
  OBVIOUS
<1> HIDE DEF Used
<1> QED
  BY <1>1, <1>2, <1>7, <1>8, <1>9

\* ChatRoom counts with the same operator.
LEMMA SameCardinality ==
  ASSUME NEW S
  PROVE  Room!Cardinality(S) = Cardinality(S)
BY DEF Room!Cardinality, Cardinality

\* add_client(): the client enters the room, as a member if there is an entry.
LEMMA AddEnters ==
  ASSUME RefInv, RefInv', NEW c \in Clients, AddToTable(c)
  PROVE  Room!Next
<1> USE DEF RefInv, Inv
<1>1. /\ server = "running" /\ client_mutex = Free /\ pc[c] = "add"
      /\ client_sockets' = Added(c) /\ pc' = [pc EXCEPT ![c] = "recv"]
      /\ UNCHANGED <<fd, written, up, relayed, client_mutex, buffer, next, server>>
  BY DEF AddToTable, MutexFree, netVars
<1>2. ~ Broadcasting /\ ~ Broadcasting'
  BY <1>1 DEF Broadcasting
<1>3. /\ PostAtHand = Room!NoPost /\ PostAtHand' = Room!NoPost'
      /\ Inbox = relayed /\ Inbox' = relayed'
  BY <1>2, MappedState, MappedNextState DEF SilentBetweenPosts
<1>4. PostAtHand' = PostAtHand /\ Inbox' = Inbox
  BY <1>1, <1>3 DEF Room!NoPost
<1>5. Open /\ Open' = Open
  BY <1>1 DEF Open
<1>6. c \notin Entered /\ Entered' = Entered \union {c}
  BY <1>1 DEF Entered, TypeOK
<1>7. Posted' = Posted
  BY <1>1 DEF Posted, TypeOK
<1>8. Members' = IF Cardinality(Members) < MAX_CLIENTS THEN Members \union {c} ELSE Members
  <2>1. MembersHaveEntries /\ MembersHaveEntries'
    BY MappedState, MappedNextState
  <2>2. CASE \E i \in Slots : client_sockets[i] = 0
    <3>1. PICK k \in Slots : client_sockets[k] = 0 /\ client_sockets' = [client_sockets EXCEPT ![k] = fd[c]]
      <4> DEFINE is == {i \in Slots : client_sockets[i] = 0}
      <4>1. is # {}
        BY <2>2
      <4>2. Min(is) \in is
        BY <4>1, MinSlot
      <4> QED
        BY <1>1, <4>1, <4>2 DEF Added, Overwritten
    <3>2. \A i \in Slots : client_sockets'[i] = IF i = k THEN fd[c] ELSE client_sockets[i]
      BY <3>1 DEF TypeOK
    <3>3. fd[c] # 0
      BY <1>1 DEF ConnectionInv, OpenWhileServed
    <3>4. \A d \in Clients : fd[d] = fd[c] => d = c
      BY <3>3 DEF ConnectionInv, FdsDistinct
    <3>5. \A d \in Clients :
            (fd'[d] # 0 /\ \E i \in Slots : client_sockets'[i] = fd'[d])
            <=> d = c \/ (fd[d] # 0 /\ \E i \in Slots : client_sockets[i] = fd[d])
      <4>1. TAKE d \in Clients
      <4>2. CASE d = c
        BY <1>1, <3>2, <3>3, <4>2
      <4>3. CASE d # c
        BY <1>1, <3>1, <3>2, <3>4, <4>3
      <4> QED
        BY <4>2, <4>3
    <3>6. Members' = Members \union {c}
      BY <2>1, <3>5 DEF MembersHaveEntries
    <3> QED
      BY <2>2, <3>6, FreeEntryIffRoom
  <2>3. CASE ~ \E i \in Slots : client_sockets[i] = 0
    <3>1. client_sockets' = client_sockets
      BY <1>1, <2>3 DEF Added, Overwritten
    <3> QED
      BY <1>1, <2>1, <2>3, <3>1, FreeEntryIffRoom DEF MembersHaveEntries
  <2> QED
    BY <2>2, <2>3
<1>9. Room!Enter(c)
  BY <1>3, <1>4, <1>5, <1>6, <1>7, <1>8, SameCardinality DEF Room!Enter
<1> QED
  BY <1>9 DEF Room!Next

\* remove_client(): the client leaves the room, if it was a member.
LEMMA RemoveLeaves ==
  ASSUME RefInv, RefInv', NEW c \in Clients, RemoveFromTable(c)
  PROVE  Room!Next \/ UNCHANGED Room!roomVars
<1> USE DEF RefInv, Inv
<1>1. /\ server = "running" /\ client_mutex = Free /\ pc[c] = "remove"
      /\ client_sockets' = Removed(c) /\ pc' = [pc EXCEPT ![c] = "close"]
      /\ UNCHANGED <<fd, written, up, relayed, client_mutex, buffer, next, server>>
  BY DEF RemoveFromTable, MutexFree, netVars
<1>2. ~ Broadcasting /\ ~ Broadcasting'
  BY <1>1 DEF Broadcasting
<1>3. /\ PostAtHand = Room!NoPost /\ PostAtHand' = Room!NoPost'
      /\ Inbox = relayed /\ Inbox' = relayed'
  BY <1>2, MappedState, MappedNextState DEF SilentBetweenPosts
<1>4. PostAtHand' = PostAtHand /\ Inbox' = Inbox
  BY <1>1, <1>3 DEF Room!NoPost
<1>5. Open /\ Open' = Open
  BY <1>1 DEF Open
<1>6. Entered' = Entered
  BY <1>1 DEF Entered, TypeOK
<1>7. Posted' = Posted
  BY <1>1 DEF Posted, TypeOK
<1>8. Members' = Members \ {c}
  <2>1. MembersHaveEntries /\ MembersHaveEntries'
    BY MappedState, MappedNextState
  <2>2. fd[c] # 0
    BY <1>1 DEF ConnectionInv, OpenWhileServed
  <2>3. \A i \in Slots :
          client_sockets'[i] = IF client_sockets[i] = fd[c] THEN 0 ELSE client_sockets[i]
    BY <1>1, <2>2, RemovedEntry
  <2>4. \A d \in Clients : fd[d] = fd[c] => d = c
    BY <2>2 DEF ConnectionInv, FdsDistinct
  <2>5. \A d \in Clients :
          (fd'[d] # 0 /\ \E i \in Slots : client_sockets'[i] = fd'[d])
          <=> d # c /\ fd[d] # 0 /\ \E i \in Slots : client_sockets[i] = fd[d]
    <3>1. TAKE d \in Clients
    <3>2. CASE d = c
      BY <1>1, <2>2, <2>3, <3>2
    <3>3. CASE d # c
      BY <1>1, <2>3, <2>4, <3>3
    <3> QED
      BY <3>2, <3>3
  <2> QED
    BY <2>1, <2>5 DEF MembersHaveEntries
<1>9. CASE c \in Members
  <2>1. Room!Leave(c)
    BY <1>3, <1>4, <1>5, <1>6, <1>7, <1>8, <1>9 DEF Room!Leave
  <2> QED
    BY <2>1 DEF Room!Next
<1>10. CASE c \notin Members
  BY <1>1, <1>4, <1>6, <1>7, <1>8, <1>10, SameRoom
<1> QED
  BY <1>9, <1>10

-----------------------------------------------------------------------------
(* The post *)

\* What a handler is about to broadcast is the next part of its client's text.
LEMMA BufferIsText ==
  ASSUME RefInv, NEW c \in Clients, pc[c] = "lock"
  PROVE  /\ Len(buffer[c]) \in 1 .. RecvMax
         /\ buffer[c] = Room!Text(c, Len(buffer[c]))
<1> USE DEF RefInv, Inv
<1>1. Posted[c] = Taken(c) - Len(buffer[c])
  BY DEF Posted, Taken
<1>2. /\ Len(buffer[c]) \in 1 .. RecvMax
      /\ \A k \in 1 .. Len(buffer[c]) : buffer[c][k] = <<c, Posted[c] + k>>
  BY <1>1 DEF RoomInv, BufferIsLastTaken
<1>3. buffer[c] = [k \in 1 .. Len(buffer[c]) |-> buffer[c][k]]
  <2>1. buffer[c] \in Seq(Units)
    BY DEF TypeOK
  <2> QED
    BY <2>1
<1> QED
  BY <1>2, <1>3 DEF Room!Text

\* broadcast() takes the mutex: the post happens, and everyone but its author
\* is still to be sent it.
LEMMA LockPosts ==
  ASSUME RefInv, RefInv', NEW c \in Clients, BroadcastLock(c)
  PROVE  Room!Next
<1> USE DEF RefInv, Inv
<1>1. /\ server = "running" /\ client_mutex = Free /\ client_mutex' = c
      /\ pc[c] = "lock" /\ pc' = [pc EXCEPT ![c] = "send"]
      /\ next' = [next EXCEPT ![c] = 1]
      /\ UNCHANGED <<fd, written, up, relayed, client_sockets, buffer, server>>
  BY DEF BroadcastLock, MutexFree, netVars
<1>2. ~ Broadcasting /\ Broadcasting'
  BY <1>1, FreeAssumption DEF Broadcasting
<1>3. PostAtHand = Room!NoPost /\ Inbox = relayed
  BY <1>2, MappedState DEF SilentBetweenPosts
<1>4. MembersHaveEntries /\ MembersHaveEntries' /\ AwaitingAhead'
  BY MappedState, MappedNextState
<1>5. Members' = Members
  BY <1>1, <1>4 DEF MembersHaveEntries
<1>6. Awaiting' = Members \ {c}
  <2>1. Targets(client_mutex)' = {i \in Slots : client_sockets[i] \notin {0, fd[c]}}
    BY <1>1, TableAssumption DEF Targets, Slots, TypeOK
  <2>2. fd[c] # 0 /\ \A d \in Clients : fd[d] = fd[c] => d = c
    BY <1>1 DEF ConnectionInv, OpenWhileServed, FdsDistinct
  <2> QED
    BY <1>1, <1>2, <1>4, <2>1, <2>2 DEF AwaitingAhead, MembersHaveEntries
<1> DEFINE n == Len(buffer[c])
           to == Members \ {c}
<1>7. n \in 1 .. RecvMax /\ buffer[c] = Room!Text(c, n)
  BY <1>1, BufferIsText
<1>8. PostAtHand' = [ms |-> Room!Text(c, n), to |-> to]
  BY <1>1, <1>2, <1>5, <1>7 DEF PostAtHand
<1>9. Inbox' = [d \in Clients |-> IF d \in to THEN Inbox[d] \o Room!Text(c, n) ELSE Inbox[d]]
  BY <1>1, <1>3, <1>6, <1>7 DEF Inbox
<1>10. Posted' = [Posted EXCEPT ![c] = Posted[c] + n]
  <2>1. /\ pc'[c] = "send"
        /\ \A d \in Clients \ {c} : pc'[d] = pc[d]
    BY <1>1 DEF TypeOK
  <2>2. written[c] - Len(up[c]) \in Nat /\ n \in Nat
    BY <1>7, BoundsAssumption DEF RoomInv, WaitingIsEnd, Taken
  <2>3. written[c] - Len(up[c]) - 0 = (written[c] - Len(up[c]) - n) + n
    BY <2>2
  <2> QED
    BY <1>1, <2>1, <2>3 DEF Posted
<1>11. c \in Entered /\ Entered' = Entered
  BY <1>1 DEF Entered, TypeOK
<1>12. Open /\ Open' = Open
  BY <1>1 DEF Open
<1> HIDE DEF n, to
<1>13. Room!Post(c)
  BY <1>3, <1>5, <1>7, <1>8, <1>9, <1>10, <1>11, <1>12 DEF Room!Post, to
<1> QED
  BY <1>13 DEF Room!Next

\* The mutex holder's broadcast is the post at hand.
LEMMA SenderHoldsPost ==
  ASSUME RefInv, NEW c \in Clients, pc[c] = "send", server = "running"
  PROVE  /\ client_mutex = c
         /\ Broadcasting
         /\ PostAtHand = [ms |-> buffer[c], to |-> Members \ {c}]
         /\ PostAtHand # Room!NoPost
<1>1. client_mutex = c /\ buffer[c] # <<>>
  BY DEF RefInv, RoomInv, MutexHeldBySender, PostNotEmpty
<1>2. Broadcasting
  BY <1>1, FreeAssumption DEF Broadcasting
<1>3. PostAtHand = [ms |-> buffer[c], to |-> Members \ {c}]
  BY <1>1, <1>2 DEF PostAtHand
<1> QED
  BY <1>1, <1>2, <1>3 DEF Room!NoPost

\* One send(): the client of the entry has what counted as delivered already.
LEMMA SendStutters ==
  ASSUME RefInv, RefInv', NEW c \in Clients, BroadcastSend(c)
  PROVE  UNCHANGED Room!roomVars
<1> USE DEF RefInv, Inv
<1> DEFINE i == Min(Targets(c))
           t == Target(c)
<1>1. /\ server = "running" /\ pc[c] = "send" /\ Targets(c) # {}
      /\ relayed' = [relayed EXCEPT ![t] = relayed[t] \o buffer[c]]
      /\ next' = [next EXCEPT ![c] = i + 1]
      /\ UNCHANGED <<fd, written, up, client_sockets, client_mutex, pc, buffer, server>>
  BY DEF BroadcastSend, NetSend
<1>2. client_mutex = c /\ Broadcasting /\ Broadcasting'
  BY <1>1, SenderHoldsPost DEF Broadcasting
<1>3. /\ MembersHaveEntries /\ MembersHaveEntries'
      /\ AwaitingAhead /\ AwaitingAhead'
  BY MappedState, MappedNextState
<1>4. Members' = Members
  BY <1>1, <1>3 DEF MembersHaveEntries
<1>5. i \in Targets(c) /\ \A j \in Targets(c) : i <= j
  <2>1. Targets(c) \in SUBSET Nat
    BY DEF Targets, Slots
  <2> QED
    BY <1>1, <2>1, MinIsLeast
<1>6. t \in Clients /\ fd[t] = client_sockets[i] /\ client_sockets[i] # 0
  <2>1. client_sockets[i] # 0 /\ i \in Slots
    BY <1>5 DEF Targets
  <2>2. PICK d \in Clients : fd[d] = client_sockets[i]
    BY <2>1 DEF TableConsistent
  <2>3. OwnerOf(client_sockets[i]) = d
    BY <2>1, <2>2, OwnerOfEntry
  <2> QED
    BY <2>1, <2>2, <2>3 DEF Target
<1> HIDE DEF i, t
<1>7. Targets(c)' = Targets(c) \ {i}
  <2>1. next'[c] = i + 1 /\ next[c] \in Nat /\ i >= next[c] /\ i \in Nat
    BY <1>1, <1>5 DEF TypeOK, Targets, Slots
  <2>2. ASSUME NEW j \in Slots
        PROVE  j >= i + 1 /\ client_sockets[j] \notin {0, fd[c]}
               <=> j >= next[c] /\ client_sockets[j] \notin {0, fd[c]} /\ j # i
    <3>1. j \in Nat
      BY DEF Slots
    <3>2. CASE client_sockets[j] \notin {0, fd[c]}
      <4>1. j >= next[c] => i <= j
        BY <1>5, <3>2 DEF Targets
      <4> QED
        BY <2>1, <3>1, <3>2, <4>1
    <3> QED
      BY <3>2
  <2> QED
    BY <1>1, <2>1, <2>2 DEF Targets
<1>8. t \in Awaiting /\ Awaiting' = Awaiting \ {t}
  <2>1. \A d \in Clients : client_sockets[i] = fd[d] => d = t
    BY <1>6 DEF ConnectionInv, FdsDistinct
  <2>2. \A j \in Targets(c) : j # i => client_sockets[j] # client_sockets[i]
    BY <1>5, <1>6 DEF Targets, TableConsistent
  <2>3. \A d \in Clients :
          (\E j \in Targets(c) \ {i} : client_sockets[j] = fd[d])
          <=> d # t /\ \E j \in Targets(c) : client_sockets[j] = fd[d]
    BY <1>5, <1>6, <2>1, <2>2
  <2>4. t \in Awaiting
    BY <1>2, <1>3, <1>5, <1>6 DEF AwaitingAhead
  <2>5. Targets(client_mutex)' = Targets(c) \ {i}
    BY <1>1, <1>2, <1>7
  <2> QED
    BY <1>1, <1>2, <1>3, <2>3, <2>4, <2>5 DEF AwaitingAhead
<1>9. PostAtHand' = PostAtHand
  BY <1>1, <1>2, <1>4 DEF PostAtHand
<1>10. Inbox' = Inbox
  <2>1. relayed \in [Clients -> Seq(Units)]
    BY DEF TypeOK, NetTypeOK
  <2>2. \A d \in Clients : relayed'[d] = IF d = t THEN relayed[d] \o buffer[c] ELSE relayed[d]
    BY <1>1, <2>1
  <2>3. \A d \in Clients :
          (IF d \in Awaiting' THEN relayed'[d] \o buffer[c] ELSE relayed'[d])
          = (IF d \in Awaiting THEN relayed[d] \o buffer[c] ELSE relayed[d])
    BY <1>8, <2>2
  <2> QED
    BY <1>1, <1>2, <2>3 DEF Inbox
<1>11. Entered' = Entered /\ Posted' = Posted
  BY <1>1 DEF Entered, Posted
<1> QED
  BY <1>1, <1>4, <1>9, <1>10, <1>11, SameRoom

\* broadcast() gives the mutex back: nobody is still to be sent the post.
LEMMA UnlockEndsPost ==
  ASSUME RefInv, RefInv', NEW c \in Clients, BroadcastUnlock(c)
  PROVE  Room!Next
<1> USE DEF RefInv, Inv
<1>1. /\ server = "running" /\ pc[c] = "send" /\ Targets(c) = {}
      /\ client_mutex' = Free /\ pc' = [pc EXCEPT ![c] = "recv"]
      /\ buffer' = [buffer EXCEPT ![c] = <<>>]
      /\ UNCHANGED <<fd, written, up, relayed, client_sockets, server>>
  BY DEF BroadcastUnlock, netVars
<1>2. client_mutex = c /\ PostAtHand # Room!NoPost
  BY <1>1, SenderHoldsPost
<1>3. ~ Broadcasting'
  BY <1>1 DEF Broadcasting
<1>4. /\ MembersHaveEntries /\ MembersHaveEntries' /\ AwaitingAhead
      /\ PostAtHand' = Room!NoPost /\ Inbox' = relayed'
  BY <1>3, MappedState, MappedNextState DEF SilentBetweenPosts, Room!NoPost
<1>5. Members' = Members
  BY <1>1, <1>4 DEF MembersHaveEntries
<1>6. Inbox = relayed
  <2>1. Awaiting = {}
    BY <1>1, <1>2, <1>4 DEF AwaitingAhead
  <2> QED
    BY <2>1 DEF Inbox, TypeOK, NetTypeOK
<1>7. Entered' = Entered
  BY <1>1 DEF Entered, TypeOK
<1>8. Posted' = Posted
  BY <1>1 DEF Posted, TypeOK
<1>9. Open /\ Open' = Open
  BY <1>1 DEF Open
<1>10. Room!EndPost
  BY <1>1, <1>2, <1>4, <1>5, <1>6, <1>7, <1>8, <1>9 DEF Room!EndPost
<1> QED
  BY <1>10 DEF Room!Next

\* The end of the server costs those who are still to be sent the post at hand
\* that post, and nobody anything else.
LEMMA DeathCrashes ==
  ASSUME RefInv, RefInv', server = "running", server' = "dead",
         UNCHANGED <<netVars, client_sockets, client_mutex, pc, buffer, next>>
  PROVE  Room!Next
<1> USE DEF RefInv, Inv
<1>1. UNCHANGED <<fd, written, up, relayed>>
  BY DEF netVars
<1>2. ~ Broadcasting'
  BY DEF Broadcasting
<1>3. /\ MembersHaveEntries /\ MembersHaveEntries' /\ AwaitingAhead
      /\ PostAtHand' = Room!NoPost /\ Inbox' = relayed'
  BY <1>2, MappedState, MappedNextState DEF SilentBetweenPosts, Room!NoPost
<1>4. Members' = Members
  BY <1>1, <1>3 DEF MembersHaveEntries
<1>5. Entered' = Entered /\ Posted' = Posted
  BY <1>1 DEF Entered, Posted
<1>6. Awaiting \in SUBSET PostAtHand.to
  <2>1. CASE ~ Broadcasting
    BY <2>1 DEF Awaiting
  <2>2. CASE Broadcasting
    <3>1. PostAtHand.to = Members \ {client_mutex}
      BY <2>2 DEF PostAtHand
    <3>2. \A d \in Awaiting : d \in Members \ {client_mutex}
      BY <1>3 DEF AwaitingAhead, MembersHaveEntries, Targets
    <3> QED
      BY <3>1, <3>2
  <2> QED
    BY <2>1, <2>2
<1>7. Inbox' = [d \in Clients |->
                  IF d \in Awaiting
                  THEN SubSeq(Inbox[d], 1, Len(Inbox[d]) - Len(PostAtHand.ms))
                  ELSE Inbox[d]]
  <2>1. /\ relayed \in [Clients -> Seq(Units)]
        /\ buffer \in [Clients -> Seq(Units)]
    BY DEF TypeOK, NetTypeOK
  <2>2. ASSUME NEW d \in Awaiting
        PROVE  SubSeq(Inbox[d], 1, Len(Inbox[d]) - Len(PostAtHand.ms)) = relayed[d]
    <3>1. Broadcasting /\ d \in Clients
      BY <1>3 DEF AwaitingAhead
    <3>2. client_mutex \in Clients
      BY <3>1 DEF Broadcasting, TypeOK
    <3>3. PostAtHand.ms = buffer[client_mutex] /\ Inbox[d] = relayed[d] \o buffer[client_mutex]
      BY <3>1 DEF PostAtHand, Inbox
    <3>4. relayed[d] \in Seq(Units) /\ buffer[client_mutex] \in Seq(Units)
      BY <2>1, <3>1, <3>2
    <3> QED
      BY <3>3, <3>4, FrontOfConcatenation
  <2>3. \A d \in Clients \ Awaiting : Inbox[d] = relayed[d]
    BY DEF Inbox
  <2>4. relayed' = [d \in Clients |-> relayed[d]]
    BY <1>1, <2>1
  <2> QED
    BY <1>3, <2>2, <2>3, <2>4
<1>8. Open /\ Open' = FALSE
  BY DEF Open
<1>9. Room!Crash
  BY <1>3, <1>4, <1>5, <1>6, <1>7, <1>8 DEF Room!Crash
<1> QED
  BY <1>9 DEF Room!Next

-----------------------------------------------------------------------------
(* The refinement *)

\* The empty server is the empty room.
LEMMA InitRoom == Init => Room!Init
<1> SUFFICES ASSUME Init PROVE Room!Init
  OBVIOUS
<1> USE DEF Init, NetInit
<1>1. RefInv
  BY InitInv, InitRoomInv DEF RefInv
<1>2. ~ Broadcasting
  BY DEF Broadcasting
<1>3. PostAtHand = Room!NoPost /\ Inbox = relayed
  BY <1>1, <1>2, MappedState DEF SilentBetweenPosts
<1>4. Members = {}
  BY <1>1, MappedState DEF MembersHaveEntries
<1>5. Entered = {}
  BY DEF Entered
<1>6. Posted = [c \in Clients |-> 0]
  BY DEF Posted
<1>7. Open = TRUE
  BY DEF Open
<1> QED
  BY <1>3, <1>4, <1>5, <1>6, <1>7 DEF Room!Init

\* Every step of the server or a client is a step of the room, or invisible.
LEMMA NextRoom ==
  ASSUME RefInv, RefInv', [Next]_vars
  PROVE  Room!Next \/ UNCHANGED Room!roomVars
<1>1. CASE UNCHANGED vars
  <2>1. UNCHANGED <<fd, written, up, relayed, client_sockets, client_mutex, pc, buffer, next, server>>
    BY <1>1 DEF vars, netVars, serverVars
  <2>2. Entered' = Entered /\ Posted' = Posted
    BY <2>1 DEF Entered, Posted
  <2>3. Members' = Members /\ PostAtHand' = PostAtHand /\ Inbox' = Inbox
    BY <2>1, SameDelivery
  <2> QED
    BY <2>1, <2>2, <2>3, SameRoom
<1>2. CASE AcceptDies
  BY <1>2, DeathCrashes DEF AcceptDies
<1>3. ASSUME NEW c \in Clients, Handler(c) PROVE Room!Next \/ UNCHANGED Room!roomVars
  <2>1. CASE BroadcastDies(c)
    BY <2>1, DeathCrashes DEF BroadcastDies
  <2> QED
    BY <1>3, <2>1, AddEnters, ReceiveStutters, EndStutters, LockPosts, SendStutters,
       UnlockEndsPost, RemoveLeaves DEF Handler
<1> QED
  BY <1>1, <1>2, <1>3, AcceptStutters, ClientStutters DEF Next, Main

\* Every behaviour of the server is one of the chat room, for any number of
\* clients, descriptors and entries: posts are atomic and whole, in the order of
\* the author's text, and a crash costs at most the post being delivered.
THEOREM RoomImplemented == Spec => ImplementsRoom
<1>1. Init => RefInv
  BY InitInv, InitRoomInv DEF RefInv
<1>2. RefInv /\ RefInv' /\ [Next]_vars => [Room!Next]_Room!roomVars
  BY NextRoom
<1> QED
  BY <1>1, <1>2, NextRefInv, InitRoom, PTL DEF Spec, ImplementsRoom, Room!Spec

-----------------------------------------------------------------------------
(***************************************************************************)
(* Who holds the mutex gets on.  Besides RefInv this needs that the other  *)
(* end of a served connection is a client, and that the kernel's buffers   *)
(* take a post once they are empty.                                        *)
(***************************************************************************)

\* A connection is given up by its handler, as the last thing it does.
GivenUpWhenDone ==
    server = "running" => \A c \in Clients : peer[c] = "gone" => pc[c] = "done"

\* What a handler sends is no more than it may receive at once.
PostFits == \A c \in Clients : pc[c] = "send" => Len(buffer[c]) <= RecvMax

HostInv == GivenUpWhenDone /\ PostFits

\* It holds before anybody has connected.
LEMMA InitHostInv == Init => HostInv
BY DEF Init, NetInit, HostInv, GivenUpWhenDone, PostFits

\* Accepting leads to no such phase, and the client accepted has not been given up.
LEMMA AcceptHost ==
  ASSUME Inv, HostInv, NEW c \in Clients, Accept(c)
  PROVE  HostInv'
<1>1. pc[c] = "none" /\ pc' = [pc EXCEPT ![c] = "add"]
  BY AcceptedUnserved DEF Inv, ConnectionInv, Accept
<1>2. UNCHANGED <<peer, buffer, server>>
  BY DEF Accept
<1> QED
  BY <1>1, <1>2 DEF Inv, TypeOK, HostInv, GivenUpWhenDone, PostFits

\* A client gives its connection up like that only when the server is dead.
LEMMA ClientHost ==
  ASSUME Inv, HostInv, NEW c \in Clients, Client(c)
  PROVE  HostInv'
<1>1. UNCHANGED serverVars
  BY ClientSteps
<1>2. server = "running" => \A d \in Clients : peer'[d] = "gone" => peer[d] = "gone"
  BY ClientSteps DEF NetConnect, NetClientSend, NetClientRecv, NetClientClose, netVars, Inv,
     ThreadsFollow, TypeOK, NetTypeOK
<1> QED
  BY <1>1, <1>2 DEF serverVars, HostInv, GivenUpWhenDone, PostFits

\* A handler sends what it took last, and gives up a connection only with CloseSocket.
LEMMA HandlerHost ==
  ASSUME RefInv, HostInv, NEW c \in Clients, Handler(c)
  PROVE  HostInv'
<1> USE DEF RefInv, Inv, TypeOK, NetTypeOK
<1>1. /\ \A d \in Clients \ {c} : pc'[d] = pc[d] /\ buffer'[d] = buffer[d]
      /\ pc'[c] = "send" =>
           buffer'[c] = buffer[c] /\ pc[c] \in {"lock", "send"}
  BY DEF Handler, AddToTable, Receive, ReceiveEnd, BroadcastLock, BroadcastSend, BroadcastDies,
         BroadcastUnlock, RemoveFromTable, CloseSocket
<1>2. PostFits'
  <2>1. pc[c] = "lock" => Len(buffer[c]) <= RecvMax
    BY BoundsAssumption DEF RoomInv, BufferIsLastTaken
  <2> QED
    BY <1>1, <2>1 DEF HostInv, PostFits
<1>3. pc[c] # "done" /\ server = "running"
  BY DEF Handler, AddToTable, Receive, ReceiveEnd, BroadcastLock, BroadcastSend, BroadcastDies,
         BroadcastUnlock, RemoveFromTable, CloseSocket
<1>4. \A d \in Clients : peer'[d] = "gone" => peer[d] = "gone" \/ (d = c /\ pc'[c] = "done")
  <2>1. CASE UNCHANGED peer
    BY <2>1
  <2>2. CASE ReceiveEnd(c)
    BY <2>2 DEF ReceiveEnd, NetRecvEnd
  <2>3. CASE BroadcastSend(c)
    BY <2>3 DEF BroadcastSend, NetSend
  <2>4. CASE CloseSocket(c)
    BY <2>4 DEF CloseSocket, NetClose
  <2> QED
    BY <2>1, <2>2, <2>3, <2>4
       DEF Handler, AddToTable, Receive, BroadcastLock, BroadcastDies, BroadcastUnlock,
           RemoveFromTable, netVars
<1>5. GivenUpWhenDone'
  BY <1>1, <1>3, <1>4 DEF HostInv, GivenUpWhenDone
<1> QED
  BY <1>2, <1>5 DEF HostInv

\* Every step keeps it.
LEMMA NextHostInv ==
  ASSUME RefInv, HostInv, [Next]_vars
  PROVE  HostInv'
<1>1. CASE UNCHANGED vars \/ AcceptDies
  BY <1>1 DEF vars, netVars, serverVars, AcceptDies, HostInv, GivenUpWhenDone, PostFits
<1> QED
  BY <1>1, AcceptHost, ClientHost, HandlerHost DEF RefInv, Next, Main

\* The next client of a broadcast is one that the server serves.
LEMMA TargetServed ==
  ASSUME Inv, NEW c \in Clients, Targets(c) # {}
  PROVE  Target(c) \in Clients /\ pc[Target(c)] \notin {"none", "done"}
<1> DEFINE k == Min(Targets(c))
<1>1. k \in Slots /\ client_sockets[k] # 0
  <2>1. Targets(c) \in SUBSET Slots
    BY DEF Targets
  <2>2. k \in Targets(c)
    BY <2>1, MinSlot
  <2> QED
    BY <2>2 DEF Targets
<1>2. PICK d \in Clients :
        fd[d] = client_sockets[k] /\ pc[d] \in {"recv", "lock", "send", "remove"}
  BY <1>1 DEF Inv, TableConsistent
<1>3. Target(c) = d
  BY <1>1, <1>2, OwnerOfEntry DEF Target
<1> QED
  BY <1>2, <1>3

\* In every such state the one who holds the mutex is not stuck.
LEMMA HolderGetsOn ==
  ASSUME RefInv, HostInv
  PROVE  MutexNotHostage
<1> SUFFICES ASSUME server = "running", client_mutex # Free
             PROVE  /\ pc[client_mutex] = "send"
                    /\ Targets(client_mutex) # {} =>
                         LET d == Target(client_mutex)
                             ms == buffer[client_mutex]
                         IN  Deliverable(d, ms) /\ (SendBlocks(d, ms) => rpc[d] = "recv")
  BY DEF MutexNotHostage
<1> USE DEF RefInv, Inv
<1>1. PICK h \in Clients : h = client_mutex
  BY DEF TypeOK
<1>2. pc[h] = "send"
  BY <1>1 DEF RoomInv, MutexHeldBySender
<1>3. ASSUME Targets(h) # {}
      PROVE  /\ Deliverable(Target(h), buffer[h])
             /\ SendBlocks(Target(h), buffer[h]) => rpc[Target(h)] = "recv"
  <2>1. PICK t \in Clients : t = Target(h) /\ pc[t] \notin {"none", "done"}
    BY <1>3, TargetServed
  <2>2. buffer[h] \in Seq(Units) /\ Len(buffer[h]) <= RecvMax
    BY <1>2 DEF TypeOK, HostInv, PostFits
  <2>3. peer[t] \notin {"absent", "gone"}
    BY <2>1 DEF ConnectionInv, AbsentUnserved, HostInv, GivenUpWhenDone
  <2>4. SendBlocks(t, buffer[h]) => rpc[t] = "recv"
    BY DEF SendBlocks, ThreadsFollow
  <2> QED
    BY <2>1, <2>2, <2>3, <2>4, ServedIsDeliverable DEF TypeOK
<1> QED
  BY <1>1, <1>2, <1>3

\* However full the clients' buffers are and whoever is killed, no thread waits
\* for a mutex that is not given back.
THEOREM MutexIsNotHostage == Spec => []MutexNotHostage
<1>1. Init => RefInv /\ HostInv
  BY InitInv, InitRoomInv, InitHostInv DEF RefInv
<1>2. RefInv /\ HostInv /\ [Next]_vars => (RefInv /\ HostInv)'
  BY NextRefInv, NextHostInv
<1>3. RefInv /\ HostInv => MutexNotHostage
  BY HolderGetsOn
<1> QED
  BY <1>1, <1>2, <1>3, PTL DEF Spec

=============================================================================
