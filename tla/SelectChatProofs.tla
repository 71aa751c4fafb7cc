-------------------------- MODULE SelectChatProofs --------------------------
(***************************************************************************)
(* What SelectChat guarantees for any number of clients, descriptors and   *)
(* entries: the table matches the open connections, and what select()      *)
(* reported is still true when the server acts on it.                      *)
(***************************************************************************)
EXTENDS SelectChat, TcpNetProofs, FiniteSetTheorems

\* Who waits to be accepted has connected, has no descriptor and waits once.
QueuedUnserved ==
    /\ \A k \in 1 .. Len(backlog) : fd[backlog[k]] = 0 /\ peer[backlog[k]] # "absent"
    /\ \A k, l \in 1 .. Len(backlog) : k # l => backlog[k] # backlog[l]

\* No two clients have the same descriptor, and who has not connected has none.
FdsDistinct == \A c, d \in Clients : fd[c] # 0 /\ fd[c] = fd[d] => c = d
AbsentUnserved == \A c \in Clients : peer[c] = "absent" => fd[c] = 0

ConnectionInv == QueuedUnserved /\ FdsDistinct /\ AbsentUnserved

\* Until the turn's accept(), the descriptors select() reported are open, so that
\* the one accept() gives is not among them.
ReportedOpen == pc = "accept" => readfds \ {server_sock} \subseteq OpenFds
QueueReported == pc = "accept" /\ server_sock \in readfds => backlog # <<>>

\* The entries the scan has not reached.
Ahead(i) ==
    \/ pc = "accept"
    \/ pc = "scan" /\ i >= slot
    \/ pc = "send" /\ i > slot

\* Those of them that select() reported have something to read.
ReportedReadable ==
    \A i \in Slots : Ahead(i) /\ clients[i] > 0 /\ clients[i] \in readfds =>
      Readable(OwnerOf(clients[i]))

\* A text is broadcast for an entry of the table.
SenderListed == pc = "send" => slot \in Slots

TurnInv == ReportedOpen /\ QueueReported /\ ReportedReadable /\ SenderListed

Inv == TypeOK /\ ConnectionInv /\ TableConsistent /\ TurnInv

-----------------------------------------------------------------------------
(* Entries, descriptors and their owners *)

\* A sequence to which something was appended is not empty.
LEMMA AppendedNotEmpty ==
  ASSUME NEW S, NEW s \in Seq(S), NEW e \in S PROVE Append(s, e) # <<>>
<1>1. Len(Append(s, e)) = Len(s) + 1 /\ Len(s) \in Nat
  OBVIOUS
<1>2. Len(<<>>) = 0
  OBVIOUS
<1> QED
  BY <1>1, <1>2

\* The index of a nonempty set of entries that Min picks.
LEMMA MinSlot ==
  ASSUME NEW is \in SUBSET Slots, is # {}
  PROVE  Min(is) \in is /\ Min(is) \in Slots /\ \A i \in is : Min(is) <= i
<1>1. is \in SUBSET Nat
  BY DEF Slots
<1> QED
  BY <1>1, MinIsLeast

\* The owner of an open descriptor is the client that has it.
LEMMA OwnerHas ==
  ASSUME NEW f \in OpenFds
  PROVE  OwnerOf(f) \in Clients /\ fd[OwnerOf(f)] = f
BY DEF OpenFds, OwnerOf

\* A descriptor of the table is open, and its owner is the only one.
LEMMA OwnerOfEntry ==
  ASSUME TypeOK, TableConsistent, NEW i \in Slots, clients[i] > 0
  PROVE  /\ clients[i] \in OpenFds
         /\ OwnerOf(clients[i]) \in Clients
         /\ fd[OwnerOf(clients[i])] = clients[i]
         /\ fd[OwnerOf(clients[i])] # 0
<1>1. clients[i] \in OpenFds
  BY DEF TableConsistent
<1> QED
  BY <1>1, OwnerHas DEF OpenFds

\* A value is stored in one free entry or nowhere.
LEMMA StoredEntry ==
  ASSUME TypeOK, NEW v
  PROVE  \/ Stored(v) = clients
         \/ \E k \in Slots : clients[k] = 0 /\ Stored(v) = [clients EXCEPT ![k] = v]
<1> DEFINE is == {i \in Slots : clients[i] = 0}
<1>1. CASE is = {}
  BY <1>1 DEF Stored
<1>2. CASE is # {}
  <2>1. Min(is) \in is
    BY <1>2, MinSlot
  <2> QED
    BY <1>2, <2>1 DEF Stored
<1> QED
  BY <1>1, <1>2

\* The entry the scan reads from is ahead, is reported, and its client is the one
\* read from.
LEMMA ReadEntry ==
  ASSUME TypeOK, TableConsistent, ToRead # {}
  PROVE  /\ Min(ToRead) \in Slots /\ Min(ToRead) >= slot
         /\ clients[Min(ToRead)] > 0 /\ clients[Min(ToRead)] \in readfds
         /\ Reading \in Clients /\ fd[Reading] = clients[Min(ToRead)] /\ fd[Reading] # 0
<1>1. Min(ToRead) \in ToRead
  BY MinSlot DEF ToRead
<1>2. Min(ToRead) \in Slots /\ Min(ToRead) >= slot
      /\ clients[Min(ToRead)] > 0 /\ clients[Min(ToRead)] \in readfds
  BY <1>1 DEF ToRead
<1> QED
  BY <1>2, OwnerOfEntry DEF Reading

\* The entry a text is sent to.
LEMMA TargetEntry ==
  ASSUME TypeOK, Targets # {} PROVE Min(Targets) \in Slots
BY MinSlot DEF Targets

-----------------------------------------------------------------------------
(* Type correctness *)

\* The server starts with every variable in its type, and an empty table.
LEMMA InitInv == Init => Inv
<1> SUFFICES ASSUME Init PROVE Inv
  OBVIOUS
<1>1. TypeOK
  BY TableAssumption, BoundsAssumption DEF Init, NetInit, TypeOK, NetTypeOK, PeerStates, Slots
<1>2. ConnectionInv
  BY DEF Init, NetInit, ConnectionInv, QueuedUnserved, FdsDistinct, AbsentUnserved
<1>3. TableConsistent
  BY DEF Init, TableConsistent
<1>4. TurnInv
  BY DEF Init, TurnInv, ReportedOpen, QueueReported, ReportedReadable, Ahead, SenderListed
<1> QED
  BY <1>1, <1>2, <1>3, <1>4 DEF Inv

\* Every step of the server keeps the types.
LEMMA ServerTypes ==
  ASSUME Inv, Server PROVE TypeOK'
<1> USE DEF Inv, TypeOK
<1>1. CASE Select
  <2>1. \A i \in Slots : clients[i] \in Fds \union {0, -1}
    BY DEF AcceptError
  <2>2. \A f \in ToSet(clients) : f \in Fds \union {0, -1}
    BY <2>1 DEF ToSet
  <2>3. Ready \subseteq Fds \union {server_sock}
    BY <2>2 DEF Ready
  <2> HIDE DEF Ready
  <2> QED
    BY <1>1, <2>3 DEF Select, NetTypeOK, netVars
<1>2. CASE Accept
  <2>1. PICK c \in Clients : NetAccept(c) /\ clients' = Stored(fd'[c])
    BY <1>2 DEF Accept
  <2>2. fd' \in [Clients -> Fds \union {0}] /\ fd'[c] \in Fds
    BY <2>1, AcceptGivesFreeFd
  <2>3. backlog' \in Seq(Clients)
    BY <2>1 DEF NetTypeOK, NetAccept
  <2>4. clients' \in [Slots -> Fds \union {0, AcceptError}]
    BY <2>1, <2>2, StoredEntry
  <2>5. slot' \in 1 .. MAX_CLIENTS + 1
    BY <1>2, TableAssumption DEF Accept
  <2> QED
    BY <1>2, <2>2, <2>3, <2>4, <2>5 DEF Accept, NetTypeOK
<1>3. CASE AcceptFails
  <2>1. clients' \in [Slots -> Fds \union {0, AcceptError}]
    BY <1>3, StoredEntry DEF AcceptFails
  <2> QED
    BY <1>3, <2>1, TableAssumption DEF AcceptFails, NetTypeOK, netVars
<1>4. CASE NothingToAccept
  BY <1>4, TableAssumption DEF NothingToAccept, NetTypeOK, netVars
<1>5. CASE Receive
  <2>1. PICK n \in 1 .. RecvMax : NetRecv(Reading, n) /\ msg' = SubSeq(up[Reading], 1, n)
    BY <1>5 DEF Receive
  <2>2. Min(ToRead) \in Slots /\ Reading \in Clients
    BY <1>5, ReadEntry DEF Receive
  <2>3. msg' \in Seq(Units) /\ up' \in [Clients -> Seq(Units)]
    BY <2>1, <2>2, ReceivedUnits
  <2>4. Min(ToRead) \in 1 .. MAX_CLIENTS + 1 /\ 1 \in 1 .. MAX_CLIENTS + 1
    BY <2>2, TableAssumption DEF Slots
  <2> QED
    BY <1>5, <2>3, <2>4 DEF Receive, NetTypeOK
<1>6. CASE ReceiveEnd
  <2>1. Min(ToRead) \in Slots /\ Reading \in Clients
    BY <1>6, ReadEntry DEF ReceiveEnd
  <2>2. Min(ToRead) + 1 \in 1 .. MAX_CLIENTS + 1
    BY <2>1, TableAssumption DEF Slots
  <2> QED
    BY <1>6, <2>1, <2>2 DEF ReceiveEnd, NetClose, Forgotten, After, NetTypeOK, PeerStates
<1>7. CASE ScanDone
  BY <1>7 DEF ScanDone, NetTypeOK, netVars
<1>8. CASE BroadcastSend
  <2>1. Min(Targets) + 1 \in 1 .. MAX_CLIENTS + 1
    BY <1>8, TargetEntry, TableAssumption DEF BroadcastSend, Slots
  <2>2. /\ relayed' = [relayed EXCEPT ![Target] = @ \o msg]
        /\ peer' \in {peer, [peer EXCEPT ![Target] = IF @ = "closed" THEN "broken" ELSE @]}
    BY <1>8 DEF BroadcastSend, NetSend
  <2>3. relayed' \in [Clients -> Seq(Units)]
    <3>1. \A d \in Clients : relayed[d] \o msg \in Seq(Units)
      BY DEF NetTypeOK
    <3>2. relayed' = [d \in Clients |-> IF d = Target THEN relayed[d] \o msg ELSE relayed[d]]
      BY <2>2 DEF NetTypeOK
    <3> QED
      BY <3>1, <3>2 DEF NetTypeOK
  <2>4. peer' \in [Clients -> PeerStates]
    BY <2>2 DEF NetTypeOK, PeerStates, Departed
  <2> QED
    BY <1>8, <2>1, <2>3, <2>4 DEF BroadcastSend, NetTypeOK
<1>9. CASE BroadcastSendLost
  <2>1. Min(Targets) + 1 \in 1 .. MAX_CLIENTS + 1
    BY <1>9, TargetEntry, TableAssumption DEF BroadcastSendLost, Slots
  <2>2. relayed' \in [Clients -> Seq(Units)]
    <3>1. \A d \in Clients : relayed[d] \o msg \in Seq(Units)
      BY DEF NetTypeOK
    <3>2. relayed' = [d \in Clients |-> IF d = Target THEN relayed[d] \o msg ELSE relayed[d]]
      BY <1>9 DEF BroadcastSendLost, NetTypeOK
    <3> QED
      BY <3>1, <3>2 DEF NetTypeOK
  <2> QED
    BY <1>9, <2>1, <2>2 DEF BroadcastSendLost, NetTypeOK, PeerStates, Departed
<1>10. CASE BroadcastDies
  BY <1>10 DEF BroadcastDies, NetTypeOK, netVars
<1>11. CASE BroadcastDone
  <2>1. slot + 1 \in 1 .. MAX_CLIENTS + 1 /\ 1 \in 1 .. MAX_CLIENTS + 1
    BY <1>11, TableAssumption DEF BroadcastDone, TurnInv, SenderListed, Slots
  <2>2. <<>> \in Seq(Units)
    OBVIOUS
  <2> QED
    BY <1>11, <2>1, <2>2 DEF BroadcastDone, After, NetTypeOK, netVars
<1> QED
  BY <1>1, <1>2, <1>3, <1>4, <1>5, <1>6, <1>7, <1>8, <1>9, <1>10, <1>11 DEF Server

\* Every step of a client keeps them.
LEMMA ClientTypes ==
  ASSUME TypeOK, NEW c \in Clients, Client(c) PROVE TypeOK'
<1>1. NetTypeOK(Units)'
  <2>1. CASE ClientExits(c)
    BY <2>1 DEF ClientExits, TypeOK, NetTypeOK, PeerStates
  <2>2. CASE UNCHANGED netVars
    BY <2>2 DEF netVars, TypeOK, NetTypeOK
  <2>3. CASE ~ClientExits(c) /\ ~UNCHANGED netVars
    BY <2>3, ClientCallsKeepTypes
       DEF TypeOK, Client, ClientConnect, ClientTurn, ClientSend, ClientKilled
  <2> QED
    BY <2>1, <2>2, <2>3
<1>2. UNCHANGED serverVars
  BY DEF Client, ClientConnect, ClientTurn, ClientSend, ClientKilled, ClientExits
<1>3. cpc' \in [Clients -> {"select", "send"}]
  BY DEF TypeOK, Client, ClientConnect, ClientTurn, ClientSend, ClientKilled, ClientExits
<1> QED
  BY <1>1, <1>2, <1>3 DEF TypeOK, serverVars

-----------------------------------------------------------------------------
(* Connections *)

\* The steps that may change descriptors, the listen queue or who is there.
LEMMA ConnectionSteps ==
  ASSUME Inv, Server
  PROVE  \/ UNCHANGED <<peer, backlog, fd>>
         \/ Accept
         \/ ReceiveEnd
         \/ /\ UNCHANGED <<backlog, fd>>
            /\ \A d \in Clients : peer'[d] = peer[d] \/ (peer[d] \in Departed /\ peer'[d] \in Departed)
<1>1. CASE BroadcastSend
  BY <1>1 DEF BroadcastSend, NetSend, Inv, TypeOK, NetTypeOK, Departed
<1>2. CASE BroadcastSendLost
  BY <1>2 DEF BroadcastSendLost, Inv, TypeOK, NetTypeOK, Departed
<1>3. CASE ~BroadcastSend /\ ~BroadcastSendLost
  BY <1>3 DEF Server, Select, AcceptFails, NothingToAccept, Receive, ScanDone, BroadcastDies,
              BroadcastDone, netVars
<1> QED
  BY <1>1, <1>2, <1>3

\* accept() takes a client that has no descriptor, and gives it one nobody has.
LEMMA AcceptStep ==
  ASSUME Inv, Accept
  PROVE  \E c \in Clients :
           /\ backlog \in Seq(Clients) /\ backlog # <<>> /\ c = backlog[1]
           /\ backlog' = Tail(backlog)
           /\ fd[c] = 0 /\ peer[c] # "absent" /\ peer' = peer
           /\ fd' \in [Clients -> Fds \union {0}] /\ fd'[c] \in Fds /\ fd'[c] > 0
           /\ \A d \in Clients \ {c} : fd'[d] = fd[d] /\ fd[d] # fd'[c]
           /\ clients' = Stored(fd'[c])
<1>1. PICK c \in Clients : NetAccept(c) /\ clients' = Stored(fd'[c])
  BY DEF Accept
<1>2. backlog \in Seq(Clients) /\ backlog # <<>> /\ c = backlog[1] /\ backlog' = Tail(backlog)
  BY <1>1 DEF Inv, TypeOK, NetTypeOK, NetAccept
<1>3. /\ fd' \in [Clients -> Fds \union {0}] /\ fd'[c] # 0
      /\ \A d \in Clients \ {c} : fd'[d] = fd[d] /\ fd[d] # fd'[c]
  BY <1>1, AcceptGivesFreeFd DEF Inv, TypeOK
<1>4. fd'[c] \in Fds /\ fd'[c] > 0
  <2>1. fd'[c] \in Fds
    BY <1>3
  <2>2. fd'[c] \in Nat \ {0}
    BY <2>1, FdsAssumption, Zenon
  <2> QED
    BY <2>1, <2>2
<1>5. 1 \in 1 .. Len(backlog)
  BY <1>2
<1>6. fd[c] = 0 /\ peer[c] # "absent"
  BY <1>2, <1>5 DEF Inv, ConnectionInv, QueuedUnserved
<1>7. peer' = peer
  BY DEF Accept
<1> QED
  BY <1>1, <1>2, <1>3, <1>4, <1>6, <1>7

\* Every step of the server keeps connections and descriptors in agreement.
LEMMA ServerConnections ==
  ASSUME Inv, Server PROVE ConnectionInv'
<1> USE DEF Inv, ConnectionInv
<1>1. \A k \in 1 .. Len(backlog) : backlog[k] \in Clients
  BY DEF TypeOK, NetTypeOK
<1>2. CASE UNCHANGED <<peer, backlog, fd>>
  BY <1>2 DEF QueuedUnserved, FdsDistinct, AbsentUnserved
<1>3. CASE Accept
  <2>1. PICK c \in Clients :
           /\ backlog \in Seq(Clients) /\ backlog # <<>> /\ c = backlog[1]
           /\ backlog' = Tail(backlog)
           /\ fd[c] = 0 /\ peer[c] # "absent" /\ peer' = peer
           /\ \A d \in Clients \ {c} : fd'[d] = fd[d] /\ fd[d] # fd'[c]
    BY <1>3, AcceptStep
  <2>2. \A k \in 1 .. Len(backlog') :
          backlog'[k] = backlog[k + 1] /\ k + 1 \in 1 .. Len(backlog)
    BY <2>1
  <2>3. \A k \in 1 .. Len(backlog') : backlog'[k] \in Clients \ {c}
    BY <1>1, <2>1, <2>2 DEF QueuedUnserved
  <2>4. QueuedUnserved'
    BY <2>1, <2>2, <2>3 DEF QueuedUnserved
  <2>5. FdsDistinct' /\ AbsentUnserved'
    BY <2>1 DEF FdsDistinct, AbsentUnserved
  <2> QED
    BY <2>4, <2>5
<1>4. CASE ReceiveEnd
  <2>1. /\ Reading \in Clients /\ fd[Reading] # 0
        /\ fd' = [fd EXCEPT ![Reading] = 0] /\ peer' = [peer EXCEPT ![Reading] = "gone"]
        /\ backlog' = backlog
    BY <1>4, ReadEntry DEF ReceiveEnd, NetClose
  <2> HIDE DEF Reading
  <2>2. \A d \in Clients : /\ fd'[d] = IF d = Reading THEN 0 ELSE fd[d]
                           /\ peer'[d] = IF d = Reading THEN "gone" ELSE peer[d]
    BY <2>1 DEF TypeOK, NetTypeOK
  <2> QED
    BY <1>1, <2>1, <2>2 DEF QueuedUnserved, FdsDistinct, AbsentUnserved
<1>5. CASE /\ UNCHANGED <<backlog, fd>>
           /\ \A d \in Clients : peer'[d] = peer[d] \/ (peer[d] \in Departed /\ peer'[d] \in Departed)
  BY <1>1, <1>5 DEF QueuedUnserved, FdsDistinct, AbsentUnserved, Departed
<1> QED
  BY <1>2, <1>3, <1>4, <1>5, ConnectionSteps

\* What a step of a client does to its connection, and that it does nothing else.
LEMMA ClientStep ==
  ASSUME Inv, NEW c \in Clients, Client(c)
  PROVE  /\ UNCHANGED <<serverVars, fd>>
         /\ \/ /\ peer[c] = "absent" /\ peer' = [peer EXCEPT ![c] = "here"]
               /\ backlog' = Append(backlog, c) /\ up' = up
            \/ /\ backlog' = backlog
               /\ \A d \in Clients : up'[d] = up[d] \/ (up'[d] # <<>> /\ up[d] \in Seq(Units))
               /\ \A d \in Clients :
                    \/ peer'[d] = peer[d]
                    \/ peer[d] = "here" /\ peer'[d] \in Departed
                    \/ peer[d] = "here" /\ peer'[d] = "gone" /\ pc = "dead"
<1> USE DEF Inv, TypeOK, NetTypeOK
<1>1. CASE ClientConnect(c)
  BY <1>1 DEF ClientConnect, NetConnect, serverVars
<1>2. CASE \E typed \in BOOLEAN : ClientTurn(c, typed)
  BY <1>2 DEF ClientTurn, NetClientRecv, serverVars, netVars
<1>3. CASE ClientSend(c)
  <2>1. up' = [up EXCEPT ![c] = Append(@, <<c, written[c] + 1>>)]
    BY <1>3 DEF ClientSend, NetClientSend
  <2>2. up[c] \in Seq(Units) /\ written[c] + 1 \in 1 .. MaxUnits
    BY <1>3, BoundsAssumption DEF ClientSend, NetClientSend
  <2>3. <<c, written[c] + 1>> \in Units
    BY <2>2 DEF Units
  <2> HIDE DEF Units
  <2>4. Append(up[c], <<c, written[c] + 1>>) # <<>>
    BY <2>2, <2>3, AppendedNotEmpty
  <2> QED
    BY <1>3, <2>1, <2>4 DEF ClientSend, NetClientSend, serverVars
<1>4. CASE ClientKilled(c)
  BY <1>4 DEF ClientKilled, NetClientClose, serverVars, Departed
<1>5. CASE ClientExits(c)
  BY <1>5 DEF ClientExits, Alive, serverVars
<1> QED
  BY <1>1, <1>2, <1>3, <1>4, <1>5 DEF Client

\* So does every step of a client keep them.
LEMMA ClientConnections ==
  ASSUME Inv, NEW c \in Clients, Client(c) PROVE ConnectionInv'
<1> USE DEF Inv, ConnectionInv
<1>1. backlog \in Seq(Clients) /\ \A k \in 1 .. Len(backlog) : backlog[k] \in Clients
  BY DEF TypeOK, NetTypeOK
<1>2. fd' = fd
  BY ClientStep
<1>3. CASE peer[c] = "absent" /\ peer' = [peer EXCEPT ![c] = "here"] /\ backlog' = Append(backlog, c)
  <2>1. fd[c] = 0
    BY <1>3 DEF AbsentUnserved
  <2>2. \A k \in 1 .. Len(backlog) : backlog[k] \in Clients \ {c}
    BY <1>1, <1>3 DEF QueuedUnserved
  <2>3. \A k \in 1 .. Len(backlog') :
          \/ k \in 1 .. Len(backlog) /\ backlog'[k] = backlog[k]
          \/ k = Len(backlog) + 1 /\ backlog'[k] = c
    BY <1>1, <1>3
  <2>4. peer'[c] = "here" /\ \A d \in Clients \ {c} : peer'[d] = peer[d]
    BY <1>3 DEF TypeOK, NetTypeOK
  <2>5. QueuedUnserved'
    BY <1>2, <2>1, <2>2, <2>3, <2>4 DEF QueuedUnserved
  <2>6. FdsDistinct' /\ AbsentUnserved'
    BY <1>2, <2>4 DEF FdsDistinct, AbsentUnserved
  <2> QED
    BY <2>5, <2>6
<1>4. CASE backlog' = backlog /\ \A d \in Clients :
             \/ peer'[d] = peer[d]
             \/ peer[d] = "here" /\ peer'[d] \in Departed
             \/ peer[d] = "here" /\ peer'[d] = "gone"
  BY <1>1, <1>2, <1>4 DEF QueuedUnserved, FdsDistinct, AbsentUnserved, Departed
<1> QED
  BY <1>3, <1>4, ClientStep

-----------------------------------------------------------------------------
(* The table *)

\* A table that is left alone stays consistent while nobody's descriptor changes.
LEMMA SameTable ==
  ASSUME TableConsistent, UNCHANGED <<clients, fd>> PROVE TableConsistent'
BY DEF TableConsistent, OpenFds

\* Every step of the server keeps the table consistent.
LEMMA ServerTable ==
  ASSUME Inv, Server PROVE TableConsistent'
<1> USE DEF Inv
<1>1. CASE Accept
  <2>1. PICK c \in Clients :
           /\ fd[c] = 0 /\ fd'[c] \in Fds /\ fd'[c] > 0
           /\ \A d \in Clients \ {c} : fd'[d] = fd[d] /\ fd[d] # fd'[c]
           /\ clients' = Stored(fd'[c])
    BY <1>1, AcceptStep
  <2>2. OpenFds \subseteq OpenFds' /\ fd'[c] \in OpenFds' /\ fd'[c] \notin OpenFds
    BY <2>1, FdsAssumption DEF OpenFds
  <2>3. CASE clients' = clients
    BY <2>2, <2>3 DEF TableConsistent
  <2>4. CASE \E k \in Slots : clients[k] = 0 /\ clients' = [clients EXCEPT ![k] = fd'[c]]
    <3>1. PICK k \in Slots : clients[k] = 0 /\ clients' = [clients EXCEPT ![k] = fd'[c]]
      BY <2>4
    <3>2. \A i \in Slots : clients'[i] = IF i = k THEN fd'[c] ELSE clients[i]
      BY <3>1 DEF TypeOK
    <3>3. \A i \in Slots : clients[i] > 0 => clients[i] # fd'[c]
      BY <2>2 DEF TableConsistent
    <3>4. \A i \in Slots : clients'[i] > 0 => clients'[i] \in OpenFds'
      BY <2>2, <3>2 DEF TableConsistent
    <3>5. \A i, j \in Slots : i # j /\ clients'[i] > 0 => clients'[i] # clients'[j]
      BY <2>1, <3>2, <3>3 DEF TableConsistent
    <3> QED
      BY <3>4, <3>5 DEF TableConsistent
  <2> QED
    BY <2>1, <2>3, <2>4, StoredEntry
<1>2. CASE AcceptFails
  <2>1. fd' = fd /\ clients' = Stored(AcceptError)
    BY <1>2 DEF AcceptFails, netVars
  <2>2. CASE clients' = clients
    BY <2>1, <2>2, SameTable
  <2>3. CASE \E k \in Slots : clients[k] = 0 /\ clients' = [clients EXCEPT ![k] = AcceptError]
    <3>1. PICK k \in Slots : clients[k] = 0 /\ clients' = [clients EXCEPT ![k] = AcceptError]
      BY <2>3
    <3>2. \A i \in Slots : clients'[i] = IF i = k THEN -1 ELSE clients[i]
      BY <3>1 DEF TypeOK, AcceptError
    <3>3. OpenFds' = OpenFds
      BY <2>1 DEF OpenFds
    <3> QED
      BY <3>2, <3>3 DEF TableConsistent
  <2> QED
    BY <2>1, <2>2, <2>3, StoredEntry
<1>3. CASE ReceiveEnd
  <2> DEFINE m == Min(ToRead)
  <2>1. /\ m \in Slots /\ clients[m] > 0
        /\ Reading \in Clients /\ fd[Reading] = clients[m]
        /\ fd' = [fd EXCEPT ![Reading] = 0]
        /\ clients' = [clients EXCEPT ![m] = 0]
    BY <1>3, ReadEntry DEF ReceiveEnd, NetClose, Forgotten
  <2> HIDE DEF m, Reading
  <2>2. \A i \in Slots : clients'[i] = IF i = m THEN 0 ELSE clients[i]
    BY <2>1 DEF TypeOK
  <2>3. \A f \in OpenFds : f # clients[m] => f \in OpenFds'
    BY <2>1 DEF OpenFds, TypeOK, NetTypeOK
  <2>4. \A i \in Slots : clients'[i] > 0 => clients'[i] \in OpenFds'
    BY <2>1, <2>2, <2>3 DEF TableConsistent
  <2> QED
    BY <2>2, <2>4 DEF TableConsistent
<1>4. CASE ~Accept /\ ~AcceptFails /\ ~ReceiveEnd
  BY <1>4, SameTable DEF Server, Select, NothingToAccept, Receive, ScanDone, BroadcastSend,
              BroadcastSendLost, BroadcastDies, BroadcastDone, netVars
<1> QED
  BY <1>1, <1>2, <1>3, <1>4

-----------------------------------------------------------------------------
(* What select() reported *)

\* An entry that is left alone still has something to read after a step if its
\* owner keeps its descriptor and what it had to read.
LEMMA StillReadable ==
  ASSUME Inv, FdsDistinct', NEW i \in Slots, clients[i] > 0, clients'[i] = clients[i],
         NEW d \in Clients, d = OwnerOf(clients[i]), fd'[d] = fd[d], Readable(d)'
  PROVE  Readable(OwnerOf(clients[i]))'
<1>1. fd'[d] = clients'[i] /\ fd'[d] # 0
  BY OwnerOfEntry DEF Inv
<1>2. OwnerOf(clients[i])' = d
  BY <1>1 DEF FdsDistinct, OwnerOf
<1> QED
  BY <1>1, <1>2

\* The entry that is read from, and what the others that are ahead keep.
LEMMA OthersStillReadable ==
  ASSUME Inv, FdsDistinct', NEW i \in Slots, Ahead(i),
         clients[i] > 0, clients[i] \in readfds, clients'[i] = clients[i],
         \A d \in Clients : fd[d] = clients[i] =>
           /\ fd'[d] = fd[d]
           /\ up[d] # <<>> => up'[d] # <<>>
           /\ peer[d] \in Departed => peer'[d] \in Departed
  PROVE  Readable(OwnerOf(clients[i]))'
<1>1. PICK d \in Clients : d = OwnerOf(clients[i]) /\ fd[d] = clients[i]
  BY OwnerOfEntry DEF Inv
<1>2. Readable(d)
  BY <1>1 DEF Inv, TurnInv, ReportedReadable
<1>3. Readable(d)'
  BY <1>1, <1>2 DEF Readable
<1> QED
  BY <1>1, <1>3, StillReadable

\* Every step of the server keeps the report of select() true for what is ahead.
LEMMA ServerTurn ==
  ASSUME Inv, ConnectionInv', Server PROVE TurnInv'
<1> USE DEF Inv, TurnInv
<1>0. FdsDistinct'
  BY DEF ConnectionInv
<1>1. CASE Select
  <2>1. /\ readfds' = Ready /\ pc' = "accept"
        /\ UNCHANGED <<peer, backlog, fd, up, clients>>
    BY <1>1 DEF Select, netVars
  <2>2. \A f \in Ready :
          \/ f = server_sock /\ backlog # <<>>
          \/ \E i \in Slots : f = clients[i] /\ f > 0 /\ f # server_sock /\ Readable(OwnerOf(f))
    BY ListenerAssumption DEF Ready, ToSet, TypeOK, AcceptError
  <2>3. OpenFds' = OpenFds
    BY <2>1 DEF OpenFds
  <2>4. ReportedOpen' /\ QueueReported'
    BY <2>1, <2>2, <2>3 DEF ReportedOpen, QueueReported, TableConsistent
  <2>5. ASSUME NEW i \in Slots, clients[i] > 0, clients[i] \in Ready
        PROVE  Readable(OwnerOf(clients[i]))
    <3>1. clients[i] # server_sock
      BY <2>5, ListenerAssumption DEF TypeOK, AcceptError
    <3> QED
      BY <2>2, <2>5, <3>1
  <2>6. ReportedReadable'
    <3>1. ASSUME NEW i \in Slots, clients[i] > 0, Readable(OwnerOf(clients[i]))
          PROVE  Readable(OwnerOf(clients[i]))'
      BY <2>1, <3>1 DEF Readable, OwnerOf
    <3> QED
      BY <2>1, <2>5, <3>1 DEF ReportedReadable
  <2> QED
    BY <2>1, <2>4, <2>6 DEF SenderListed
<1>2. CASE Accept
  <2>1. PICK c \in Clients :
           /\ fd[c] = 0 /\ peer' = peer /\ fd'[c] \in Fds /\ fd'[c] > 0
           /\ \A d \in Clients \ {c} : fd'[d] = fd[d] /\ fd[d] # fd'[c]
           /\ clients' = Stored(fd'[c])
    BY <1>2, AcceptStep
  <2>2. pc = "accept" /\ pc' = "scan" /\ up' = up /\ readfds' = readfds
    BY <1>2 DEF Accept
  <2>3. fd'[c] \notin readfds
    BY <2>1, <2>2, ListenerAssumption DEF ReportedOpen, OpenFds
  <2>4. ASSUME NEW i \in Slots, clients'[i] > 0, clients'[i] \in readfds
        PROVE  Readable(OwnerOf(clients[i]))'
    <3>1. clients'[i] = clients[i]
      BY <2>1, <2>3, <2>4, StoredEntry DEF TypeOK
    <3>2. Ahead(i)
      BY <2>2 DEF Ahead
    <3> QED
      BY <1>0, <2>1, <2>2, <2>4, <3>1, <3>2, OthersStillReadable
  <2>5. ReportedReadable'
    BY <2>2, <2>4 DEF ReportedReadable
  <2> QED
    BY <2>2, <2>5 DEF ReportedOpen, QueueReported, SenderListed
<1>3. CASE AcceptFails
  <2>1. /\ pc = "accept" /\ pc' = "scan" /\ clients' = Stored(AcceptError)
        /\ UNCHANGED <<peer, fd, up, readfds>>
    BY <1>3 DEF AcceptFails, netVars
  <2>2. ASSUME NEW i \in Slots, clients'[i] > 0, clients'[i] \in readfds
        PROVE  Readable(OwnerOf(clients[i]))'
    <3>1. clients'[i] = clients[i]
      BY <2>1, <2>2, StoredEntry DEF TypeOK, AcceptError
    <3>2. Ahead(i)
      BY <2>1 DEF Ahead
    <3> QED
      BY <1>0, <2>1, <2>2, <3>1, <3>2, OthersStillReadable
  <2>3. ReportedReadable'
    BY <2>1, <2>2 DEF ReportedReadable
  <2> QED
    BY <2>1, <2>3 DEF ReportedOpen, QueueReported, SenderListed
<1>4. CASE NothingToAccept \/ BroadcastDone
  <2>1. /\ UNCHANGED <<peer, fd, up, readfds, clients>> /\ pc' = "scan"
        /\ pc = "accept" \/ (pc = "send" /\ slot' = slot + 1)
    BY <1>4 DEF NothingToAccept, BroadcastDone, After, netVars
  <2>2. ASSUME NEW i \in Slots, clients[i] > 0, clients[i] \in readfds, Ahead(i)'
        PROVE  Readable(OwnerOf(clients[i]))'
    <3>1. Ahead(i)
      BY <2>1, <2>2 DEF Ahead, Slots, TypeOK
    <3> QED
      BY <1>0, <2>1, <2>2, <3>1, OthersStillReadable
  <2>3. ReportedReadable'
    BY <2>1, <2>2 DEF ReportedReadable
  <2> QED
    BY <2>1, <2>3 DEF ReportedOpen, QueueReported, SenderListed
<1>5. CASE Receive
  <2> DEFINE m == Min(ToRead)
  <2>1. /\ m \in Slots /\ m >= slot
        /\ Reading \in Clients /\ fd[Reading] = clients[m] /\ clients[m] > 0
    BY <1>5, ReadEntry DEF Receive
  <2>2. /\ pc = "scan" /\ pc' = "send" /\ slot' = m
        /\ UNCHANGED <<peer, fd, readfds, clients>>
    BY <1>5 DEF Receive
  <2>3. \A d \in Clients \ {Reading} : up'[d] = up[d]
    BY <1>5 DEF Receive, NetRecv, TypeOK, NetTypeOK
  <2> HIDE DEF m, Reading
  <2>4. ASSUME NEW i \in Slots, clients[i] > 0, clients[i] \in readfds, i > m
        PROVE  Readable(OwnerOf(clients[i]))'
    <3>1. Ahead(i)
      BY <2>1, <2>2, <2>4 DEF Ahead, Slots, TypeOK
    <3>2. clients[i] # clients[m]
      BY <2>1, <2>4 DEF TableConsistent, Slots
    <3> QED
      BY <1>0, <2>1, <2>2, <2>3, <2>4, <3>1, <3>2, OthersStillReadable
  <2>5. ReportedReadable'
    BY <2>2, <2>4 DEF ReportedReadable, Ahead
  <2> QED
    BY <2>1, <2>2, <2>5 DEF ReportedOpen, QueueReported, SenderListed
<1>6. CASE ReceiveEnd
  <2> DEFINE m == Min(ToRead)
  <2>1. /\ m \in Slots /\ m >= slot
        /\ Reading \in Clients /\ fd[Reading] = clients[m] /\ clients[m] > 0
    BY <1>6, ReadEntry DEF ReceiveEnd
  <2>2. /\ pc = "scan" /\ pc' = "scan" /\ slot' = m + 1
        /\ clients' = [clients EXCEPT ![m] = 0]
        /\ UNCHANGED <<up, readfds>>
    BY <1>6 DEF ReceiveEnd, Forgotten, After
  <2>3. \A d \in Clients \ {Reading} : fd'[d] = fd[d] /\ peer'[d] = peer[d]
    BY <1>6 DEF ReceiveEnd, NetClose, TypeOK, NetTypeOK
  <2> HIDE DEF m, Reading
  <2>4. ASSUME NEW i \in Slots, clients'[i] > 0, clients'[i] \in readfds, i >= m + 1
        PROVE  Readable(OwnerOf(clients[i]))'
    <3>1. Ahead(i) /\ i # m /\ clients'[i] = clients[i]
      BY <2>1, <2>2, <2>4 DEF Ahead, Slots, TypeOK
    <3>2. clients[i] # clients[m]
      BY <2>1, <2>4, <3>1 DEF TableConsistent
    <3> QED
      BY <1>0, <2>1, <2>2, <2>3, <2>4, <3>1, <3>2, OthersStillReadable
  <2>5. ReportedReadable'
    BY <2>2, <2>4 DEF ReportedReadable, Ahead
  <2> QED
    BY <2>2, <2>5 DEF ReportedOpen, QueueReported, SenderListed
<1>7. CASE BroadcastSend \/ BroadcastSendLost
  <2>1. /\ pc = "send" /\ UNCHANGED <<pc, slot, up, fd, readfds, clients>>
        /\ \A d \in Clients : peer[d] \in Departed => peer'[d] \in Departed
    BY <1>7 DEF BroadcastSend, BroadcastSendLost, NetSend, TypeOK, NetTypeOK, Departed
  <2>2. ASSUME NEW i \in Slots, clients[i] > 0, clients[i] \in readfds, Ahead(i)
        PROVE  Readable(OwnerOf(clients[i]))'
    BY <1>0, <2>1, <2>2, OthersStillReadable
  <2>3. ReportedReadable'
    BY <2>1, <2>2 DEF ReportedReadable, Ahead
  <2> QED
    BY <2>1, <2>3 DEF ReportedOpen, QueueReported, SenderListed
<1>8. CASE ScanDone \/ BroadcastDies
  BY <1>8 DEF ScanDone, BroadcastDies, ReportedOpen, QueueReported, ReportedReadable, Ahead,
              SenderListed
<1> QED
  BY <1>1, <1>2, <1>3, <1>4, <1>5, <1>6, <1>7, <1>8 DEF Server

\* A client takes nothing away that was reported: what it wrote stays readable, and
\* so does its end.
LEMMA ClientTurns ==
  ASSUME Inv, ConnectionInv', NEW c \in Clients, Client(c) PROVE TurnInv'
<1> USE DEF Inv, TurnInv
<1>1. UNCHANGED <<clients, readfds, pc, slot, fd>>
  BY ClientStep DEF serverVars
<1>2. \A d \in Clients : up[d] # <<>> => up'[d] # <<>>
  BY ClientStep
<1>3. \A d \in Clients : peer[d] \in Departed => peer'[d] \in Departed
  BY ClientStep DEF Departed, TypeOK, NetTypeOK
<1>4. backlog # <<>> => backlog' # <<>>
  <2>1. backlog \in Seq(Clients)
    BY DEF TypeOK, NetTypeOK
  <2>2. Append(backlog, c) # <<>>
    BY <2>1, AppendedNotEmpty
  <2>3. backlog' = backlog \/ backlog' = Append(backlog, c)
    BY ClientStep
  <2> QED
    BY <2>2, <2>3
<1>5. ReportedOpen' /\ QueueReported' /\ SenderListed'
  BY <1>1, <1>4 DEF ReportedOpen, QueueReported, SenderListed, OpenFds
<1>6. ASSUME NEW i \in Slots, clients[i] > 0, clients[i] \in readfds, Ahead(i)
      PROVE  Readable(OwnerOf(clients[i]))'
  BY <1>1, <1>2, <1>3, <1>6, OthersStillReadable DEF ConnectionInv
<1>7. ReportedReadable'
  BY <1>1, <1>6 DEF ReportedReadable, Ahead
<1> QED
  BY <1>5, <1>7

-----------------------------------------------------------------------------
\* The invariant is inductive.
LEMMA NextInv ==
  ASSUME Inv, [Next]_vars PROVE Inv'
<1>1. CASE Server
  BY <1>1, ServerTypes, ServerConnections, ServerTable, ServerTurn DEF Inv
<1>2. ASSUME NEW c \in Clients, Client(c) PROVE Inv'
  <2>1. ConnectionInv' /\ TypeOK'
    BY <1>2, ClientConnections, ClientTypes DEF Inv
  <2>2. TableConsistent'
    BY <1>2, ClientStep, SameTable DEF Inv, serverVars
  <2> QED
    BY <1>2, <2>1, <2>2, ClientTurns DEF Inv
<1>3. CASE UNCHANGED vars
  BY <1>3 DEF vars, netVars, serverVars, Inv, TypeOK, NetTypeOK, ConnectionInv, QueuedUnserved,
       FdsDistinct, AbsentUnserved, TableConsistent, OpenFds, TurnInv, ReportedOpen,
       QueueReported, ReportedReadable, Ahead, Readable, OwnerOf, SenderListed
<1> QED
  BY <1>1, <1>2, <1>3 DEF Next

\* The inductive invariant holds in every reachable state.
THEOREM InvHolds == Spec => []Inv
<1>1. Inv /\ [Next]_vars => Inv'
  BY NextInv
<1> QED
  BY InitInv, <1>1, PTL DEF Spec

\* Every variable keeps its type, whatever the clients do.
THEOREM TypeCorrect == Spec => []TypeOK
<1>1. Inv => TypeOK
  BY DEF Inv
<1> QED
  BY InvHolds, <1>1, PTL

\* The table holds open descriptors, each once: nobody is sent a text twice, and no
\* newcomer inherits the entry of the client that had its descriptor.
THEOREM TableIsConsistent == Spec => []TableConsistent
<1>1. Inv => TableConsistent
  BY DEF Inv
<1> QED
  BY InvHolds, <1>1, PTL

\* The server's only thread is never stuck in accept() or recv(): what select()
\* reported is still true when its turn comes.
THEOREM ReadsWithoutBlocking == Spec => []NeverBlocksReading
<1>1. Inv => NeverBlocksReading
  <2> SUFFICES ASSUME Inv PROVE NeverBlocksReading
    OBVIOUS
  <2>1. ASSUME pc = "scan", ToRead # {} PROVE Readable(Reading)
    <3>1. /\ Min(ToRead) \in Slots /\ Min(ToRead) >= slot
          /\ clients[Min(ToRead)] > 0 /\ clients[Min(ToRead)] \in readfds
      BY <2>1, ReadEntry DEF Inv
    <3>2. Ahead(Min(ToRead))
      BY <2>1, <3>1 DEF Ahead
    <3> QED
      BY <3>1, <3>2 DEF Inv, TurnInv, ReportedReadable, Reading
  <2> QED
    BY <2>1 DEF NeverBlocksReading, Inv, TurnInv, QueueReported
<1> QED
  BY InvHolds, <1>1, PTL

-----------------------------------------------------------------------------
(***************************************************************************)
(* SelectChat implements ChatRoom.  What the mapping needs besides Inv:    *)
(* which part of each client's text is where, and whose text is broadcast. *)
(***************************************************************************)

\* What is broadcast is not empty, and has an author whose entry is used.
PostHasAuthor == pc = "send" => msg # <<>> /\ slot \in Slots /\ clients[slot] > 0

RefInv == Inv /\ WaitingIsEnd /\ PostHasAuthor

\* The empty server has nothing on its way.
LEMMA InitRefInv == Init => RefInv
<1>1. Init => WaitingIsEnd /\ PostHasAuthor
  BY DEF Init, NetInit, WaitingIsEnd, Taken, PostHasAuthor
<1> QED
  BY <1>1, InitInv DEF RefInv

\* What recv() returned, and from whom.
LEMMA ReceivedText ==
  ASSUME RefInv, Receive
  PROVE  \E c \in Clients, n \in 1 .. RecvMax :
           /\ c = Reading
           /\ WaitingIsEnd'
           /\ Taken(c)' = Taken(c) + n
           /\ \A d \in Clients \ {c} : Taken(d)' = Taken(d)
           /\ msg' \in Seq(Units) /\ Len(msg') = n
           /\ \A k \in 1 .. n : msg'[k] = <<c, Taken(c) + k>>
<1>1. PICK c \in Clients : c = Reading
  BY ReadEntry DEF Receive, RefInv, Inv
<1>2. PICK n \in 1 .. RecvMax : NetRecv(c, n) /\ msg' = SubSeq(up[c], 1, n)
  BY <1>1 DEF Receive
<1>3. NetTypeOK(Units) /\ WaitingIsEnd /\ written' = written
  BY DEF RefInv, Inv, TypeOK, Receive
<1>4. /\ WaitingIsEnd'
      /\ Taken(c)' = Taken(c) + n
      /\ \A d \in Clients \ {c} : Taken(d)' = Taken(d)
      /\ msg' \in Seq(Units) /\ Len(msg') = n
      /\ \A k \in 1 .. n : msg'[k] = <<c, Taken(c) + k>>
  BY <1>2, <1>3, ReceivingTakesNext
<1> QED
  BY <1>1, <1>4

\* Every step keeps both invariants.
LEMMA NextRefInv == RefInv /\ [Next]_vars => RefInv'
<1> SUFFICES ASSUME RefInv, [Next]_vars PROVE WaitingIsEnd' /\ PostHasAuthor'
  BY NextInv DEF RefInv
<1> USE DEF RefInv, Inv
<1>1. ASSUME UNCHANGED <<written, up>> PROVE WaitingIsEnd'
  BY <1>1 DEF WaitingIsEnd, Taken
<1>2. CASE Receive
  <2>1. WaitingIsEnd' /\ msg' # <<>>
    <3>1. PICK n \in 1 .. RecvMax : WaitingIsEnd' /\ msg' \in Seq(Units) /\ Len(msg') = n
      BY <1>2, ReceivedText
    <3>2. n # 0
      BY BoundsAssumption
    <3> QED
      BY <3>1, <3>2
  <2>2. slot' \in Slots /\ clients'[slot'] > 0
    BY <1>2, ReadEntry DEF Receive
  <2> QED
    BY <2>1, <2>2 DEF PostHasAuthor
<1>3. CASE Server /\ ~ Receive
  <2>1. UNCHANGED <<written, up>>
    BY <1>3 DEF Server, Select, Accept, AcceptFails, NothingToAccept, ReceiveEnd, ScanDone,
       BroadcastSend, BroadcastSendLost, BroadcastDies, BroadcastDone, netVars
  <2>2. \/ pc' # "send"
        \/ UNCHANGED <<pc, msg, slot, clients>>
    BY <1>3 DEF Server, Select, Accept, AcceptFails, NothingToAccept, ReceiveEnd, ScanDone,
       BroadcastSend, BroadcastSendLost, BroadcastDies, BroadcastDone
  <2> QED
    BY <1>1, <2>1, <2>2 DEF PostHasAuthor
<1>4. ASSUME NEW c \in Clients, Client(c) PROVE WaitingIsEnd' /\ PostHasAuthor'
  <2>1. PostHasAuthor'
    BY <1>4, ClientStep DEF serverVars, PostHasAuthor
  <2>2. CASE ClientSend(c)
    BY <2>1, <2>2, SendingKeepsWaiting DEF ClientSend, TypeOK
  <2>3. CASE ~ ClientSend(c)
    <3>1. UNCHANGED <<written, up>>
      BY <1>4, <2>3 DEF Client, ClientConnect, ClientTurn, ClientKilled, ClientExits,
         NetConnect, NetClientRecv, NetClientClose, netVars
    <3> QED
      BY <1>1, <2>1, <3>1
  <2> QED
    BY <2>2, <2>3
<1>5. CASE UNCHANGED vars
  BY <1>1, <1>5 DEF vars, netVars, serverVars, PostHasAuthor
<1> QED
  BY <1>2, <1>3, <1>4, <1>5 DEF Next

-----------------------------------------------------------------------------
(* What the mapped variables are in a state of the server. *)

\* The members are the clients whose descriptor is in an entry.
MembersHaveEntries ==
    Members = {c \in Clients : fd[c] # 0 /\ \E i \in Slots : clients[i] = fd[c]}

\* Those who still get the post at hand are the clients of the entries ahead.
AwaitingAhead ==
    Awaiting = {d \in Clients : pc = "send" /\ \E i \in Targets : clients[i] = fd[d]}

\* Between posts the room is silent.
SilentBetweenPosts ==
    pc # "send" => Awaiting = {} /\ PostAtHand = Room!NoPost /\ Inbox = relayed

\* The author of the post at hand is the client of the entry the scan has reached.
AuthorKnown ==
    pc = "send" => Author \in Clients /\ fd[Author] = clients[slot] /\ clients[slot] > 0

\* An open descriptor has one owner.
LEMMA OwnerIsOnly ==
  ASSUME Inv, NEW c \in Clients, fd[c] # 0 PROVE OwnerOf(fd[c]) = c
BY DEF Inv, ConnectionInv, FdsDistinct, OwnerOf

\* The mapping in terms of descriptors and entries.
LEMMA MappedState ==
  RefInv => MembersHaveEntries /\ AwaitingAhead /\ SilentBetweenPosts /\ AuthorKnown
<1> SUFFICES ASSUME RefInv
             PROVE  MembersHaveEntries /\ AwaitingAhead /\ SilentBetweenPosts /\ AuthorKnown
  OBVIOUS
<1> USE DEF RefInv, Inv
<1>1. MembersHaveEntries
  BY DEF MembersHaveEntries, Members, ToSet, TypeOK
<1>2. AwaitingAhead
  <2>1. \A i \in Targets : /\ OwnerOf(clients[i]) \in Clients
                           /\ fd[OwnerOf(clients[i])] = clients[i]
                           /\ clients[i] # 0
    BY OwnerOfEntry DEF Targets
  <2>2. \A i \in Targets : \A d \in Clients :
          fd[d] = clients[i] => OwnerOf(clients[i]) = d
    <3>1. \A d \in Clients : fd[d] # 0 => OwnerOf(fd[d]) = d
      BY OwnerIsOnly
    <3> QED
      BY <2>1, <3>1
  <2> QED
    BY <2>1, <2>2 DEF AwaitingAhead, Awaiting
<1>3. SilentBetweenPosts
  <2>1. ASSUME pc # "send" PROVE Awaiting = {} /\ PostAtHand = Room!NoPost
    BY <2>1 DEF Awaiting, PostAtHand, Room!NoPost
  <2>2. ASSUME pc # "send" PROVE Inbox = relayed
    BY <2>1, <2>2 DEF Inbox, TypeOK, NetTypeOK
  <2> QED
    BY <2>1, <2>2 DEF SilentBetweenPosts
<1>4. AuthorKnown
  BY OwnerOfEntry DEF AuthorKnown, Author, PostHasAuthor
<1> QED
  BY <1>1, <1>2, <1>3, <1>4

\* The same of the next state.
LEMMA MappedNextState ==
  RefInv' => MembersHaveEntries' /\ AwaitingAhead' /\ SilentBetweenPosts' /\ AuthorKnown'
BY MappedState, PTL

\* A step that changes none of the mapped variables.
LEMMA SameRoom ==
  ASSUME Alive' = Alive, Entered' = Entered, Members' = Members, Seats' = Seats,
         Posted' = Posted, PostAtHand' = PostAtHand, Inbox' = Inbox
  PROVE  UNCHANGED Room!roomVars
BY DEF Room!roomVars

\* A step that changes neither table nor descriptors nor deliveries, and begins or
\* ends no post, leaves everything but the clients' texts and comings alone.
LEMMA SameDelivery ==
  ASSUME UNCHANGED <<clients, fd, next, slot, msg, relayed>>,
         pc' = pc \/ (pc \notin {"send", "dead"} /\ pc' \notin {"send", "dead"})
  PROVE  /\ Alive' = Alive /\ Members' = Members /\ Seats' = Seats
         /\ PostAtHand' = PostAtHand /\ Inbox' = Inbox
<1>1. Members' = Members
  BY DEF Members
<1>2. Alive' = Alive /\ Seats' = Seats
  BY DEF Alive, Seats
<1>3. Awaiting' = Awaiting
  BY DEF Awaiting, Targets, OwnerOf
<1>4. PostAtHand' = PostAtHand
  BY <1>1 DEF PostAtHand, Author, OwnerOf
<1>5. Inbox' = Inbox
  BY <1>3 DEF Inbox
<1> QED
  BY <1>1, <1>2, <1>4, <1>5

-----------------------------------------------------------------------------
(* The steps that the room does not see. *)

\* Who is in a queue to which one was added.
LEMMA AppendedSet ==
  ASSUME NEW S, NEW s \in Seq(S), NEW e \in S
  PROVE  ToSet(Append(s, e)) = ToSet(s) \union {e}
<1>1. /\ DOMAIN s = 1 .. Len(s) /\ Len(s) \in Nat
      /\ DOMAIN Append(s, e) = 1 .. Len(s) + 1
      /\ \A k \in 1 .. Len(s) : Append(s, e)[k] = s[k]
      /\ Append(s, e)[Len(s) + 1] = e
  OBVIOUS
<1>2. \A k \in 1 .. Len(s) + 1 : k \in 1 .. Len(s) \/ k = Len(s) + 1
  BY <1>1
<1>3. 1 .. Len(s) \subseteq 1 .. Len(s) + 1 /\ Len(s) + 1 \in 1 .. Len(s) + 1
  BY <1>1
<1> QED
  BY <1>1, <1>2, <1>3 DEF ToSet

\* A queue to which one was added is another one.
LEMMA AppendedNotSame ==
  ASSUME NEW S, NEW s \in Seq(S), NEW e \in S PROVE Append(s, e) # s
<1>1. Len(Append(s, e)) = Len(s) + 1 /\ Len(s) \in Nat
  OBVIOUS
<1> QED
  BY <1>1

\* What a client does alone.  Who connects is not in the room before accept().
LEMMA ClientStutters ==
  ASSUME RefInv, NEW c \in Clients, Client(c)
  PROVE  UNCHANGED Room!roomVars
<1> USE DEF RefInv, Inv
<1>1. UNCHANGED <<clients, fd, next, slot, msg, pc>>
  BY ClientStep DEF serverVars
<1>2. relayed' = relayed
  BY DEF Client, ClientConnect, ClientTurn, ClientSend, ClientKilled, ClientExits,
     NetConnect, NetClientSend, NetClientRecv, NetClientClose, netVars
<1>3. Posted' = Posted
  <2>1. \A d \in Clients : Taken(d)' = Taken(d)
    <3>1. CASE ClientSend(c)
      BY <3>1, SendingKeepsWaiting DEF ClientSend, TypeOK
    <3>2. CASE ~ ClientSend(c)
      BY <3>2 DEF Client, ClientConnect, ClientTurn, ClientKilled, ClientExits,
         NetConnect, NetClientRecv, NetClientClose, netVars, Taken
    <3> QED
      BY <3>1, <3>2
  <2> QED
    BY <2>1 DEF Posted, Taken
<1>4. Entered' = Entered
  <2>1. CASE backlog' = backlog
    <3>1. \A d \in Clients : peer'[d] = "absent" <=> peer[d] = "absent"
      <4>1. Append(backlog, c) # backlog
        BY AppendedNotSame DEF TypeOK, NetTypeOK
      <4>2. \A d \in Clients :
              \/ peer'[d] = peer[d]
              \/ peer[d] = "here" /\ peer'[d] \in Departed \union {"gone"}
        BY <2>1, <4>1, ClientStep
      <4> QED
        BY <4>2 DEF Departed
    <3> QED
      BY <2>1, <3>1 DEF Entered
  <2>2. CASE /\ peer[c] = "absent" /\ peer' = [peer EXCEPT ![c] = "here"]
             /\ backlog' = Append(backlog, c)
    <3>1. backlog \in Seq(Clients)
      BY DEF TypeOK, NetTypeOK
    <3>2. ToSet(backlog') = ToSet(backlog) \union {c}
      BY <2>2, <3>1, AppendedSet
    <3>3. \A d \in Clients : peer'[d] = IF d = c THEN "here" ELSE peer[d]
      BY <2>2 DEF TypeOK, NetTypeOK
    <3> QED
      BY <2>2, <3>2, <3>3 DEF Entered
  <2> QED
    BY <2>1, <2>2, ClientStep
<1> QED
  BY <1>1, <1>2, <1>3, <1>4, SameDelivery, SameRoom

\* The steps of the loop between accept() and recv().
LEMMA LoopStutters ==
  ASSUME RefInv, Select \/ NothingToAccept \/ ScanDone
  PROVE  UNCHANGED Room!roomVars
<1>1. /\ UNCHANGED <<netVars, clients, next, msg>>
      /\ pc \notin {"send", "dead"} /\ pc' \notin {"send", "dead"}
  BY DEF Select, NothingToAccept, ScanDone
<1>2. Entered' = Entered /\ Posted' = Posted
  BY <1>1 DEF Entered, Posted, netVars
<1>3. Members' = Members /\ Seats' = Seats /\ Alive' = Alive
  BY <1>1 DEF Members, Seats, Alive, netVars
<1>4. PostAtHand' = PostAtHand /\ Awaiting = {} /\ Awaiting' = {}
  BY <1>1 DEF PostAtHand, Awaiting
<1>5. Inbox' = Inbox
  BY <1>1, <1>4 DEF Inbox, netVars
<1> QED
  BY <1>2, <1>3, <1>4, <1>5, SameRoom

\* One send(): the client of the entry has what counted as delivered already,
\* whether it still gets it or not.
LEMMA SendStutters ==
  ASSUME RefInv, RefInv', BroadcastSend \/ BroadcastSendLost
  PROVE  UNCHANGED Room!roomVars
<1> USE DEF RefInv, Inv
<1> DEFINE i == Min(Targets)
           t == Target
<1>1. /\ pc = "send" /\ Targets # {}
      /\ relayed' = [relayed EXCEPT ![t] = relayed[t] \o msg]
      /\ next' = i + 1
      /\ UNCHANGED <<backlog, fd, written, up, clients, pc, slot, msg>>
  BY DEF BroadcastSend, BroadcastSendLost, NetSend
<1>2. /\ MembersHaveEntries /\ MembersHaveEntries'
      /\ AwaitingAhead /\ AwaitingAhead'
  BY MappedState, MappedNextState
<1>3. Members' = Members /\ Seats' = Seats /\ Alive' = Alive
  BY <1>1 DEF Members, Seats, Alive
<1>4. i \in Targets /\ \A j \in Targets : i <= j
  BY <1>1, MinSlot DEF Targets
<1>5. /\ t \in Clients /\ fd[t] = clients[i] /\ fd[t] # 0
      /\ i \in Slots /\ clients[i] > 0
  BY <1>4, OwnerOfEntry DEF Target, Targets
<1>6. Entered' = Entered /\ Posted' = Posted
  <2>1. \A d \in Clients : peer'[d] = "absent" <=> peer[d] = "absent"
    <3>1. \A d \in Clients : peer'[d] = peer[d] \/ (peer[d] \in Departed /\ peer'[d] \in Departed)
      BY DEF BroadcastSend, BroadcastSendLost, NetSend, TypeOK, NetTypeOK, Departed
    <3> QED
      BY <3>1 DEF Departed
  <2> QED
    BY <1>1, <2>1 DEF Entered, Posted
<1>7. PostAtHand' = PostAtHand
  BY <1>1, <1>3 DEF PostAtHand, Author, OwnerOf
<1> HIDE DEF i, t
<1>8. Targets' = Targets \ {i}
  <2>1. i >= next /\ i \in Nat /\ next \in Nat
    BY <1>4 DEF Targets, Slots, TypeOK
  <2>2. ASSUME NEW j \in Slots
        PROVE  j >= i + 1 /\ clients[j] > 0 /\ clients[j] # clients[slot]
               <=> j >= next /\ clients[j] > 0 /\ clients[j] # clients[slot] /\ j # i
    <3>1. j \in Nat
      BY DEF Slots
    <3>2. CASE clients[j] > 0 /\ clients[j] # clients[slot]
      <4>1. j >= next => i <= j
        BY <1>4, <3>2 DEF Targets
      <4> QED
        BY <2>1, <3>1, <3>2, <4>1
    <3> QED
      BY <3>2
  <2> QED
    BY <1>1, <2>2 DEF Targets
<1>9. t \in Awaiting /\ Awaiting' = Awaiting \ {t}
  <2>1. \A d \in Clients : clients[i] = fd[d] => d = t
    BY <1>5 DEF ConnectionInv, FdsDistinct
  <2>2. \A j \in Targets : j # i => clients[j] # clients[i]
    BY <1>5 DEF Targets, TableConsistent
  <2>3. \A d \in Clients :
          (\E j \in Targets \ {i} : clients[j] = fd[d])
          <=> d # t /\ \E j \in Targets : clients[j] = fd[d]
    BY <1>4, <1>5, <2>1, <2>2
  <2>4. t \in Awaiting
    BY <1>1, <1>2, <1>4, <1>5 DEF AwaitingAhead
  <2> QED
    BY <1>1, <1>2, <1>8, <2>3, <2>4 DEF AwaitingAhead
<1>10. Inbox' = Inbox
  <2>1. relayed \in [Clients -> Seq(Units)]
    BY DEF TypeOK, NetTypeOK
  <2>2. \A d \in Clients : relayed'[d] = IF d = t THEN relayed[d] \o msg ELSE relayed[d]
    BY <1>1, <2>1
  <2>3. \A d \in Clients :
          (IF d \in Awaiting' THEN relayed'[d] \o msg ELSE relayed'[d])
          = (IF d \in Awaiting THEN relayed[d] \o msg ELSE relayed[d])
    BY <1>9, <2>2
  <2> QED
    BY <1>1, <2>3 DEF Inbox
<1> QED
  BY <1>3, <1>6, <1>7, <1>10, SameRoom

-----------------------------------------------------------------------------
(* Members and seats *)

\* ChatRoom counts with the same operator.
LEMMA SameCardinality ==
  ASSUME NEW S
  PROVE  Room!Cardinality(S) = Cardinality(S)
BY DEF Room!Cardinality, Cardinality

\* Descriptors are positive.
LEMMA FdsPositive == \A f \in Fds : f \in Nat /\ f > 0
<1>1. \A f \in Fds : f \in Nat \ {0}
  BY FdsAssumption, Zenon
<1> QED
  BY <1>1

\* The entries that are used, and the ones that are not lost to an error.
Used == {i \in Slots : clients[i] > 0}
Good == {i \in Slots : clients[i] # AcceptError}

\* There is a free entry exactly while there are fewer members than seats.
LEMMA FreeEntryIffRoom ==
  ASSUME RefInv
  PROVE  /\ (\E i \in Slots : clients[i] = 0) <=> Cardinality(Members) < Seats
         /\ IsFiniteSet(Good) /\ Seats = Cardinality(Good) /\ Seats \in Nat
<1> USE DEF RefInv, Inv
<1> DEFINE owner == [i \in Used |-> OwnerOf(clients[i])]
<1>1. IsFiniteSet(Slots)
  BY TableAssumption, FS_Interval DEF Slots
<1>2. Good \in SUBSET Slots
  BY DEF Good
<1>3. IsFiniteSet(Good) /\ Cardinality(Good) \in Nat
  BY <1>1, <1>2, FS_Subset, FS_CardinalityType
<1>4. Used \in SUBSET Good
  BY DEF Used, Good, AcceptError
<1>5. /\ IsFiniteSet(Used) /\ Cardinality(Used) \in Nat
      /\ Cardinality(Used) <= Cardinality(Good)
      /\ Cardinality(Good) = Cardinality(Used) => Good = Used
  BY <1>3, <1>4, FS_Subset, FS_CardinalityType
<1>6. \A i \in Used : /\ owner[i] \in Members
                      /\ fd[owner[i]] = clients[i]
  <2>1. \A i \in Used : /\ OwnerOf(clients[i]) \in Clients
                        /\ fd[OwnerOf(clients[i])] = clients[i]
                        /\ clients[i] # 0 /\ i \in Slots
    BY OwnerOfEntry DEF Used
  <2>2. MembersHaveEntries
    BY MappedState
  <2> QED
    BY <2>1, <2>2 DEF MembersHaveEntries
<1>7. \A i, j \in Used : owner[i] = owner[j] => i = j
  BY <1>6 DEF Used, TableConsistent
<1>8. \A d \in Members : \E i \in Used : owner[i] = d
  <2>1. TAKE d \in Members
  <2>2. PICK i \in Slots : d \in Clients /\ fd[d] # 0 /\ clients[i] = fd[d]
    BY MappedState DEF MembersHaveEntries
  <2>3. fd[d] > 0
    BY <2>2, FdsPositive DEF TypeOK, NetTypeOK
  <2>4. OwnerOf(clients[i]) = d
    BY <2>2, OwnerIsOnly
  <2> QED
    BY <2>2, <2>3, <2>4 DEF Used
<1>9. owner \in Bijection(Used, Members)
  <2>1. owner \in [Used -> Members]
    BY <1>6
  <2> HIDE DEF owner
  <2> QED
    BY <2>1, <1>7, <1>8 DEF Bijection, Injection, Surjection, IsInjective
<1>10. Cardinality(Members) = Cardinality(Used)
  <2>1. ExistsBijection(Used, Members)
    BY <1>9 DEF ExistsBijection
  <2> QED
    BY <1>5, <2>1, FS_Bijection
<1>11. (\E i \in Slots : clients[i] = 0) <=> Good # Used
  <2>1. \A i \in Slots : clients[i] = 0 <=> i \in Good /\ i \notin Used
    <3>1. \A i \in Slots : clients[i] \in Fds \/ clients[i] = 0 \/ clients[i] = -1
      BY DEF TypeOK, AcceptError
    <3> QED
      BY <3>1, FdsPositive DEF AcceptError, Good, Used
  <2> QED
    BY <1>2, <1>4, <2>1
<1>12. Seats = Cardinality(Good)
  BY DEF Seats, Good
<1> QED
  BY <1>3, <1>5, <1>10, <1>11, <1>12

\* accept(): the client enters the room, as a member if there is a free entry.
LEMMA AcceptEnters ==
  ASSUME RefInv, RefInv', Accept
  PROVE  Room!Next
<1> USE DEF RefInv, Inv
<1>1. PICK c \in Clients :
         /\ backlog \in Seq(Clients) /\ backlog # <<>> /\ c = backlog[1]
         /\ backlog' = Tail(backlog)
         /\ fd[c] = 0 /\ peer[c] # "absent" /\ peer' = peer
         /\ fd'[c] \in Fds /\ fd'[c] > 0
         /\ \A d \in Clients \ {c} : fd'[d] = fd[d] /\ fd[d] # fd'[c]
         /\ clients' = Stored(fd'[c])
  BY AcceptStep
<1>2. /\ pc = "accept" /\ pc' = "scan"
      /\ UNCHANGED <<written, up, relayed>>
  BY DEF Accept
<1>3. /\ PostAtHand = Room!NoPost /\ PostAtHand' = PostAtHand
      /\ Inbox' = Inbox
  BY <1>2, MappedState, MappedNextState DEF SilentBetweenPosts, Room!NoPost
<1>4. Alive /\ Alive' = Alive /\ Posted' = Posted
  BY <1>2 DEF Alive, Posted
<1>5. c \notin Entered /\ Entered' = Entered \union {c}
  <2>1. c \in ToSet(backlog) /\ ToSet(backlog') = ToSet(backlog) \ {c}
    <3>1. /\ Len(backlog') = Len(backlog) - 1 /\ Len(backlog) \in Nat /\ Len(backlog) # 0
          /\ \A k \in 1 .. Len(backlog') : backlog'[k] = backlog[k + 1]
          /\ DOMAIN backlog = 1 .. Len(backlog) /\ DOMAIN backlog' = 1 .. Len(backlog')
      BY <1>1
    <3>2. \A k \in 1 .. Len(backlog) : k = 1 \/ (k - 1 \in 1 .. Len(backlog') /\ k = (k - 1) + 1)
      BY <3>1
    <3>3. \A k \in 1 .. Len(backlog') : k + 1 \in 1 .. Len(backlog) /\ k + 1 # 1
      BY <3>1
    <3>4. 1 \in 1 .. Len(backlog)
      BY <3>1
    <3>5. \A k \in 1 .. Len(backlog) : k # 1 => backlog[k] # c
      BY <1>1, <3>4 DEF ConnectionInv, QueuedUnserved
    <3>6. \A d : d \in ToSet(backlog') => d \in ToSet(backlog) /\ d # c
      BY <3>1, <3>3, <3>5 DEF ToSet
    <3>7. ASSUME NEW d, d \in ToSet(backlog), d # c PROVE d \in ToSet(backlog')
      <4>1. PICK k \in 1 .. Len(backlog) : backlog[k] = d
        BY <3>1, <3>7 DEF ToSet
      <4>2. k # 1
        BY <1>1, <3>7, <4>1
      <4>3. k - 1 \in 1 .. Len(backlog') /\ k = (k - 1) + 1
        BY <3>2, <4>2
      <4>4. backlog'[k - 1] = d
        BY <3>1, <4>1, <4>3
      <4> QED
        BY <3>1, <4>3, <4>4 DEF ToSet
    <3> QED
      BY <1>1, <3>1, <3>4, <3>6, <3>7 DEF ToSet
  <2> QED
    BY <1>1, <2>1 DEF Entered
<1>6. Seats' = Seats
  <2>1. \A i \in Slots : clients'[i] # AcceptError <=> clients[i] # AcceptError
    BY <1>1, StoredEntry DEF TypeOK, AcceptError
  <2> QED
    BY <2>1 DEF Seats
<1>7. Members' = IF Cardinality(Members) < Seats THEN Members \union {c} ELSE Members
  <2>1. MembersHaveEntries /\ MembersHaveEntries'
    BY MappedState, MappedNextState
  <2>2. \A i \in Slots : clients[i] # fd'[c]
    <3>1. \A d \in Clients : fd[d] # fd'[c]
      BY <1>1
    <3> QED
      BY <1>1, <3>1, OwnerOfEntry
  <2>3. CASE \E i \in Slots : clients[i] = 0
    <3>1. PICK k \in Slots : clients[k] = 0 /\ clients' = [clients EXCEPT ![k] = fd'[c]]
      <4> DEFINE is == {i \in Slots : clients[i] = 0}
      <4>1. Min(is) \in is
        BY <2>3, MinSlot
      <4> QED
        BY <1>1, <2>3, <4>1 DEF Stored
    <3>2. \A i \in Slots : clients'[i] = IF i = k THEN fd'[c] ELSE clients[i]
      BY <3>1 DEF TypeOK
    <3>3. \A d \in Clients :
            (fd'[d] # 0 /\ \E i \in Slots : clients'[i] = fd'[d])
            <=> d = c \/ (fd[d] # 0 /\ \E i \in Slots : clients[i] = fd[d])
      <4>1. TAKE d \in Clients
      <4>2. CASE d = c
        BY <1>1, <3>2, <4>2
      <4>3. CASE d # c
        BY <1>1, <3>1, <3>2, <4>3
      <4> QED
        BY <4>2, <4>3
    <3>4. Members' = Members \union {c}
      BY <2>1, <3>3 DEF MembersHaveEntries
    <3> QED
      BY <2>3, <3>4, FreeEntryIffRoom
  <2>4. CASE ~ \E i \in Slots : clients[i] = 0
    <3>1. clients' = clients
      BY <1>1, <2>4 DEF Stored
    <3>2. \A d \in Clients :
            (fd'[d] # 0 /\ \E i \in Slots : clients'[i] = fd'[d])
            <=> (fd[d] # 0 /\ \E i \in Slots : clients[i] = fd[d])
      BY <1>1, <2>2, <3>1
    <3>3. Members' = Members
      BY <2>1, <3>2 DEF MembersHaveEntries
    <3> QED
      BY <2>4, <3>3, FreeEntryIffRoom
  <2> QED
    BY <2>3, <2>4
<1>8. Room!Enter(c)
  BY <1>3, <1>4, <1>5, <1>6, <1>7, SameCardinality DEF Room!Enter
<1> QED
  BY <1>8 DEF Room!Next

\* accept() fails: its error takes up an entry, which is one seat less, if there
\* is a free one.
LEMMA FailureLosesSeat ==
  ASSUME RefInv, RefInv', AcceptFails
  PROVE  Room!Next \/ UNCHANGED Room!roomVars
<1> USE DEF RefInv, Inv
<1>1. /\ pc = "accept" /\ pc' = "scan" /\ clients' = Stored(AcceptError)
      /\ UNCHANGED <<peer, backlog, fd, written, up, relayed>>
  BY DEF AcceptFails, netVars
<1>2. /\ PostAtHand = Room!NoPost /\ PostAtHand' = PostAtHand
      /\ Inbox' = Inbox
  BY <1>1, MappedState, MappedNextState DEF SilentBetweenPosts, Room!NoPost
<1>3. Alive /\ Alive' = Alive /\ Posted' = Posted /\ Entered' = Entered
  BY <1>1 DEF Alive, Posted, Entered
<1>4. CASE clients' = clients
  BY <1>1, <1>2, <1>3, <1>4, SameRoom DEF Members, Seats
<1>5. CASE \E k \in Slots : clients[k] = 0 /\ clients' = [clients EXCEPT ![k] = AcceptError]
  <2>1. PICK k \in Slots : clients[k] = 0 /\ clients' = [clients EXCEPT ![k] = AcceptError]
    BY <1>5
  <2>2. \A i \in Slots : clients'[i] = IF i = k THEN -1 ELSE clients[i]
    BY <2>1 DEF TypeOK, AcceptError
  <2>3. Members' = Members
    <3>1. \A d \in Clients :
            fd[d] # 0 => ((\E i \in Slots : clients'[i] = fd[d]) <=> \E i \in Slots : clients[i] = fd[d])
      <4>1. \A d \in Clients : fd[d] # -1
        <5>1. \A d \in Clients : fd[d] \in Fds \/ fd[d] = 0
          BY DEF TypeOK, NetTypeOK
        <5> QED
          BY <5>1, FdsPositive
      <4> QED
        BY <2>1, <2>2, <4>1
    <3>2. MembersHaveEntries /\ MembersHaveEntries'
      BY MappedState, MappedNextState
    <3> QED
      BY <1>1, <3>1, <3>2 DEF MembersHaveEntries
  <2>4. Seats' = Seats - 1
    <3>1. {i \in Slots : clients'[i] # AcceptError} = Good \ {k} /\ k \in Good
      BY <2>1, <2>2 DEF Good, AcceptError
    <3>2. Cardinality(Good \ {k}) = Cardinality(Good) - 1
      BY <3>1, FreeEntryIffRoom, FS_RemoveElement
    <3> QED
      BY <3>1, <3>2, FreeEntryIffRoom DEF Seats
  <2>5. Cardinality(Members) < Seats
    BY <2>1, FreeEntryIffRoom
  <2>6. Room!LoseSeat
    BY <1>2, <1>3, <2>3, <2>4, <2>5, SameCardinality DEF Room!LoseSeat
  <2> QED
    BY <2>6 DEF Room!Next
<1> QED
  BY <1>1, <1>4, <1>5, StoredEntry

\* recv() <= 0: the member leaves the room.
LEMMA EndLeaves ==
  ASSUME RefInv, RefInv', ReceiveEnd
  PROVE  Room!Next
<1> USE DEF RefInv, Inv
<1> DEFINE m == Min(ToRead)
<1>1. PICK c \in Clients : c = Reading /\ fd[c] = clients[m] /\ fd[c] # 0 /\ m \in Slots
                           /\ clients[m] > 0
  BY ReadEntry DEF ReceiveEnd
<1>2. /\ pc = "scan" /\ pc' = "scan"
      /\ fd' = [fd EXCEPT ![c] = 0] /\ peer' = [peer EXCEPT ![c] = "gone"]
      /\ clients' = [clients EXCEPT ![m] = 0]
      /\ UNCHANGED <<backlog, written, up, relayed>>
  BY <1>1 DEF ReceiveEnd, NetClose, Forgotten
<1> HIDE DEF m
<1>3. /\ PostAtHand = Room!NoPost /\ PostAtHand' = PostAtHand
      /\ Inbox' = Inbox
  BY <1>2, MappedState, MappedNextState DEF SilentBetweenPosts, Room!NoPost
<1>4. Alive /\ Alive' = Alive /\ Posted' = Posted
  BY <1>2 DEF Alive, Posted
<1>5. /\ \A i \in Slots : clients'[i] = IF i = m THEN 0 ELSE clients[i]
      /\ \A d \in Clients : fd'[d] = IF d = c THEN 0 ELSE fd[d]
      /\ \A d \in Clients : peer'[d] = IF d = c THEN "gone" ELSE peer[d]
  BY <1>2 DEF TypeOK, NetTypeOK
<1>6. Entered' = Entered
  <2>1. peer[c] # "absent"
    BY <1>1 DEF ConnectionInv, AbsentUnserved
  <2> QED
    BY <1>2, <1>5, <2>1 DEF Entered
<1>7. Seats' = Seats
  <2>1. \A i \in Slots : clients'[i] # AcceptError <=> clients[i] # AcceptError
    BY <1>1, <1>5 DEF AcceptError
  <2> QED
    BY <2>1 DEF Seats
<1>8. c \in Members /\ Members' = Members \ {c}
  <2>1. MembersHaveEntries /\ MembersHaveEntries'
    BY MappedState, MappedNextState
  <2>2. \A d \in Clients : fd[d] = clients[m] => d = c
    BY <1>1 DEF ConnectionInv, FdsDistinct
  <2>3. \A d \in Clients :
          (fd'[d] # 0 /\ \E i \in Slots : clients'[i] = fd'[d])
          <=> d # c /\ fd[d] # 0 /\ \E i \in Slots : clients[i] = fd[d]
    <3>1. TAKE d \in Clients
    <3>2. CASE d = c
      BY <1>5, <3>2
    <3>3. CASE d # c
      BY <1>5, <2>2, <3>3
    <3> QED
      BY <3>2, <3>3
  <2>4. c \in Members
    BY <1>1, <2>1 DEF MembersHaveEntries
  <2> QED
    BY <2>1, <2>3, <2>4 DEF MembersHaveEntries
<1>9. Room!Leave(c)
  BY <1>3, <1>4, <1>6, <1>7, <1>8 DEF Room!Leave
<1> QED
  BY <1>9 DEF Room!Next

-----------------------------------------------------------------------------
(* The post *)

\* recv() > 0: the post happens, and everyone but its author is still to be
\* sent it.
LEMMA ReceivePosts ==
  ASSUME RefInv, RefInv', Receive
  PROVE  Room!Next
<1> USE DEF RefInv, Inv
<1> DEFINE m == Min(ToRead)
<1>1. PICK c \in Clients, n \in 1 .. RecvMax :
        /\ c = Reading
        /\ Taken(c)' = Taken(c) + n
        /\ \A d \in Clients \ {c} : Taken(d)' = Taken(d)
        /\ msg' \in Seq(Units) /\ Len(msg') = n
        /\ \A k \in 1 .. n : msg'[k] = <<c, Taken(c) + k>>
  BY ReceivedText
<1>2. /\ pc = "scan" /\ pc' = "send" /\ slot' = m /\ next' = 1
      /\ UNCHANGED <<peer, backlog, fd, written, relayed, clients>>
  BY DEF Receive
<1>3. m \in Slots /\ clients[m] > 0 /\ fd[c] = clients[m] /\ fd[c] # 0
  BY <1>1, ReadEntry DEF Receive
<1> HIDE DEF m
<1>4. PostAtHand = Room!NoPost /\ Inbox = relayed
  BY <1>2, MappedState DEF SilentBetweenPosts
<1>5. MembersHaveEntries /\ MembersHaveEntries' /\ AwaitingAhead' /\ AuthorKnown'
  BY MappedState, MappedNextState
<1>6. Members' = Members /\ Seats' = Seats
  BY <1>2 DEF Members, Seats
<1>7. \A d \in Clients : fd[d] = fd[c] => d = c
  BY <1>3 DEF ConnectionInv, FdsDistinct
<1>8. Author' = c
  BY <1>2, <1>3, <1>5, <1>7 DEF AuthorKnown
<1>9. Awaiting' = Members \ {c}
  <2>1. Targets' = {i \in Slots : clients[i] > 0 /\ clients[i] # fd[c]}
    BY <1>2, <1>3 DEF Targets, Slots
  <2>2. \A d \in Clients : fd[d] # 0 => fd[d] > 0
    <3>1. \A d \in Clients : fd[d] \in Fds \/ fd[d] = 0
      BY DEF TypeOK, NetTypeOK
    <3> QED
      BY <3>1, FdsPositive
  <2> QED
    BY <1>2, <1>5, <1>7, <2>1, <2>2 DEF AwaitingAhead, MembersHaveEntries
<1> DEFINE to == Members \ {c}
<1>10. msg' = Room!Text(c, n)
  <2>1. Posted[c] = Taken(c)
    BY DEF Posted, Taken
  <2>2. msg' = [k \in 1 .. n |-> msg'[k]]
    BY <1>1
  <2> QED
    BY <1>1, <2>1, <2>2 DEF Room!Text
<1>11. PostAtHand' = [ms |-> Room!Text(c, n), to |-> to]
  BY <1>2, <1>6, <1>8, <1>10 DEF PostAtHand
<1>12. Inbox' = [d \in Clients |-> IF d \in to THEN Inbox[d] \o Room!Text(c, n) ELSE Inbox[d]]
  BY <1>2, <1>4, <1>9, <1>10 DEF Inbox
<1>13. Posted' = [Posted EXCEPT ![c] = Posted[c] + n]
  <2>1. \A d \in Clients : Posted'[d] = IF d = c THEN Posted[c] + n ELSE Posted[d]
    BY <1>1 DEF Posted, Taken
  <2> QED
    BY <2>1 DEF Posted
<1>14. c \in Entered /\ Entered' = Entered
  <2>1. peer[c] # "absent" /\ c \notin ToSet(backlog)
    BY <1>3 DEF ConnectionInv, AbsentUnserved, QueuedUnserved, ToSet, TypeOK, NetTypeOK
  <2> QED
    BY <1>2, <2>1 DEF Entered
<1>15. Alive /\ Alive' = Alive
  BY <1>2 DEF Alive
<1> HIDE DEF to
<1>16. Room!Post(c)
  BY <1>4, <1>6, <1>11, <1>12, <1>13, <1>14, <1>15 DEF Room!Post, to
<1> QED
  BY <1>16 DEF Room!Next

\* The loop of broadcast() ends: nobody is still to be sent the post.
LEMMA DoneEndsPost ==
  ASSUME RefInv, RefInv', BroadcastDone
  PROVE  Room!Next
<1> USE DEF RefInv, Inv
<1>1. /\ pc = "send" /\ pc' = "scan" /\ Targets = {}
      /\ UNCHANGED <<peer, backlog, fd, written, up, relayed, clients>>
  BY DEF BroadcastDone, netVars
<1>2. PostAtHand # Room!NoPost
  BY <1>1 DEF PostAtHand, Room!NoPost, PostHasAuthor
<1>3. /\ AwaitingAhead
      /\ PostAtHand' = Room!NoPost /\ Inbox' = relayed'
  BY <1>1, MappedState, MappedNextState DEF SilentBetweenPosts, Room!NoPost
<1>4. Inbox = relayed
  <2>1. Awaiting = {}
    BY <1>1, <1>3 DEF AwaitingAhead
  <2> QED
    BY <2>1 DEF Inbox, TypeOK, NetTypeOK
<1>5. /\ Members' = Members /\ Seats' = Seats /\ Entered' = Entered /\ Posted' = Posted
      /\ Alive /\ Alive' = Alive
  BY <1>1 DEF Members, Seats, Entered, Posted, Alive
<1>6. Room!EndPost
  BY <1>1, <1>2, <1>3, <1>4, <1>5 DEF Room!EndPost
<1> QED
  BY <1>6 DEF Room!Next

\* The end of the server costs those who are still to be sent the post at hand
\* that post, and nobody anything else.
LEMMA DeathCrashes ==
  ASSUME RefInv, RefInv', BroadcastDies
  PROVE  Room!Next
<1> USE DEF RefInv, Inv
<1>1. /\ pc = "send" /\ pc' = "dead"
      /\ UNCHANGED <<peer, backlog, fd, written, up, relayed, clients>>
  BY DEF BroadcastDies, netVars
<1>2. /\ MembersHaveEntries /\ AwaitingAhead /\ AuthorKnown
      /\ PostAtHand' = Room!NoPost /\ Inbox' = relayed'
  BY <1>1, MappedState, MappedNextState DEF SilentBetweenPosts, Room!NoPost
<1>3. /\ Members' = Members /\ Seats' = Seats /\ Entered' = Entered /\ Posted' = Posted
  BY <1>1 DEF Members, Seats, Entered, Posted
<1>4. PostAtHand = [ms |-> msg, to |-> Members \ {Author}]
  BY <1>1 DEF PostAtHand
<1>5. Awaiting \in SUBSET PostAtHand.to
  <2>1. \A d \in Awaiting : d \in Members \ {Author}
    BY <1>1, <1>2 DEF AwaitingAhead, MembersHaveEntries, AuthorKnown, Targets
  <2> QED
    BY <1>4, <2>1
<1>6. Inbox' = [d \in Clients |->
                  IF d \in Awaiting
                  THEN SubSeq(Inbox[d], 1, Len(Inbox[d]) - Len(PostAtHand.ms))
                  ELSE Inbox[d]]
  <2>1. relayed \in [Clients -> Seq(Units)] /\ msg \in Seq(Units)
    BY DEF TypeOK, NetTypeOK
  <2>2. ASSUME NEW d \in Awaiting
        PROVE  SubSeq(Inbox[d], 1, Len(Inbox[d]) - Len(PostAtHand.ms)) = relayed[d]
    <3>1. d \in Clients
      BY <1>2 DEF AwaitingAhead
    <3>2. PostAtHand.ms = msg /\ Inbox[d] = relayed[d] \o msg
      BY <1>4, <3>1 DEF Inbox
    <3>3. relayed[d] \in Seq(Units)
      BY <2>1, <3>1
    <3> QED
      BY <2>1, <3>2, <3>3, FrontOfConcatenation
  <2>3. \A d \in Clients \ Awaiting : Inbox[d] = relayed[d]
    BY DEF Inbox
  <2>4. relayed' = [d \in Clients |-> relayed[d]]
    BY <1>1, <2>1
  <2> QED
    BY <1>2, <2>2, <2>3, <2>4
<1>7. Alive /\ Alive' = FALSE
  BY <1>1 DEF Alive
<1>8. Room!Crash
  BY <1>2, <1>3, <1>5, <1>6, <1>7 DEF Room!Crash
<1> QED
  BY <1>8 DEF Room!Next

-----------------------------------------------------------------------------
(* The refinement *)

\* The empty server is the empty room.
LEMMA InitRoom == Init => Room!Init
<1> SUFFICES ASSUME Init PROVE Room!Init
  OBVIOUS
<1>1. RefInv
  BY InitRefInv
<1> USE DEF Init, NetInit
<1>2. PostAtHand = Room!NoPost /\ Inbox = relayed
  BY <1>1, MappedState DEF SilentBetweenPosts
<1>3. Members = {}
  BY <1>1, MappedState DEF MembersHaveEntries
<1>4. Entered = {} /\ Posted = [c \in Clients |-> 0]
  BY DEF Entered, Posted
<1>5. Alive = TRUE
  BY DEF Alive
<1>6. Seats = MAX_CLIENTS
  <2>1. {i \in Slots : clients[i] # AcceptError} = Slots
    BY DEF AcceptError
  <2>2. MAX_CLIENTS \in Nat /\ MAX_CLIENTS # 0
    BY TableAssumption
  <2>3. Cardinality(1 .. MAX_CLIENTS) = IF 1 > MAX_CLIENTS THEN 0 ELSE MAX_CLIENTS - 1 + 1
    BY <2>2, FS_Interval
  <2>4. Cardinality(Slots) = MAX_CLIENTS
    BY <2>2, <2>3 DEF Slots
  <2> HIDE DEF Init
  <2> QED
    BY <2>1, <2>4 DEF Seats
<1> QED
  BY <1>2, <1>3, <1>4, <1>5, <1>6 DEF Room!Init

\* Every step of the server or a client is a step of the room, or invisible.
LEMMA NextRoom ==
  ASSUME RefInv, RefInv', [Next]_vars
  PROVE  Room!Next \/ UNCHANGED Room!roomVars
<1>1. CASE UNCHANGED vars
  <2>1. UNCHANGED <<peer, backlog, fd, written, up, relayed, clients, next, slot, msg, pc>>
    BY <1>1 DEF vars, netVars, serverVars
  <2>2. Entered' = Entered /\ Posted' = Posted
    BY <2>1 DEF Entered, Posted
  <2> QED
    BY <2>1, <2>2, SameDelivery, SameRoom
<1>2. CASE Server
  BY <1>2, LoopStutters, AcceptEnters, FailureLosesSeat, ReceivePosts, EndLeaves, SendStutters,
     DeathCrashes, DoneEndsPost DEF Server
<1> QED
  BY <1>1, <1>2, ClientStutters DEF Next

\* Every behaviour of the server is one of the chat room, for any number of
\* clients, descriptors and entries: posts are atomic and whole, in the order of
\* the author's text, seats are lost to failing accepts only while free, and a
\* crash costs at most the post being delivered.
THEOREM RoomImplemented == Spec => ImplementsRoom
<1>1. RefInv /\ RefInv' /\ [Next]_vars => [Room!Next]_Room!roomVars
  BY NextRoom
<1> QED
  BY <1>1, InitRefInv, NextRefInv, InitRoom, PTL DEF Spec, ImplementsRoom, Room!Spec
=============================================================================
