----------------------------- MODULE SelectChat -----------------------------
(***************************************************************************)
(* MoreLearning/TCP_CHAT/Brodcast: Server.c, a chat server that is one     *)
(* loop around select(), and Client.c, a client that is one loop around    *)
(* select() too, so that it cannot receive while it is blocked in send().  *)
(*                                                                         *)
(* A turn of the server's loop is Select, then at most one accept, then    *)
(* the scan of the table for the descriptors select() reported, a message  *)
(* received being sent to everybody else before the scan goes on.          *)
(***************************************************************************)
EXTENDS TcpNet

CONSTANTS
    server_sock,   \* the listening descriptor
    MAX_CLIENTS,   \* entries of clients
    MaxPresent,    \* bound: client processes running at the same time
    Speakers,      \* bound: the clients whose users type
    Leavers        \* bound: the clients that are killed

ASSUME TableAssumption == MAX_CLIENTS \in Nat \ {0} /\ MaxPresent \in Nat
ASSUME ListenerAssumption == server_sock \in Nat \ Fds

VARIABLES
    clients,   \* the table: a descriptor, 0 where free, -1 where accept() failed
    readfds,   \* what select() reported at the start of this turn
    pc,        \* what the server does next
    slot,      \* the entry at which the scan goes on
    msg,       \* the message being broadcast
    next,      \* broadcast()'s index i
    cpc        \* per client: in "select", or with a line to "send"

serverVars == <<clients, readfds, pc, slot, msg, next>>
vars == <<netVars, serverVars, cpc>>

Slots == 1 .. MAX_CLIENTS
AcceptError == -1

Init ==
    /\ NetInit
    /\ clients = [i \in Slots |-> 0]
    /\ readfds = {}
    /\ pc = "select"
    /\ slot = 1
    /\ msg = <<>>
    /\ next = 1
    /\ cpc = [c \in Clients |-> "select"]

Alive == pc # "dead"

-----------------------------------------------------------------------------
(* Server.c, main() *)

\* The descriptors on which select() reports something: of those it is asked
\* about, the listening one and every descriptor in the table.
\* Mutants: the set select() was given is used as if it were its result; the
\* loop that fills the set stops at the first free entry.
ReadyAsAsked ==
    {server_sock} \union {f \in ToSet(clients) : f > 0}
ReadyUpToGap ==
    {f \in {server_sock} : backlog # <<>>}
      \union {clients[i] : i \in {j \in Slots :
                 /\ \A k \in 1 .. j : clients[k] > 0
                 /\ Readable(OwnerOf(clients[j]))}}
Ready ==
    {f \in {server_sock} : backlog # <<>>}
      \union {f \in ToSet(clients) : f > 0 /\ Readable(OwnerOf(f))}

Select ==
    /\ pc = "select"
    /\ Ready # {}
    /\ readfds' = Ready
    /\ pc' = "accept"
    /\ UNCHANGED <<netVars, clients, slot, msg, next, cpc>>

\* Lines 50-55: v goes to the first free entry, or nowhere.
\* Mutant: the loop does not stop at the end of the table.
StoredBehind(v) ==
    IF \E i \in Slots : clients[i] = 0
    THEN [clients EXCEPT ![Min({i \in Slots : clients[i] = 0})] = v]
    ELSE Append(clients, v)
Stored(v) ==
    IF \E i \in Slots : clients[i] = 0
    THEN [clients EXCEPT ![Min({i \in Slots : clients[i] = 0})] = v]
    ELSE clients

Accept ==
    /\ pc = "accept"
    /\ server_sock \in readfds
    /\ \E c \in Clients :
         /\ NetAccept(c)
         /\ clients' = Stored(fd'[c])
    /\ pc' = "scan"
    /\ slot' = 1
    /\ UNCHANGED <<peer, written, up, relayed, seen, readfds, msg, next, cpc>>

\* No descriptor is left: the error is stored as if it were a descriptor.
AcceptFails ==
    /\ pc = "accept"
    /\ server_sock \in readfds
    /\ backlog # <<>>
    /\ FreeFds = {}
    /\ clients' = Stored(AcceptError)
    /\ pc' = "scan"
    /\ slot' = 1
    /\ UNCHANGED <<netVars, readfds, msg, next, cpc>>

NothingToAccept ==
    /\ pc = "accept"
    /\ server_sock \notin readfds
    /\ pc' = "scan"
    /\ slot' = 1
    /\ UNCHANGED <<netVars, clients, readfds, msg, next, cpc>>

\* Mutant: the entry is not freed.
After(i) == i + 1
NotForgotten(i) == clients
Forgotten(i) == [clients EXCEPT ![i] = 0]

\* Entries the scan has still to read from, and the next of them.
ToRead == {i \in Slots : i >= slot /\ clients[i] > 0 /\ clients[i] \in readfds}
Reading == OwnerOf(clients[Min(ToRead)])

\* Lines 64, 68: recv() > 0, and broadcast() begins.
Receive ==
    /\ pc = "scan"
    /\ ToRead # {}
    /\ \E n \in 1 .. RecvMax :
         /\ NetRecv(Reading, n)
         /\ msg' = SubSeq(up[Reading], 1, n)
    /\ slot' = Min(ToRead)
    /\ next' = 1
    /\ pc' = "send"
    /\ UNCHANGED <<peer, backlog, fd, written, relayed, seen, clients, readfds, cpc>>

\* Lines 64-66: recv() <= 0, and the connection is closed and forgotten.
ReceiveEnd ==
    /\ pc = "scan"
    /\ ToRead # {}
    /\ up[Reading] = <<>>
    /\ peer[Reading] \in Departed
    /\ NetClose(Reading)
    /\ clients' = Forgotten(Min(ToRead))
    /\ slot' = After(Min(ToRead))
    /\ UNCHANGED <<backlog, written, up, relayed, seen, readfds, pc, msg, next, cpc>>

ScanDone ==
    /\ pc = "scan"
    /\ ToRead = {}
    /\ pc' = "select"
    /\ readfds' = {}
    /\ UNCHANGED <<netVars, clients, slot, msg, next, cpc>>

-----------------------------------------------------------------------------
(* Server.c, broadcast(): the sender is the descriptor at slot.  A send to an
   entry that holds AcceptError fails and is ignored. *)

TargetsAll == {i \in Slots : i >= next /\ clients[i] > 0}   \* mutant: the sender too
Targets == {i \in Slots : i >= next /\ clients[i] > 0 /\ clients[i] # clients[slot]}
Target == OwnerOf(clients[Min(Targets)])

BroadcastSend ==
    /\ pc = "send"
    /\ Targets # {}
    /\ NetSend(Target, msg)
    /\ next' = Min(Targets) + 1
    /\ UNCHANGED <<backlog, fd, written, up, seen, clients, readfds, pc, slot, msg, cpc>>

\* The first send after a reset returns an error, which nobody looks at: the
\* text is gone like all that is on its way to a client that left.
BroadcastSendLost ==
    /\ pc = "send"
    /\ Targets # {}
    /\ peer[Target] = "reset"
    /\ peer' = [peer EXCEPT ![Target] = "broken"]
    /\ relayed' = [relayed EXCEPT ![Target] = @ \o msg]
    /\ next' = Min(Targets) + 1
    /\ UNCHANGED <<backlog, fd, written, up, seen, clients, readfds, pc, slot, msg, cpc>>

\* SIGPIPE, which nothing handles, ends the process.
BroadcastDies ==
    /\ pc = "send"
    /\ Targets # {}
    /\ peer[Target] = "broken"
    /\ pc' = "dead"
    /\ UNCHANGED <<netVars, clients, readfds, slot, msg, next, cpc>>

BroadcastDone ==
    /\ pc = "send"
    /\ Targets = {}
    /\ slot' = After(slot)
    /\ msg' = <<>>
    /\ next' = 1
    /\ pc' = "scan"
    /\ UNCHANGED <<netVars, clients, readfds, cpc>>

-----------------------------------------------------------------------------
(* Client.c *)

ClientConnect(c) ==
    /\ Alive
    /\ Cardinality({d \in Clients : peer[d] = "here"}) < MaxPresent
    /\ NetConnect(c)
    /\ UNCHANGED <<serverVars, cpc>>

\* select() returns: the client receives if there is something to receive and,
\* after that, turns to the line its user has typed, if there is one.
ClientTurn(c, typed) ==
    /\ cpc[c] = "select"
    /\ typed => c \in Speakers /\ written[c] < MaxUnits /\ Alive /\ peer[c] = "here"
    /\ IF seen[c] < Len(relayed[c])
       THEN NetClientRecv(c)
       ELSE typed /\ UNCHANGED netVars
    /\ cpc' = [cpc EXCEPT ![c] = IF typed THEN "send" ELSE "select"]
    /\ UNCHANGED serverVars

ClientSend(c) ==
    /\ Alive
    /\ cpc[c] = "send"
    /\ NetClientSend(c)
    /\ cpc' = [cpc EXCEPT ![c] = "select"]
    /\ UNCHANGED serverVars

ClientKilled(c) ==
    /\ Alive
    /\ c \in Leavers
    /\ NetClientClose(c)
    /\ UNCHANGED <<serverVars, cpc>>

\* The server has died: a blocked send fails, and recv() ends the loop.
ClientExits(c) ==
    /\ ~Alive
    /\ peer[c] = "here"
    /\ peer' = [peer EXCEPT ![c] = "gone"]
    /\ UNCHANGED <<backlog, fd, written, up, relayed, seen, serverVars, cpc>>

-----------------------------------------------------------------------------
Server ==
    \/ Select
    \/ Accept
    \/ AcceptFails
    \/ NothingToAccept
    \/ Receive
    \/ ReceiveEnd
    \/ ScanDone
    \/ BroadcastSend
    \/ BroadcastSendLost
    \/ BroadcastDies
    \/ BroadcastDone

Client(c) ==
    \/ ClientConnect(c)
    \/ \E typed \in BOOLEAN : ClientTurn(c, typed)
    \/ ClientSend(c)
    \/ ClientKilled(c)
    \/ ClientExits(c)

Next == Server \/ \E c \in Clients : Client(c)

Spec == Init /\ [][Next]_vars

(***************************************************************************)
(* The server runs when it can, and so does each client: it receives, or   *)
(* sends the line it has read.  Nothing makes a user type or leave.        *)
(***************************************************************************)
FairSpec ==
    /\ Spec
    /\ WF_vars(Server)
    /\ \A c \in Clients :
         /\ WF_vars(ClientTurn(c, FALSE))
         /\ WF_vars(ClientSend(c))
         /\ WF_vars(ClientExits(c))

-----------------------------------------------------------------------------
TypeOK ==
    /\ NetTypeOK(Units)
    /\ clients \in [Slots -> Fds \union {0, AcceptError}]
    /\ readfds \in SUBSET (Fds \union {server_sock})
    /\ pc \in {"select", "accept", "scan", "send", "dead"}
    /\ slot \in 1 .. MAX_CLIENTS + 1
    /\ msg \in Seq(Units)
    /\ next \in 1 .. MAX_CLIENTS + 1
    /\ cpc \in [Clients -> {"select", "send"}]

Members == {c \in Clients : fd[c] # 0 /\ fd[c] \in ToSet(clients)}

\* What select() reported still holds when the server acts on it: accept()
\* finds a connection (line 49) and recv() finds bytes or an end (line 64), so
\* the loop is never stuck in either, although clients come and go meanwhile
\* and entries are freed and filled between select() and the scan.
NeverBlocksReading ==
    /\ pc = "accept" /\ server_sock \in readfds => backlog # <<>>
    /\ pc = "scan" /\ ToRead # {} => Readable(Reading)

\* A descriptor in the table is the open descriptor of a connection, and is
\* there once: no client is sent a message twice, no newcomer inherits the
\* entry of the client that had its descriptor before (lines 65-66).
TableConsistent ==
    /\ \A i \in Slots : clients[i] > 0 => clients[i] \in OpenFds
    /\ \A i, j \in Slots : i # j /\ clients[i] > 0 => clients[i] # clients[j]

-----------------------------------------------------------------------------
(***************************************************************************)
(* The server implements ChatRoom: a post happens when recv() returns it,  *)
(* so its text counts as delivered to the entries the loop of broadcast()  *)
(* has still to reach.  An entry that holds the error of accept() is a     *)
(* seat lost.                                                              *)
(***************************************************************************)
Awaiting == IF pc = "send" THEN {OwnerOf(clients[i]) : i \in Targets} ELSE {}

Author == OwnerOf(clients[slot])

Entered == {c \in Clients : peer[c] # "absent" /\ c \notin ToSet(backlog)}
Seats == Cardinality({i \in Slots : clients[i] # AcceptError})
Posted == [c \in Clients |-> written[c] - Len(up[c])]
PostAtHand ==
    IF pc = "send" THEN [ms |-> msg, to |-> Members \ {Author}] ELSE [ms |-> <<>>, to |-> {}]
Inbox == [d \in Clients |-> IF d \in Awaiting THEN relayed[d] \o msg ELSE relayed[d]]

Room == INSTANCE ChatRoom WITH
    Capacity <- MAX_CLIENTS,
    PostMax <- RecvMax,
    open <- Alive,
    entered <- Entered,
    members <- Members,
    seats <- Seats,
    posted <- Posted,
    post <- PostAtHand,
    inbox <- Inbox

\* Every behaviour of the server is one of the chat room: posts are atomic,
\* are all of the author's text in order, every member but the author gets
\* each of them, and a crash costs at most the post being delivered.
ImplementsRoom == Room!Spec

-----------------------------------------------------------------------------
\* README of MoreLearning, line 25: "Supports up to 10 simultaneous clients".
\* As long as no more than MAX_CLIENTS clients run at the same time
\* (MaxPresent), every client the server has accepted is in its table.
SupportsMaxClients ==
    \A c \in Clients : fd[c] # 0 /\ peer[c] = "here" => c \in Members

\* README of MoreLearning, line 24: "Messages from one client broadcast to all
\* others".  A broadcast that has begun comes to an end, or the server dies.
BroadcastEnds == (pc = "send") ~> (pc # "send")

\* What a listed client wrote is received and handed to broadcast(), and a
\* listed client that left is removed and its descriptor closed, unless the
\* server dies.
ListedServed ==
    \A c \in Clients :
      (c \in Members /\ Readable(c)) ~> (~Readable(c) \/ ~Alive)
=============================================================================
