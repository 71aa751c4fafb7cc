---------------------------- MODULE ThreadedChat ----------------------------
(***************************************************************************)
(* Test_Code/tcp_chat_arbitrary_server.c, the chat server with one thread  *)
(* per client, a table of client sockets and a mutex around the table, and *)
(* tcp_chat_arbitrary_client.c, a client whose two threads send and        *)
(* receive independently.                                                  *)
(*                                                                         *)
(* The handler thread of client c is named c.  Adding and removing an      *)
(* entry hold the mutex over a loop that calls nothing, so each is one     *)
(* step; broadcast() holds it across sends that may block or kill the      *)
(* process, so it is one step per send.                                    *)
(***************************************************************************)
EXTENDS TcpNet

CONSTANTS
    MAX_CLIENTS,   \* entries of client_sockets
    MaxPresent,    \* bound: client processes running at the same time
    Speakers,      \* bound: the clients whose users type
    Leavers,       \* bound: the clients that are killed
    Enders         \* bound: the clients whose input ends

ASSUME TableAssumption == MAX_CLIENTS \in Nat \ {0} /\ MaxPresent \in Nat

VARIABLES
    client_sockets,   \* the table, 0 where free
    client_mutex,     \* the handler that holds it, or Free
    pc,               \* what the handler of each client does next
    buffer,           \* what the handler last received
    next,             \* broadcast()'s index i in each handler
    server,           \* "running" or "dead"
    spc,              \* what send_thread of each client does next
    rpc               \* what receive_thread of each client does next

serverVars == <<client_sockets, client_mutex, pc, buffer, next, server>>
clientVars == <<spc, rpc>>
vars == <<netVars, serverVars, clientVars>>

Slots == 1 .. MAX_CLIENTS
Free == "free"

ASSUME FreeAssumption == Free \notin Clients

Init ==
    /\ NetInit
    /\ client_sockets = [i \in Slots |-> 0]
    /\ client_mutex = Free
    /\ pc = [c \in Clients |-> "none"]
    /\ buffer = [c \in Clients |-> <<>>]
    /\ next = [c \in Clients |-> 1]
    /\ server = "running"
    /\ spc = [c \in Clients |-> "off"]
    /\ rpc = [c \in Clients |-> "off"]

-----------------------------------------------------------------------------
(* main() *)

Accept(c) ==
    /\ server = "running"
    /\ NetAccept(c)
    /\ pc' = [pc EXCEPT ![c] = "add"]
    /\ UNCHANGED <<peer, written, up, relayed, seen,
                   client_sockets, client_mutex, buffer, next, server, clientVars>>

\* accept() fails for want of a descriptor: DieWithError ends the process.
AcceptDies ==
    /\ server = "running"
    /\ backlog # <<>>
    /\ FreeFds = {}
    /\ server' = "dead"
    /\ UNCHANGED <<netVars, client_sockets, client_mutex, pc, buffer, next, clientVars>>

-----------------------------------------------------------------------------
(* HandleTCPClient(), in the thread of c *)

NoMutex == TRUE   \* mutant: nobody takes the mutex
MutexFree == client_mutex = Free

\* The table with v in the first of the entries is, unchanged if there is none.
Overwritten(is, v) ==
    IF is = {} THEN client_sockets ELSE [client_sockets EXCEPT ![Min(is)] = v]

\* Lines 96-101.
Added(c) == Overwritten({i \in Slots : client_sockets[i] = 0}, fd[c])

\* Lines 112-117.  Mutants: the loop ends one entry early; the first used entry
\* is freed, whoever it belongs to.
RemovedButLast(c) == Overwritten({i \in 1 .. MAX_CLIENTS - 1 : client_sockets[i] = fd[c]}, 0)
RemovedFirstUsed(c) == Overwritten({i \in Slots : client_sockets[i] # 0}, 0)
Removed(c) == Overwritten({i \in Slots : client_sockets[i] = fd[c]}, 0)

\* With the table full the handler goes on without an entry.
AddToTable(c) ==
    /\ server = "running"
    /\ pc[c] = "add"
    /\ MutexFree
    /\ client_sockets' = Added(c)
    /\ pc' = [pc EXCEPT ![c] = "recv"]
    /\ UNCHANGED <<netVars, client_mutex, buffer, next, server, clientVars>>

Receive(c) ==
    /\ server = "running"
    /\ pc[c] = "recv"
    /\ \E n \in 1 .. RecvMax :
         /\ NetRecv(c, n)
         /\ buffer' = [buffer EXCEPT ![c] = SubSeq(up[c], 1, n)]
    /\ pc' = [pc EXCEPT ![c] = "lock"]
    /\ UNCHANGED <<peer, backlog, fd, written, relayed, seen,
                   client_sockets, client_mutex, next, server, clientVars>>

ReceiveEnd(c) ==
    /\ server = "running"
    /\ pc[c] = "recv"
    /\ NetRecvEnd(c)
    /\ pc' = [pc EXCEPT ![c] = "remove"]
    /\ UNCHANGED <<backlog, fd, written, up, relayed, seen,
                   client_sockets, client_mutex, buffer, next, server, clientVars>>

RemoveFromTable(c) ==
    /\ server = "running"
    /\ pc[c] = "remove"
    /\ MutexFree
    /\ client_sockets' = Removed(c)
    /\ pc' = [pc EXCEPT ![c] = "close"]
    /\ UNCHANGED <<netVars, client_mutex, buffer, next, server, clientVars>>

CloseSocket(c) ==
    /\ server = "running"
    /\ pc[c] = "close"
    /\ NetClose(c)
    /\ pc' = [pc EXCEPT ![c] = "done"]
    /\ UNCHANGED <<backlog, written, up, relayed, seen,
                   client_sockets, client_mutex, buffer, next, server, clientVars>>

-----------------------------------------------------------------------------
(* broadcast(), called by the handler of c with what it received *)

BroadcastLock(c) ==
    /\ server = "running"
    /\ pc[c] = "lock"
    /\ MutexFree
    /\ client_mutex' = c
    /\ next' = [next EXCEPT ![c] = 1]
    /\ pc' = [pc EXCEPT ![c] = "send"]
    /\ UNCHANGED <<netVars, client_sockets, buffer, server, clientVars>>

\* Entries the loop has still to send to: the used ones but the sender's.
Targets(c) == {i \in Slots : i >= next[c] /\ client_sockets[i] \notin {0, fd[c]}}
Target(c) == OwnerOf(client_sockets[Min(Targets(c))])

BroadcastSend(c) ==
    /\ server = "running"
    /\ pc[c] = "send"
    /\ Targets(c) # {}
    /\ NetSend(Target(c), buffer[c])
    /\ next' = [next EXCEPT ![c] = Min(Targets(c)) + 1]
    /\ UNCHANGED <<backlog, fd, written, up, seen,
                   client_sockets, client_mutex, pc, buffer, server, clientVars>>

\* DieWithError on the error of the first send after a reset; SIGPIPE, which
\* nothing handles, on any later one.  Either ends the whole process.
BroadcastDies(c) ==
    /\ server = "running"
    /\ pc[c] = "send"
    /\ Targets(c) # {}
    /\ peer[Target(c)] \in {"reset", "broken"}
    /\ server' = "dead"
    /\ UNCHANGED <<netVars, client_sockets, client_mutex, pc, buffer, next, clientVars>>

\* Mutant: the mutex is not given back.
BroadcastKeepsMutex(c) ==
    /\ server = "running"
    /\ pc[c] = "send"
    /\ Targets(c) = {}
    /\ pc' = [pc EXCEPT ![c] = "recv"]
    /\ buffer' = [buffer EXCEPT ![c] = <<>>]
    /\ UNCHANGED <<netVars, client_sockets, client_mutex, next, server, clientVars>>

BroadcastUnlock(c) ==
    /\ server = "running"
    /\ pc[c] = "send"
    /\ Targets(c) = {}
    /\ client_mutex' = Free
    /\ next' = [next EXCEPT ![c] = 1]
    /\ pc' = [pc EXCEPT ![c] = "recv"]
    /\ buffer' = [buffer EXCEPT ![c] = <<>>]
    /\ UNCHANGED <<netVars, client_sockets, server, clientVars>>

-----------------------------------------------------------------------------
(* tcp_chat_arbitrary_client.c: main() *)

ClientConnect(c) ==
    /\ server = "running"
    /\ Cardinality({d \in Clients : peer[d] = "here"}) < MaxPresent
    /\ NetConnect(c)
    /\ spc' = [spc EXCEPT ![c] = "fgets"]
    /\ rpc' = [rpc EXCEPT ![c] = "recv"]
    /\ UNCHANGED serverVars

\* The threads of c end with its process.
ThreadsEnd(c) ==
    /\ spc' = [spc EXCEPT ![c] = "ended"]
    /\ rpc' = [rpc EXCEPT ![c] = "ended"]

\* The user kills the program, or a signal does, wherever its threads are.
ClientKilled(c) ==
    /\ server = "running"
    /\ c \in Leavers
    /\ NetClientClose(c)
    /\ ThreadsEnd(c)
    /\ UNCHANGED serverVars

\* What the death of the server makes of a connection: nobody had accepted it, or it
\* is reset for what the server has not received, which may have been sent since.
\* Otherwise what was relayed arrives, and then its end.
Reset(c) == server = "dead" /\ (fd[c] = 0 \/ up[c] # <<>>)

-----------------------------------------------------------------------------
(* send_thread() *)

\* The user types a line, of one piece.
ClientReads(c) ==
    /\ c \in Speakers
    /\ spc[c] = "fgets"
    /\ written[c] < MaxUnits
    /\ spc' = [spc EXCEPT ![c] = "send"]
    /\ UNCHANGED <<netVars, serverVars, rpc>>

\* The end of the input: this thread returns, and main() waits for the other one.
ClientInputEnds(c) ==
    /\ c \in Enders
    /\ spc[c] = "fgets"
    /\ spc' = [spc EXCEPT ![c] = "ended"]
    /\ UNCHANGED <<netVars, serverVars, rpc>>

\* send(), which the death of the server does not make fail at once.
ClientSend(c) ==
    /\ spc[c] = "send"
    /\ NetClientSend(c)
    /\ spc' = [spc EXCEPT ![c] = "fgets"]
    /\ UNCHANGED <<serverVars, rpc>>

\* DieWithError, or SIGPIPE.
ClientSendFails(c) ==
    /\ spc[c] = "send"
    /\ Reset(c)
    /\ peer' = [peer EXCEPT ![c] = "gone"]
    /\ ThreadsEnd(c)
    /\ UNCHANGED <<backlog, fd, written, up, relayed, seen, serverVars>>

-----------------------------------------------------------------------------
(* receive_thread() *)

\* Mutant: one thread does both, and does not receive while it cannot send.
ClientReceiveBetweenSends(c) ==
    /\ rpc[c] = "recv"
    /\ NetClientRecv(c)
    /\ Len(up[c]) < UpCap
    /\ UNCHANGED <<serverVars, clientVars>>

\* recv() > 0, also of what was on its way when the server died.
ClientReceive(c) ==
    /\ rpc[c] = "recv"
    /\ NetClientRecv(c)
    /\ UNCHANGED <<serverVars, clientVars>>

\* recv() = 0 when all has been received, or < 0.
ClientSeesEnd(c) ==
    /\ rpc[c] = "recv"
    /\ server = "dead"
    /\ seen[c] = Len(relayed[c]) \/ Reset(c)
    /\ rpc' = [rpc EXCEPT ![c] = "exit"]
    /\ UNCHANGED <<netVars, serverVars, spc>>

\* Mutant: the thread returns, and main() goes on waiting for send_thread.
ClientReturns(c) ==
    /\ rpc[c] = "exit"
    /\ rpc' = [rpc EXCEPT ![c] = "ended"]
    /\ UNCHANGED <<netVars, serverVars, spc>>

\* exit(0), or exit(1) in DieWithError.
ClientExits(c) ==
    /\ rpc[c] = "exit"
    /\ peer' = [peer EXCEPT ![c] = "gone"]
    /\ ThreadsEnd(c)
    /\ UNCHANGED <<backlog, fd, written, up, relayed, seen, serverVars>>

-----------------------------------------------------------------------------
Main == AcceptDies \/ \E c \in Clients : Accept(c)

Handler(c) ==
    \/ AddToTable(c)
    \/ Receive(c)
    \/ ReceiveEnd(c)
    \/ BroadcastLock(c)
    \/ BroadcastSend(c)
    \/ BroadcastDies(c)
    \/ BroadcastUnlock(c)
    \/ RemoveFromTable(c)
    \/ CloseSocket(c)

SendThread(c) == ClientSend(c) \/ ClientSendFails(c)
ReceiveThread(c) == ClientReceive(c) \/ ClientSeesEnd(c) \/ ClientExits(c)
User(c) == ClientConnect(c) \/ ClientReads(c) \/ ClientInputEnds(c) \/ ClientKilled(c)

Client(c) == SendThread(c) \/ ReceiveThread(c) \/ User(c)

Next ==
    \/ Main
    \/ \E c \in Clients : Handler(c) \/ Client(c)

Spec == Init /\ [][Next]_vars

(***************************************************************************)
(* Threads that can run do run, on the server and on the clients.  Nothing *)
(* makes a user connect, type, end the input or kill the client.           *)
(***************************************************************************)
Fairness ==
    /\ WF_vars(Main)
    /\ \A c \in Clients :
         /\ WF_vars(Handler(c))
         /\ WF_vars(SendThread(c))
         /\ WF_vars(ReceiveThread(c))

FairSpec == Spec /\ Fairness

-----------------------------------------------------------------------------
TypeOK ==
    /\ NetTypeOK(Units)
    /\ client_sockets \in [Slots -> Fds \union {0}]
    /\ client_mutex \in Clients \union {Free}
    /\ pc \in [Clients -> {"none", "add", "recv", "lock", "send", "remove", "close", "done"}]
    /\ buffer \in [Clients -> Seq(Units)]
    /\ next \in [Clients -> 1 .. MAX_CLIENTS + 1]
    /\ server \in {"running", "dead"}
    /\ spc \in [Clients -> {"off", "fgets", "send", "ended"}]
    /\ rpc \in [Clients -> {"off", "recv", "exit", "ended"}]

-----------------------------------------------------------------------------
Members == {c \in Clients : fd[c] # 0 /\ fd[c] \in ToSet(client_sockets)}

\* An entry of the table never outlives its connection: it is the open
\* descriptor of a client whose handler is between adding and removing it,
\* and no descriptor has two entries.  So broadcast() never writes to a
\* descriptor that was closed, or closed and given to a newcomer (the order
\* of lines 110-120), and never twice to one client.
TableConsistent ==
    /\ \A i \in Slots : client_sockets[i] # 0 =>
         \E c \in Clients :
           fd[c] = client_sockets[i] /\ pc[c] \in {"recv", "lock", "send", "remove"}
    /\ \A i, j \in Slots :
         i # j /\ client_sockets[i] # 0 => client_sockets[i] # client_sockets[j]

\* A used entry changes in one way only: it is freed, and its client has left.
\* No handler takes away the entry of a client that is still there.
EntryKept ==
    [][\A i \in Slots :
         client_sockets[i] # 0 /\ client_sockets'[i] # client_sockets[i] =>
           /\ client_sockets'[i] = 0
           /\ peer[OwnerOf(client_sockets[i])] \in Departed]_vars

\* Who waits for the mutex waits for a handler that is in broadcast(), and that
\* is never stuck there: the send it is at succeeds, or ends the server, or waits
\* for a client that has something to receive and a receive_thread that does.  No
\* entry ahead of it belongs to a connection nobody is at the other end of, and
\* no post is larger than the buffers of an idle client (lines 78-88).
MutexNotHostage ==
    server = "running" /\ client_mutex # Free =>
      /\ pc[client_mutex] = "send"
      /\ Targets(client_mutex) # {} =>
           LET d == Target(client_mutex)
               ms == buffer[client_mutex]
           IN  Deliverable(d, ms) /\ (SendBlocks(d, ms) => rpc[d] = "recv")

-----------------------------------------------------------------------------
(***************************************************************************)
(* The server implements ChatRoom: a post happens when its thread takes    *)
(* the mutex, so its text counts as delivered to the entries the loop has  *)
(* still to reach.                                                         *)
(***************************************************************************)
Broadcasting == server = "running" /\ client_mutex # Free
Awaiting ==
    IF Broadcasting THEN {OwnerOf(client_sockets[i]) : i \in Targets(client_mutex)} ELSE {}

Open == server = "running"
Entered == {c \in Clients : pc[c] \notin {"none", "add"}}
Posted ==
    [c \in Clients |-> written[c] - Len(up[c]) - (IF pc[c] = "lock" THEN Len(buffer[c]) ELSE 0)]
PostAtHand ==
    IF Broadcasting THEN [ms |-> buffer[client_mutex], to |-> Members \ {client_mutex}]
    ELSE [ms |-> <<>>, to |-> {}]
Inbox ==
    [d \in Clients |->
       IF d \in Awaiting THEN relayed[d] \o buffer[client_mutex] ELSE relayed[d]]

Room == INSTANCE ChatRoom WITH
    Capacity <- MAX_CLIENTS,
    PostMax <- RecvMax,
    open <- Open,
    entered <- Entered,
    members <- Members,
    seats <- MAX_CLIENTS,
    posted <- Posted,
    post <- PostAtHand,
    inbox <- Inbox

\* Every behaviour of the server is one of the chat room: posts are atomic,
\* are all of the author's text in order, every member but the author gets
\* each of them, and a crash costs at most the post being delivered.
ImplementsRoom == Room!Spec

-----------------------------------------------------------------------------
\* What client c wrote and its handler has not received, or not sent to everybody.
Unrelayed(c) == up[c] # <<>> \/ pc[c] \in {"lock", "send"}

\* No handler starves at the mutex, though the others take it for as long as clients
\* write: all that a client wrote is received and its broadcast comes to an end, and
\* once a client has left its entry is freed and its descriptor closed, or the server dies.
\* (Contention ends because MaxUnits bounds what is written; see the README.)  No
\* client that is there can hold the mutex hostage, because its receive_thread
\* empties its socket even while its send_thread is blocked.
HandlersAdvance ==
    \A c \in Clients :
      /\ Unrelayed(c) ~> (~Unrelayed(c) \/ server = "dead")
      /\ (fd[c] # 0 /\ peer[c] \in Departed) ~> (fd[c] = 0 \/ server = "dead")

\* A client does not outlive the server, whether its user types, has ended the input or
\* does nothing at all, and whether its send() fails, blocks or still succeeds: there is
\* a receive_thread that comes to the end and ends the process (line 42 of the client).
\* It has received all that the server sent it before, unless the connection was reset.
ClientsFollowServer ==
    \A c \in Clients :
      (server = "dead" /\ peer[c] = "here")
        ~> (peer[c] = "gone" /\ (seen[c] = Len(relayed[c]) \/ Reset(c)))
=============================================================================
