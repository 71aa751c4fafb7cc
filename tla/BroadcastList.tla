--------------------------- MODULE BroadcastList ----------------------------
(***************************************************************************)
(* Test_Code/tcp_chat_broadcast_server.c: each client's text is echoed to  *)
(* it by a thread of its own, and a further thread sends every line the    *)
(* operator types to all clients on a list, which a mutex protects.  And   *)
(* tcp_chat_broadcast_client.c: the main thread reads and sends lines, a   *)
(* second one receives.                                                    *)
(*                                                                         *)
(* A unit of a client's text is what one fgets() gives, a unit sent by the *)
(* operator is <<Operator, k>>.  A user leaves by an empty line, exit or   *)
(* quit; the length of lines is left out, although one that fgets() reads  *)
(* in pieces of which the last is empty makes the client leave as well.    *)
(***************************************************************************)
EXTENDS TcpNet

CONSTANTS
    MAXCLIENTS,   \* entries of the list
    MaxLines,     \* bound: lines the operator types
    Speakers,     \* bound: the clients whose user types lines
    Leavers       \* bound: the clients that quit or are killed

ASSUME ListAssumption == MAXCLIENTS \in Nat /\ MaxLines \in Nat
ASSUME RolesAssumption == Speakers \subseteq Clients /\ Leavers \subseteq Clients

VARIABLES
    clients,      \* clients[0 .. nclients-1]
    clients_mtx,  \* who holds the mutex from one step to the next
    mpc,          \* main(): the client it has accepted and not yet added, or Nobody
    pc,           \* what the handler of each client does next
    buf,          \* what the handler last received
    spc,          \* what ServerSendThread does next
    line,         \* lines the operator has typed
    i,            \* ServerSendThread's index
    server,       \* "running" or "dead"
    since,        \* the first line each client is owed, 0 if it was never listed (history)
    cpc,          \* main thread of each client
    rpc           \* RecvThread of each client

serverVars == <<clients, clients_mtx, mpc, pc, buf, spc, line, i, server, since>>
clientVars == <<cpc, rpc>>
vars == <<netVars, serverVars, clientVars>>

Operator == "operator"
Nobody == "nobody"
ASSUME NamesAssumption == {Operator, Nobody} \cap Clients = {}

Init ==
    /\ NetInit
    /\ clients = <<>>
    /\ clients_mtx = Nobody
    /\ mpc = Nobody
    /\ pc = [c \in Clients |-> "none"]
    /\ buf = [c \in Clients |-> <<>>]
    /\ spc = "fgets"
    /\ line = 0
    /\ i = 1
    /\ server = "running"
    /\ since = [c \in Clients |-> 0]
    /\ cpc = [c \in Clients |-> "off"]
    /\ rpc = [c \in Clients |-> "off"]

Running == server = "running"
MutexFree == clients_mtx = Nobody

-----------------------------------------------------------------------------
(* main() of the server *)

Accept(c) ==
    /\ Running
    /\ mpc = Nobody
    /\ NetAccept(c)
    /\ mpc' = c
    /\ UNCHANGED <<peer, written, up, relayed, seen, clients, clients_mtx,
                   pc, buf, spc, line, i, server, since, clientVars>>

AcceptDies ==
    /\ Running
    /\ mpc = Nobody
    /\ backlog # <<>>
    /\ FreeFds = {}
    /\ server' = "dead"
    /\ UNCHANGED <<netVars, clients, clients_mtx, mpc, pc, buf, spc, line, i, since, clientVars>>

\* add_client(), and the handler's thread is created.  Who is put on the list is owed
\* the operator's lines from the next one on, or from the one that waits for the mutex.
FirstLine == IF spc = "lock" THEN line ELSE line + 1

AddClient ==
    /\ Running
    /\ mpc # Nobody
    /\ MutexFree
    /\ IF Len(clients) < MAXCLIENTS
       THEN /\ clients' = Append(clients, fd[mpc])
            /\ since' = [since EXCEPT ![mpc] = FirstLine]
       ELSE UNCHANGED <<clients, since>>
    /\ pc' = [pc EXCEPT ![mpc] = "recv"]
    /\ mpc' = Nobody
    /\ UNCHANGED <<netVars, clients_mtx, buf, spc, line, i, server, clientVars>>

-----------------------------------------------------------------------------
(* HandleTCPClient(), in the thread of c *)

Receive(c) ==
    /\ Running
    /\ pc[c] = "recv"
    /\ \E n \in 1 .. RecvMax :
         /\ NetRecv(c, n)
         /\ buf' = [buf EXCEPT ![c] = SubSeq(up[c], 1, n)]
    /\ pc' = [pc EXCEPT ![c] = "echo"]
    /\ UNCHANGED <<peer, backlog, fd, written, relayed, seen, clients, clients_mtx,
                   mpc, spc, line, i, server, since, clientVars>>

\* recv() = 0.  A connection that was reset reports the reset, if no send has.
ReceiveEnd(c) ==
    /\ Running
    /\ pc[c] = "recv"
    /\ up[c] = <<>>
    /\ peer[c] \in {"closed", "broken"}
    /\ pc' = [pc EXCEPT ![c] = "remove"]
    /\ UNCHANGED <<netVars, clients, clients_mtx, mpc, buf, spc, line, i, server, since,
                   clientVars>>

\* recv() < 0: DieWithError, for all clients.
ReceiveDies(c) ==
    /\ Running
    /\ pc[c] = "recv"
    /\ up[c] = <<>>
    /\ peer[c] = "reset"
    /\ server' = "dead"
    /\ UNCHANGED <<netVars, clients, clients_mtx, mpc, pc, buf, spc, line, i, since, clientVars>>

Echo(c) ==
    /\ Running
    /\ pc[c] = "echo"
    /\ NetSend(c, buf[c])
    /\ pc' = [pc EXCEPT ![c] = "recv"]
    /\ buf' = [buf EXCEPT ![c] = <<>>]
    /\ UNCHANGED <<backlog, fd, written, up, seen, clients, clients_mtx, mpc,
                   spc, line, i, server, since, clientVars>>

\* DieWithError, or SIGPIPE.
EchoDies(c) ==
    /\ Running
    /\ pc[c] = "echo"
    /\ peer[c] \in {"reset", "broken"}
    /\ server' = "dead"
    /\ UNCHANGED <<netVars, clients, clients_mtx, mpc, pc, buf, spc, line, i, since, clientVars>>

\* The list without its first entry f: the entries after it move up by one.
\* Mutant: the list ends where f was.
EntriesOf(f) == {k \in DOMAIN clients : clients[k] = f}
WithoutRest(f) ==
    IF EntriesOf(f) = {} THEN clients ELSE SubSeq(clients, 1, Min(EntriesOf(f)) - 1)
Without(f) ==
    IF EntriesOf(f) = {} THEN clients ELSE RemoveAt(clients, Min(EntriesOf(f)))

\* Mutant: the mutex is not taken.
RemoveClientUnlocked(c) ==
    /\ Running
    /\ pc[c] = "remove"
    /\ clients' = Without(fd[c])
    /\ pc' = [pc EXCEPT ![c] = "close"]
    /\ UNCHANGED <<netVars, clients_mtx, mpc, buf, spc, line, i, server, since, clientVars>>

\* Mutant: the handler returns without unlocking the mutex.
RemoveClientKeepsLock(c) ==
    /\ Running
    /\ pc[c] = "remove"
    /\ MutexFree
    /\ clients' = Without(fd[c])
    /\ clients_mtx' = Operator
    /\ pc' = [pc EXCEPT ![c] = "close"]
    /\ UNCHANGED <<netVars, mpc, buf, spc, line, i, server, since, clientVars>>

RemoveClient(c) ==
    /\ Running
    /\ pc[c] = "remove"
    /\ MutexFree
    /\ clients' = Without(fd[c])
    /\ pc' = [pc EXCEPT ![c] = "close"]
    /\ UNCHANGED <<netVars, clients_mtx, mpc, buf, spc, line, i, server, since, clientVars>>

CloseSocket(c) ==
    /\ Running
    /\ pc[c] = "close"
    /\ NetClose(c)
    /\ pc' = [pc EXCEPT ![c] = "done"]
    /\ UNCHANGED <<backlog, written, up, relayed, seen, clients, clients_mtx, mpc,
                   buf, spc, line, i, server, since, clientVars>>

-----------------------------------------------------------------------------
(* ServerSendThread() *)

SenderReads ==
    /\ Running
    /\ spc = "fgets"
    /\ line < MaxLines
    /\ line' = line + 1
    /\ spc' = "lock"
    /\ UNCHANGED <<netVars, clients, clients_mtx, mpc, pc, buf, i, server, since, clientVars>>

SenderLocks ==
    /\ Running
    /\ spc = "lock"
    /\ MutexFree
    /\ clients_mtx' = Operator
    /\ i' = 1
    /\ spc' = "send"
    /\ UNCHANGED <<netVars, clients, mpc, pc, buf, line, server, since, clientVars>>

Target == OwnerOf(clients[i])

SenderSends ==
    /\ Running
    /\ spc = "send"
    /\ i <= Len(clients)
    /\ NetSend(Target, <<<<Operator, line>>>>)
    /\ i' = i + 1
    /\ UNCHANGED <<backlog, fd, written, up, seen, clients, clients_mtx, mpc, pc,
                   buf, spc, line, server, since, clientVars>>

\* The first send after a reset fails, and the result is not looked at.
SenderSendLost ==
    /\ Running
    /\ spc = "send"
    /\ i <= Len(clients)
    /\ peer[Target] = "reset"
    /\ peer' = [peer EXCEPT ![Target] = "broken"]
    /\ i' = i + 1
    /\ UNCHANGED <<backlog, fd, written, up, relayed, seen, clients, clients_mtx, mpc,
                   pc, buf, spc, line, server, since, clientVars>>

\* SIGPIPE.
SenderDies ==
    /\ Running
    /\ spc = "send"
    /\ i <= Len(clients)
    /\ peer[Target] = "broken"
    /\ server' = "dead"
    /\ UNCHANGED <<netVars, clients, clients_mtx, mpc, pc, buf, spc, line, i, since, clientVars>>

SenderUnlocks ==
    /\ Running
    /\ spc = "send"
    /\ i > Len(clients)
    /\ clients_mtx' = Nobody
    /\ i' = 1
    /\ spc' = "fgets"
    /\ UNCHANGED <<netVars, clients, mpc, pc, buf, line, server, since, clientVars>>

-----------------------------------------------------------------------------
(* main() of the client *)

ClientConnect(c) ==
    /\ Running
    /\ NetConnect(c)
    /\ cpc' = [cpc EXCEPT ![c] = "fgets"]
    /\ rpc' = [rpc EXCEPT ![c] = "recv"]
    /\ UNCHANGED serverVars

\* The user types a line, of one piece.
ClientReads(c) ==
    /\ Running
    /\ c \in Speakers
    /\ cpc[c] = "fgets"
    /\ written[c] < MaxUnits
    /\ cpc' = [cpc EXCEPT ![c] = "send"]
    /\ UNCHANGED <<netVars, serverVars, rpc>>

ClientSends(c) ==
    /\ Running
    /\ cpc[c] = "send"
    /\ NetClientSend(c)
    /\ cpc' = [cpc EXCEPT ![c] = "fgets"]
    /\ UNCHANGED <<serverVars, rpc>>

\* The server is dead: send() fails and DieWithError ends the process.
ClientSendFails(c) ==
    /\ ~Running
    /\ cpc[c] = "send"
    /\ cpc' = [cpc EXCEPT ![c] = "exited"]
    /\ rpc' = [rpc EXCEPT ![c] = "ended"]
    /\ peer' = [peer EXCEPT ![c] = "gone"]
    /\ UNCHANGED <<backlog, fd, written, up, relayed, seen, serverVars>>

\* An empty line, exit or quit: close() and leave the loop.  While RecvThread is
\* inside recv() the kernel keeps the connection open, and the server sees nothing.
ClientCloses(c) ==
    /\ c \in Leavers
    /\ cpc[c] = "fgets"
    /\ cpc' = [cpc EXCEPT ![c] = "join"]
    /\ IF rpc[c] = "print" /\ peer[c] = "here" THEN NetClientClose(c) ELSE UNCHANGED netVars
    /\ UNCHANGED <<serverVars, rpc>>

\* pthread_join() returns.
ClientExits(c) ==
    /\ cpc[c] = "join"
    /\ rpc[c] = "ended"
    /\ cpc' = [cpc EXCEPT ![c] = "exited"]
    /\ UNCHANGED <<netVars, serverVars, rpc>>

ClientKilled(c) ==
    /\ Running
    /\ c \in Leavers
    /\ cpc[c] \notin {"off", "exited"}
    /\ NetClientClose(c)
    /\ cpc' = [cpc EXCEPT ![c] = "exited"]
    /\ rpc' = [rpc EXCEPT ![c] = "ended"]
    /\ UNCHANGED serverVars

-----------------------------------------------------------------------------
(* RecvThread() of the client *)

ClientReceives(c) ==
    /\ rpc[c] = "recv"
    /\ cpc[c] # "join"
    /\ NetClientRecv(c)
    /\ rpc' = [rpc EXCEPT ![c] = "print"]
    /\ UNCHANGED <<serverVars, cpc>>

\* After close() by the main thread: the last recv() still returns what has
\* come, the connection is closed when it does, and the next recv() fails.
\* Mutant: RecvThread tries again whatever the error is.
ClientReceivesLastAndRetries(c) ==
    /\ rpc[c] = "recv"
    /\ cpc[c] = "join"
    /\ NetClientRecv(c)
    /\ UNCHANGED <<serverVars, clientVars>>

ClientReceivesLast(c) ==
    /\ rpc[c] = "recv"
    /\ cpc[c] = "join"
    /\ peer[c] = "here"
    /\ seen[c] < Len(relayed[c])
    /\ seen' = [seen EXCEPT ![c] = @ + 1]
    /\ peer' = [peer EXCEPT ![c] = IF seen'[c] < Len(relayed[c]) THEN "reset" ELSE "closed"]
    /\ rpc' = [rpc EXCEPT ![c] = "ended"]
    /\ UNCHANGED <<backlog, fd, written, up, relayed, serverVars, cpc>>

\* Mutant: RecvThread returns after one text.
ClientPrintsOnce(c) ==
    /\ rpc[c] = "print"
    /\ rpc' = [rpc EXCEPT ![c] = "ended"]
    /\ UNCHANGED <<netVars, serverVars, cpc>>

\* printf(); with the descriptor closed meanwhile, the next recv() fails.
ClientPrints(c) ==
    /\ rpc[c] = "print"
    /\ rpc' = [rpc EXCEPT ![c] = IF cpc[c] = "join" THEN "ended" ELSE "recv"]
    /\ UNCHANGED <<netVars, serverVars, cpc>>

\* recv() returns 0 or an error once the server is dead.
ClientSeesEnd(c) ==
    /\ ~Running
    /\ rpc[c] = "recv"
    /\ rpc' = [rpc EXCEPT ![c] = "ended"]
    /\ UNCHANGED <<netVars, serverVars, cpc>>

-----------------------------------------------------------------------------
Main == AddClient \/ AcceptDies \/ \E c \in Clients : Accept(c)

Handler(c) ==
    \/ Receive(c)
    \/ ReceiveEnd(c)
    \/ ReceiveDies(c)
    \/ Echo(c)
    \/ EchoDies(c)
    \/ RemoveClient(c)
    \/ CloseSocket(c)

Sender == SenderLocks \/ SenderSends \/ SenderSendLost \/ SenderDies \/ SenderUnlocks

ClientMain(c) ==
    \/ ClientSends(c)
    \/ ClientSendFails(c)
    \/ ClientExits(c)

RecvThread(c) ==
    \/ ClientReceives(c)
    \/ ClientReceivesLast(c)
    \/ ClientPrints(c)
    \/ ClientSeesEnd(c)

User(c) ==
    \/ ClientConnect(c)
    \/ ClientReads(c)
    \/ ClientCloses(c)
    \/ ClientKilled(c)

Next ==
    \/ Main
    \/ SenderReads
    \/ Sender
    \/ \E c \in Clients : Handler(c) \/ ClientMain(c) \/ RecvThread(c) \/ User(c)

Spec == Init /\ [][Next]_vars

(***************************************************************************)
(* Every thread of the server and of the clients runs when it can; users   *)
(* and operator need not do anything.                                      *)
(***************************************************************************)
FairSpec ==
    /\ Spec
    /\ WF_vars(Main)
    /\ WF_vars(Sender)
    /\ \A c \in Clients :
         WF_vars(Handler(c)) /\ WF_vars(ClientMain(c)) /\ WF_vars(RecvThread(c))

-----------------------------------------------------------------------------
Texts == Units \union ({Operator} \X (1 .. MaxLines))

TypeOK ==
    /\ NetTypeOK(Texts)
    /\ clients \in Seq(Fds) /\ Len(clients) <= MAXCLIENTS
    /\ clients_mtx \in {Nobody, Operator}
    /\ mpc \in Clients \union {Nobody}
    /\ pc \in [Clients -> {"none", "recv", "echo", "remove", "close", "done"}]
    /\ buf \in [Clients -> Seq(Units)]
    /\ spc \in {"fgets", "lock", "send"}
    /\ line \in 0 .. MaxLines
    /\ i \in 1 .. MAXCLIENTS + 1
    /\ server \in {"running", "dead"}
    /\ since \in [Clients -> 0 .. MaxLines + 1]
    /\ cpc \in [Clients -> {"off", "fgets", "send", "join", "exited"}]
    /\ rpc \in [Clients -> {"off", "recv", "print", "ended"}]

Listed(c) == \E k \in DOMAIN clients : clients[k] = fd[c]
Serving(c) == pc[c] \in {"recv", "echo", "remove"}

\* The list holds the descriptor of everybody that add_client() had room for until its
\* own handler removes it, each once, and nothing else: compacting it (lines 33-34)
\* loses and doubles no client, and leaves nothing of the one that goes.
ListConsistent ==
    /\ \A c \in Clients : since[c] # 0 /\ Serving(c) => Listed(c)
    /\ \A k \in DOMAIN clients : \E c \in Clients :
         clients[k] = fd[c] /\ Serving(c) /\ since[c] # 0
    /\ \A k, l \in DOMAIN clients : k # l => clients[k] # clients[l]

\* The numbers of what author a has in a sequence of texts.
Numbers(s, a) == {s[k][2] : k \in {j \in DOMAIN s : s[j][1] = a}}

\* What one author has in it is in the author's order.
Ordered(s) == \A j, k \in DOMAIN s : j < k /\ s[j][1] = s[k][1] => s[j][2] < s[k][2]

\* Two threads write to a client's socket.  The operator's lines reach it in order and
\* without a gap, from the first one it is owed since it was put on the list, none
\* before, and as long as it is connected all of them have been sent to it when the
\* operator may type again: neither a client that joins nor one that leaves while the
\* list is walked makes anybody miss a line (the mutex, lines 47-52).  Between them it
\* gets back just what it has written, from the start and in order, and nothing that
\* others have.
StreamsFaithful ==
    \A c \in Clients :
      LET lines == Numbers(relayed[c], Operator)
          echoed == Numbers(relayed[c], c)
      IN  /\ \A k \in DOMAIN relayed[c] : relayed[c][k][1] \in {Operator, c}
          /\ Ordered(relayed[c])
          /\ \A n \in echoed : 1 .. n \subseteq echoed
          /\ \A n \in lines : since[c] \in 1 .. n /\ since[c] .. n \subseteq lines
          /\ spc = "fgets" /\ peer[c] = "here" /\ since[c] # 0 =>
               since[c] .. line \subseteq lines

\* A send() of ms to c that blocks has a RecvThread that will make room for it.
Reads(c) == rpc[c] = "recv" \/ (rpc[c] = "print" /\ cpc[c] # "join")
GetsThrough(c, ms) == Deliverable(c, ms) /\ (SendBlocks(c, ms) => Reads(c))

\* Whoever sends to a client is not stuck there: the send succeeds, ends the server,
\* or waits for a RecvThread, also that of a client that has quit, which has what to
\* receive.  So does the loop over the list, for which the others wait at the mutex:
\* none of its entries leads to a connection that nobody is at the other end of.
SendsGetThrough ==
    Running =>
      /\ clients_mtx = Operator => spc = "send"
      /\ spc = "send" /\ i <= Len(clients) => GetsThrough(Target, <<<<Operator, line>>>>)
      /\ \A c \in Clients : pc[c] = "echo" => GetsThrough(c, buf[c])

\* A line is sent to everybody, or the server dies: with RecvThread emptying
\* every client's socket the loop that holds the mutex comes to an end.
LineSent == (spc # "fgets") ~> (spc = "fgets" \/ server = "dead")

\* A client that has quit ends once anything has come for it.
QuitEndsWhenSpokenTo ==
    \A c \in Clients : (cpc[c] = "join" /\ seen[c] < Len(relayed[c])) ~> cpc[c] = "exited"
=============================================================================
