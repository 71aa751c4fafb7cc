---------------------------- MODULE EchoServers -----------------------------
(***************************************************************************)
(* Five of the echo servers of Test_Code and their client.  They share     *)
(* HandleTCPClient(), which sends back what it receives, and differ in who *)
(* runs it and what its failure ends:                                      *)
(*                                                                         *)
(*   iterative    the server itself                                        *)
(*   multiprocess a child per client, reaped after the next accept()       *)
(*   constrained  one of ForkLimit children, which accept for themselves   *)
(*   multithread  a thread per client                                      *)
(*   multiplexing the server itself, for several ports under select()      *)
(***************************************************************************)
EXTENDS TcpNet

CONSTANTS
    ForkLimit,   \* processes of the constrained server
    Lengths,     \* units of the words that clients are started with
    Leavers,     \* clients that may be killed
    PortOf       \* the port of the multiplexing server each client is started with

ASSUME ClientsAssumption == IsFiniteSet(Clients)
ASSUME ForkAssumption == ForkLimit \in Nat \ {0}
ASSUME LengthsAssumption == Lengths \subseteq 0 .. MaxUnits /\ MaxUnits <= UpCap
ASSUME LeaversAssumption == Leavers \subseteq Clients
ASSUME PortAssumption == PortOf \in [Clients -> Nat]

VARIABLES
    design,           \* which of the servers runs
    free,             \* processes that serve nobody, where they serve in turn
    pc,               \* what HandleTCPClient() does next for each client
    buffer,           \* echoBuffer of each HandleTCPClient()
    main,             \* what the main loop does
    childProcCount,   \* its count of children
    zombies,          \* clients whose child has exited and was not waited for
    old,              \* the zombies there were at the last accept() (history)
    ready,            \* ports of sockSet the turn has not come to yet
    key,              \* the return key: "up", "down", or "read" (running is 0)
    server,           \* the server can still be connected to
    length,           \* units of the word each client is started with
    outcome           \* what became of each client

childVars == <<childProcCount, zombies, old>>
selectVars == <<ready, key>>
mainVars == <<main, childVars, selectVars>>
serverVars == <<free, pc, buffer, mainVars, server>>
clientVars == <<design, length, outcome>>
vars == <<netVars, serverVars, clientVars>>

Sequential == {"iterative", "constrained", "multiplexing"}
Designs == Sequential \union {"multiprocess", "multithread"}
OneProcess == {"iterative", "multithread", "multiplexing"}

Init ==
    /\ NetInit
    /\ design \in Designs
    /\ free = IF design = "constrained" THEN ForkLimit ELSE 1
    /\ pc = [c \in Clients |-> "none"]
    /\ buffer = [c \in Clients |-> <<>>]
    /\ main = "accept"
    /\ childProcCount = 0
    /\ zombies = {}
    /\ old = {}
    /\ ready = {}
    /\ key = "up"
    /\ server = "running"
    /\ length \in [Clients -> Lengths]
    /\ outcome = [c \in Clients |-> "none"]

Serving(c) == pc[c] \in {"recv", "send"}

Port(c) == IF design = "multiplexing" THEN PortOf[c] ELSE 0

\* The oldest connection of a port's queue, accepted by a process that has
\* descriptors enough.
TakesFirst(c) ==
    /\ server = "running"
    /\ \E k \in 1 .. Len(backlog) :
         /\ backlog[k] = c
         /\ \A l \in 1 .. k - 1 : Port(backlog[l]) # Port(c)
         /\ backlog' = RemoveAt(backlog, k)
    /\ pc' = [pc EXCEPT ![c] = "recv"]
    /\ UNCHANGED <<peer, fd, written, up, relayed, seen, buffer, server, clientVars>>

-----------------------------------------------------------------------------
(* The main loops *)

\* A process that accepts and serves in turn: the iterative server, or one of
\* the pool.
SequentialAccept(c) ==
    /\ design \in {"iterative", "constrained"}
    /\ free > 0
    /\ TakesFirst(c)
    /\ free' = free - 1
    /\ UNCHANGED mainVars

\* The server ends and changes nothing else.
Ends ==
    /\ server = "running"
    /\ server' = "dead"
    /\ UNCHANGED <<netVars, free, pc, buffer, mainVars, clientVars>>

\* Once all processes of the pool have ended the parent's wait()s return.
PoolEnds ==
    /\ design = "constrained"
    /\ free = 0
    /\ \A c \in Clients : ~Serving(c)
    /\ Ends

ThreadAccept(c) ==
    /\ design = "multithread"
    /\ server = "running"
    /\ NetAccept(c)
    /\ pc' = [pc EXCEPT ![c] = "recv"]
    /\ UNCHANGED <<peer, written, up, relayed, seen, free, buffer, mainVars, server, clientVars>>

\* accept() fails for want of a descriptor: DieWithError ends all threads.
ThreadAcceptDies ==
    /\ design = "multithread"
    /\ backlog # <<>>
    /\ FreeFds = {}
    /\ Ends

Forks(c) ==
    /\ design = "multiprocess"
    /\ main = "accept"
    /\ TakesFirst(c)
    /\ main' = "reap"
    /\ old' = zombies
    /\ UNCHANGED <<free, zombies, selectVars>>

ForkAccept(c) == Forks(c) /\ childProcCount' = childProcCount + 1

\* waitpid() returns one of the children that have exited.
Waits(c) ==
    /\ main = "reap"
    /\ childProcCount > 0
    /\ c \in zombies
    /\ zombies' = zombies \ {c}
    /\ childProcCount' = childProcCount - 1
    /\ UNCHANGED <<netVars, free, pc, buffer, old, selectVars, server, clientVars>>

\* Mutant: one child is waited for, not all.
ReapOne(c) == Waits(c) /\ main' = "accept"
Reap(c) == Waits(c) /\ UNCHANGED main

\* None was counted, or none has exited.
ReapDone ==
    /\ main = "reap"
    /\ childProcCount = 0 \/ zombies = {}
    /\ main' = "accept"
    /\ UNCHANGED <<netVars, free, pc, buffer, childVars, selectVars, server, clientVars>>

\* select() reports the ports with connections to accept, and the keyboard.  A
\* turn that times out changes nothing.
Waiting == {PortOf[c] : c \in Range(backlog)}

Select ==
    /\ design = "multiplexing"
    /\ server = "running"
    /\ main = "accept"
    /\ Waiting # {} \/ key = "down"
    /\ ready' = Waiting
    /\ key' = IF key = "down" THEN "read" ELSE key
    /\ main' = "scan"
    /\ UNCHANGED <<netVars, free, pc, buffer, childVars, server, clientVars>>

\* The ports are served in their order, one client of each and to its end.
ScanTakes(c) ==
    /\ main = "scan"
    /\ free > 0
    /\ ready # {}
    /\ PortOf[c] = Min(ready)
    /\ TakesFirst(c)
    /\ free' = free - 1
    /\ UNCHANGED <<main, childVars, key>>

\* Mutant: all clients of a port that was reported are served, not one.
ScanAcceptAll(c) == ScanTakes(c) /\ UNCHANGED ready
ScanAccept(c) == ScanTakes(c) /\ ready' = ready \ {PortOf[c]}

ScanEnds ==
    /\ server = "running"
    /\ main = "scan"
    /\ free > 0
    /\ ready = {}
    /\ main' = "accept"
    /\ UNCHANGED <<netVars, free, pc, buffer, childVars, selectVars, clientVars>>

\* while (running).
ScanDone == ScanEnds /\ server' = IF key = "read" THEN "dead" ELSE server

\* The operator hits return, at any time.
KeyPressed ==
    /\ design = "multiplexing"
    /\ key = "up"
    /\ key' = "down"
    /\ UNCHANGED <<netVars, free, pc, buffer, main, childVars, ready, server, clientVars>>

-----------------------------------------------------------------------------
(* HandleTCPClient() *)

\* Mutant: a static buffer, shared by all threads.
Static(c, ms) == [d \in Clients |-> IF d = c \/ Serving(d) THEN ms ELSE buffer[d]]
Filled(c, ms) == [buffer EXCEPT ![c] = ms]

Receive(c) ==
    /\ server = "running"
    /\ pc[c] = "recv"
    /\ \E n \in 1 .. RecvMax :
         /\ NetRecv(c, n)
         /\ buffer' = Filled(c, SubSeq(up[c], 1, n))
    /\ pc' = [pc EXCEPT ![c] = "send"]
    /\ UNCHANGED <<peer, backlog, fd, written, relayed, seen, free, mainVars, server, clientVars>>

Echo(c) ==
    /\ server = "running"
    /\ pc[c] = "send"
    /\ NetSend(c, buffer[c])
    /\ buffer' = [buffer EXCEPT ![c] = <<>>]
    /\ pc' = [pc EXCEPT ![c] = "recv"]
    /\ UNCHANGED <<backlog, fd, written, up, seen, free, mainVars, server, clientVars>>

\* HandleTCPClient() is over for c, and so is its child if it has one.
Over(c) ==
    /\ server = "running"
    /\ NetClose(c)
    /\ pc' = [pc EXCEPT ![c] = "done"]
    /\ buffer' = [buffer EXCEPT ![c] = <<>>]
    /\ zombies' = IF design = "multiprocess" THEN zombies \union {c} ELSE zombies
    /\ UNCHANGED <<backlog, written, relayed, seen, main, childProcCount, old, selectVars,
                   clientVars>>

\* recv() returns 0.
EndOfStream(c) == pc[c] = "recv" /\ up[c] = <<>> /\ peer[c] \in {"closed", "broken"}

\* Mutants: every process exits after serving; no child does, for want of exit().
ExitsAfterServing(c) == EndOfStream(c) /\ Over(c) /\ UNCHANGED <<up, free, server>>
ServesOn(c) == EndOfStream(c) /\ Over(c) /\ free' = free + 1 /\ UNCHANGED <<up, server>>

Close(c) ==
    /\ EndOfStream(c)
    /\ Over(c)
    /\ free' = IF design \in Sequential THEN free + 1 ELSE free
    /\ UNCHANGED <<up, server>>

\* DieWithError after an error of recv() or send(), or SIGPIPE.  Mutant: the end
\* of the stream is an error too.
FailsAtEnd(c) ==
    \/ pc[c] = "recv" /\ up[c] = <<>> /\ peer[c] \in Departed
    \/ pc[c] = "send" /\ peer[c] \in {"reset", "broken"}
Fails(c) ==
    \/ pc[c] = "recv" /\ up[c] = <<>> /\ peer[c] = "reset"
    \/ pc[c] = "send" /\ peer[c] \in {"reset", "broken"}

\* It ends the process, and whoever else that serves.
Dies(c) ==
    /\ Fails(c)
    /\ Over(c)
    /\ up' = [up EXCEPT ![c] = <<>>]
    /\ server' = IF design \in OneProcess THEN "dead" ELSE server
    /\ UNCHANGED free

-----------------------------------------------------------------------------
(* tcp_echo_client.c *)

ClientConnect(c) ==
    /\ server = "running"
    /\ NetConnect(c)
    /\ UNCHANGED <<serverVars, clientVars>>

\* The word fits the socket buffers, so that send() does not block.
ClientSend(c) ==
    /\ outcome[c] = "none"
    /\ peer[c] = "here"
    /\ written[c] < length[c]
    /\ written' = [written EXCEPT ![c] = length[c]]
    /\ up' = [up EXCEPT ![c] = [k \in 1 .. length[c] |-> <<c, k>>]]
    /\ UNCHANGED <<peer, backlog, fd, relayed, seen, serverVars, clientVars>>

ClientReceive(c) ==
    /\ outcome[c] = "none"
    /\ written[c] = length[c]
    /\ NetClientRecv(c)
    /\ UNCHANGED <<serverVars, clientVars>>

\* As many bytes as it sent have come back.
ClientCloses(c) ==
    /\ outcome[c] = "none"
    /\ written[c] = length[c]
    /\ seen[c] = length[c]
    /\ NetClientClose(c)
    /\ outcome' = [outcome EXCEPT ![c] = "echoed"]
    /\ UNCHANGED <<serverVars, design, length>>

ClientKilled(c) ==
    /\ c \in Leavers
    /\ outcome[c] = "none"
    /\ NetClientClose(c)
    /\ outcome' = [outcome EXCEPT ![c] = "killed"]
    /\ UNCHANGED <<serverVars, design, length>>

\* The server is gone: recv() returns 0 or an error, or send() fails.
ClientFails(c) ==
    /\ outcome[c] = "none"
    /\ peer[c] = "here"
    /\ server = "dead"
    /\ peer' = [peer EXCEPT ![c] = "gone"]
    /\ outcome' = [outcome EXCEPT ![c] = "failed"]
    /\ UNCHANGED <<backlog, fd, written, up, relayed, seen, serverVars, design, length>>

-----------------------------------------------------------------------------
Main ==
    \/ PoolEnds
    \/ ThreadAcceptDies
    \/ ReapDone
    \/ Select
    \/ ScanDone
    \/ \E c \in Clients :
         \/ SequentialAccept(c)
         \/ ThreadAccept(c)
         \/ ForkAccept(c)
         \/ Reap(c)
         \/ ScanAccept(c)

Handler(c) ==
    \/ Receive(c)
    \/ Echo(c)
    \/ Close(c)
    \/ Dies(c)

Client(c) ==
    \/ ClientSend(c)
    \/ ClientReceive(c)
    \/ ClientCloses(c)
    \/ ClientFails(c)

Next ==
    \/ Main
    \/ KeyPressed
    \/ \E c \in Clients : Handler(c) \/ Client(c) \/ ClientConnect(c) \/ ClientKilled(c)

Spec == Init /\ [][Next]_vars

\* Every process and thread that can run does, and so does a client once started.
FairSpec ==
    /\ Spec
    /\ WF_vars(Main)
    /\ \A c \in Clients : WF_vars(Handler(c)) /\ WF_vars(Client(c))

-----------------------------------------------------------------------------
TypeOK ==
    /\ NetTypeOK(Units)
    /\ design \in Designs
    /\ free \in 0 .. ForkLimit \union {1}
    /\ pc \in [Clients -> {"none", "recv", "send", "done"}]
    /\ buffer \in [Clients -> Seq(Units)]
    /\ main \in {"accept", "reap", "scan"}
    /\ childProcCount \in 0 .. Cardinality(Clients)
    /\ zombies \subseteq Clients
    /\ old \subseteq Clients
    /\ ready \subseteq Range(PortOf)
    /\ key \in {"up", "down", "read"}
    /\ server \in {"running", "dead"}
    /\ length \in [Clients -> Lengths]
    /\ outcome \in [Clients -> {"none", "echoed", "killed", "failed"}]

Killed == {c \in Clients : outcome[c] = "killed"}

\* What a client is sent is its own text from the beginning, and what it wrote
\* is sent back, in its handler's buffer or still on its way: nothing is mixed
\* up between clients that are served at the same time.
EchoFaithful ==
    \A c \in Clients : outcome[c] \in {"none", "echoed"} =>
      relayed[c] \o buffer[c] \o up[c] = [k \in 1 .. written[c] |-> <<c, k>>]

\* childProcCount is the number of children that run or wait to be reaped, so that
\* waitpid() never fails for want of a child, which would end the server; and when
\* the server is back in accept(), every child that had exited before it was last
\* woken has been reaped: zombies do not pile up.
ChildrenReaped ==
    design = "multiprocess" =>
      /\ childProcCount = Cardinality({c \in Clients : Serving(c)} \union zombies)
      /\ main = "accept" => old \cap zombies = {}

\* A server does not end of clients that leave when they are done, only of some that are
\* killed, be it before they are accepted: one is enough where one process serves all,
\* the pool takes one for each of its processes, and the multiprocess server survives
\* all of them.  Running out of descriptors ends the threads, the return key the
\* multiplexing server.
DeathHasCause ==
    server = "dead" =>
      CASE design = "multiprocess" -> FALSE
        [] design = "constrained" -> Cardinality(Killed) >= ForkLimit
        [] design = "iterative" -> Killed # {}
        [] design = "multithread" -> Killed # {} \/ FreeFds = {}
        [] design = "multiplexing" -> Killed # {} \/ key = "read"

\* The client has a call to make that does not wait for the server: it writes its
\* word, receives, or has all of it back and closes.
CanGoOn(c) == written[c] < length[c] \/ seen[c] < Len(relayed[c]) \/ seen[c] = length[c]

\* No call of a server that serves waits for what will not come.  A send() returns,
\* ends its process, or waits for a client that is past its own and receives; when
\* there is nothing to receive the client has left or can go on; and who scans the
\* ports after select() finds somebody to accept() at each it was told of, however
\* long it has served the ports before and whoever has left since.
NobodyWaitsInVain ==
    server = "running" =>
      /\ \A c \in Clients : pc[c] = "send" =>
           /\ Deliverable(c, buffer[c])
           /\ SendBlocks(c, buffer[c]) => written[c] = length[c]
      /\ \A c \in Clients : pc[c] = "recv" /\ up[c] = <<>> =>
           peer[c] \in Departed \/ (peer[c] = "here" /\ CanGoOn(c))
      /\ main = "scan" => ready \subseteq Waiting

\* Every client that is not killed gets its whole text back, unless the server
\* is ended: the multiplexing server, too, never waits in accept() at a port of
\* sockSet, however long it has served the ports before.
ClientsServed ==
    \A c \in Clients :
      (peer[c] = "here") ~> (outcome[c] \in {"echoed", "killed"} \/ server = "dead")
=============================================================================
