----------------------------- MODULE TurnTaking ------------------------------
(***************************************************************************)
(* The five pairs of programs in which a server and a client take turns at *)
(* typing and waiting:                                                     *)
(*                                                                         *)
(*   Socket   Socket_{Server,Client}.c                                     *)
(*   Tcp      MoreLearning/TCP_CHAT/TurnTaking                             *)
(*   Udp      MoreLearning/UDP_CHAT/TurnTaking                             *)
(*   First    Test_Code/tcp_chat_turntaking_{server,client}.c              *)
(*   Exit     Test_Code/udp_chat_turntaking_{server,client}.c              *)
(*                                                                         *)
(* All are one loop around a line of input, a send and a recv.  A program  *)
(* is a record of what its loop does in the cases where they differ.       *)
(***************************************************************************)
EXTENDS Integers, Sequences, SequencesExt

CONSTANTS
    Clients,     \* client processes, each of which connects at most once
    MaxTurns     \* bound: lines one user types

ASSUME TurnsAssumption == MaxTurns \in Nat

Server == "server"
Nobody == "nobody"
Parties == {Server} \union Clients

ASSUME ClientsAssumption == {Server, Nobody} \intersect Clients = {}

Sides == {"server", "client"}
Other(s) == IF s = "server" THEN "client" ELSE "server"

VARIABLES
    pair,         \* which pair of programs runs
    serverFirst,  \* the "first" argument each side of First was started with
    pc,           \* what each party does next
    addr,         \* the client the server talks to
    queue,        \* connections to accept, oldest first
    way,          \* for each client, what is on its way to either side
    end,          \* what either side's kernel knows of the other end
    input,        \* each party's standard input
    buffer,       \* what each party received last
    turns,        \* lines each user has typed
    late,         \* of these, the ones for a party that had left (history)
    lost,         \* clients that lost a datagram either way (history)
    skipped       \* clients that gave up a turn by an empty line (history)

users == <<input, turns, late, skipped>>
vars == <<pair, serverFirst, pc, addr, queue, way, end, users, buffer, lost>>

-----------------------------------------------------------------------------
(***************************************************************************)
(* first    what the loop begins with                                      *)
(* bye      the word to leave with is sent, or not, or there is none       *)
(* heeds    receiving that word ends the loop                              *)
(* gone     what recv() = 0 is followed by                                 *)
(* eof      what the end of the input does: nothing is sent, the buffer is *)
(*          sent again, or the loop ends                                   *)
(* blank    what an empty line does: it is text, or who goes on how        *)
(* answer   how the turn begins after a recv                               *)
(***************************************************************************)
SocketServer == [first |-> "recv", bye |-> "sent", heeds |-> FALSE, gone |-> "type",
                 eof |-> "nothing", blank |-> "text", answer |-> "type"]
SocketClient == [SocketServer EXCEPT !.first = "type"]

\* Mutant: only errors of recv() end the loop.
TcpServerErrorsOnly == [first |-> "type", bye |-> "silent", heeds |-> FALSE, gone |-> "type",
                        eof |-> "nothing", blank |-> "text", answer |-> "type"]
TcpServer == [first |-> "type", bye |-> "silent", heeds |-> FALSE, gone |-> "leave",
              eof |-> "nothing", blank |-> "text", answer |-> "type"]
TcpClient == [TcpServer EXCEPT !.first = "recv"]

UdpServer == [first |-> "recv", bye |-> "none", heeds |-> FALSE, gone |-> "type",
              eof |-> "again", blank |-> "text", answer |-> "type"]
UdpClient == [UdpServer EXCEPT !.first = "type"]

ExitServer == [UdpServer EXCEPT !.bye = "sent", !.heeds = TRUE]
ExitClient == [ExitServer EXCEPT !.first = "type"]

\* Without its argument this server is an echo server.
FirstServer ==
    IF serverFirst["server"]
    THEN [first |-> "type", bye |-> "none", heeds |-> FALSE, gone |-> "leave",
          eof |-> "leave", blank |-> "type", answer |-> "type"]
    ELSE [first |-> "recv", bye |-> "none", heeds |-> FALSE, gone |-> "leave",
          eof |-> "leave", blank |-> "type", answer |-> "echo"]
FirstClientFor(argument) ==
    IF argument
    THEN [first |-> "recv", bye |-> "silent", heeds |-> FALSE, gone |-> "leave",
          eof |-> "leave", blank |-> "recv", answer |-> "type"]
    ELSE [first |-> "type", bye |-> "silent", heeds |-> FALSE, gone |-> "leave",
          eof |-> "leave", blank |-> "type", answer |-> "type"]
\* Mutant: the argument is the client's own turn.
FirstClientInverted == FirstClientFor(~serverFirst["client"])
FirstClient == FirstClientFor(serverFirst["client"])

Program(p) ==
    CASE pair = "Socket" -> IF p = Server THEN SocketServer ELSE SocketClient
      [] pair = "Tcp"    -> IF p = Server THEN TcpServer ELSE TcpClient
      [] pair = "Udp"    -> IF p = Server THEN UdpServer ELSE UdpClient
      [] pair = "Exit"   -> IF p = Server THEN ExitServer ELSE ExitClient
      [] pair = "First"  -> IF p = Server THEN FirstServer ELSE FirstClient

Streams == {"Socket", "Tcp", "First"}
Datagrams == {"Udp", "Exit"}

Init ==
    /\ pair \in Streams \union Datagrams
    /\ serverFirst \in [Sides -> IF pair = "First" THEN BOOLEAN ELSE {FALSE}]
    /\ pc = [p \in Parties |-> IF p # Server THEN "off"
                               ELSE IF pair \in Streams THEN "accept" ELSE "recv"]
    /\ addr = Nobody
    /\ queue = <<>>
    /\ way = [c \in Clients |-> [s \in Sides |-> <<>>]]
    /\ end = [c \in Clients |-> [s \in Sides |-> "open"]]
    /\ input = [p \in Parties |-> "open"]
    /\ buffer = [p \in Parties |-> "text"]
    /\ turns = [p \in Parties |-> 0]
    /\ late = [c \in Clients |-> [s \in Sides |-> 0]]
    /\ lost = {}
    /\ skipped = {}

\* The connection, or the correspondent, of party p, and its side of it.
Conn(p) == IF p = Server THEN addr ELSE p
Side(p) == IF p = Server THEN "server" ELSE "client"
Peer(p) == IF p = Server THEN addr ELSE Server
Unread(p) == way[Conn(p)][Side(p)]
End(p) == end[Conn(p)][Side(p)]

-----------------------------------------------------------------------------
(* Sending *)

\* A first send() after the other end was closed succeeds, and the next one does
\* not.  A datagram may be lost.
Sends(p, m) ==
    LET arrived == [way EXCEPT ![Conn(p)][Other(Side(p))] = Append(@, m)] IN
    \/ /\ pair \in Streams
       /\ End(p) = "open"
       /\ way' = arrived
       /\ UNCHANGED <<end, lost>>
    \/ /\ pair \in Streams
       /\ End(p) = "closed"
       /\ end' = [end EXCEPT ![Conn(p)][Side(p)] = "broken"]
       /\ UNCHANGED <<way, lost>>
    \/ /\ pair \in Datagrams
       /\ way' = IF pc[Peer(p)] = "left" THEN way ELSE arrived
       /\ UNCHANGED <<end, lost>>
    \/ /\ pair \in Datagrams
       /\ lost' = lost \union {Conn(p)}
       /\ UNCHANGED <<way, end>>

\* The user of p types.
Typing(p) ==
    /\ pc[p] = "type"
    /\ turns[p] < MaxTurns
    /\ turns' = [turns EXCEPT ![p] = @ + 1]
    /\ late' = [late EXCEPT ![Conn(p)][Side(p)] = IF pc[Peer(p)] = "left" THEN @ + 1 ELSE @]

TypesText(p) ==
    /\ input[p] = "open"
    /\ Typing(p)
    /\ Sends(p, "text")
    /\ pc' = [pc EXCEPT ![p] = "recv"]
    /\ UNCHANGED <<pair, serverFirst, addr, queue, input, skipped, buffer>>

\* "Bye", "exit" or "quit".
TypesBye(p) ==
    /\ input[p] = "open"
    /\ Program(p).bye # "none"
    /\ Typing(p)
    /\ IF Program(p).bye = "sent" THEN Sends(p, "bye") ELSE UNCHANGED <<way, end, lost>>
    /\ pc' = [pc EXCEPT ![p] = "leave"]
    /\ UNCHANGED <<pair, serverFirst, addr, queue, input, skipped, buffer>>

\* An empty line that is not sent: where the loop asks for another one nothing
\* changes, and where it goes back to its recv the turn is gone.
TypesBlank(p) ==
    /\ input[p] = "open"
    /\ Program(p).blank = "recv"
    /\ Typing(p)
    /\ pc' = [pc EXCEPT ![p] = "recv"]
    /\ skipped' = skipped \union {p}
    /\ UNCHANGED <<pair, serverFirst, addr, queue, way, end, input, buffer, lost>>

InputEnds(p) ==
    /\ pc[p] = "type"
    /\ input[p] = "open"
    /\ input' = [input EXCEPT ![p] = "ended"]
    /\ UNCHANGED <<pair, serverFirst, pc, addr, queue, way, end, turns, late, skipped, buffer, lost>>

\* fgets() returns NULL: the buffer is empty where it was cleared, holds what was
\* received last where it was not, and the loop ends where the result is tested.
TypesNothing(p) ==
    /\ input[p] = "ended"
    /\ \/ /\ pc[p] = "type"
          /\ Program(p).eof # "again"
          /\ Program(p).eof = "nothing" => End(p) \in {"open", "closed"}
          /\ pc' = [pc EXCEPT ![p] = IF Program(p).eof = "leave" THEN "leave" ELSE "recv"]
          /\ UNCHANGED <<way, end, lost, turns, late>>
       \/ /\ Program(p).eof = "again"
          /\ Typing(p)
          /\ Sends(p, buffer[p])
          /\ pc' = [pc EXCEPT ![p] = IF buffer[p] = "bye" /\ Program(p).bye = "sent"
                                     THEN "leave" ELSE "recv"]
    /\ UNCHANGED <<pair, serverFirst, addr, queue, input, skipped, buffer>>

Echo ==
    /\ pc[Server] = "echo"
    /\ Sends(Server, "text")
    /\ pc' = [pc EXCEPT ![Server] = "recv"]
    /\ UNCHANGED <<pair, serverFirst, addr, queue, users, buffer>>

\* A send() of nothing fails like any other.
SendsUnasked(p) ==
    pc[p] = "echo" \/ (pc[p] = "type" /\ input[p] = "ended" /\ Program(p).eof = "nothing")

\* SIGPIPE, or an error of send() that ends the loop; Tcp does not look at it
\* and finds out in recv().
SendFails(p) ==
    /\ pair \in Streams
    /\ pc[p] \in {"type", "echo"}
    /\ End(p) \in {"broken", "reset"}
    /\ \/ input[p] = "open" /\ Typing(p)
       \/ SendsUnasked(p) /\ UNCHANGED <<turns, late>>
    /\ pc' = [pc EXCEPT ![p] = IF pair = "Tcp" /\ End(p) = "reset" THEN "recv" ELSE "leave"]
    /\ end' = [end EXCEPT ![Conn(p)][Side(p)] = "broken"]
    /\ UNCHANGED <<pair, serverFirst, addr, queue, way, input, skipped, buffer, lost>>

-----------------------------------------------------------------------------
(* Receiving *)

\* recv() of a stream returns one or more of the texts that wait, as one.
ReceivesText(p) ==
    /\ pair \in Streams
    /\ pc[p] = "recv"
    /\ \E n \in 1 .. Len(Unread(p)) :
         way' = [way EXCEPT ![Conn(p)][Side(p)] = SubSeq(@, n + 1, Len(@))]
    /\ pc' = [pc EXCEPT ![p] = Program(p).answer]
    /\ UNCHANGED <<pair, serverFirst, addr, queue, end, users, buffer, lost>>

\* recvfrom() sets the address the next sendto() goes to.  Mutant: the first one
\* is kept.
Kept(c) == IF addr = Nobody THEN c ELSE addr
Sender(c) == c

\* The first datagram the server receives is not looked at.
ReceivesDatagram(p) ==
    /\ pair \in Datagrams
    /\ pc[p] = "recv"
    /\ \E c \in IF p = Server THEN Clients ELSE {p} :
         /\ way[c][Side(p)] # <<>>
         /\ buffer' = [buffer EXCEPT ![p] = Head(way[c][Side(p)])]
         /\ way' = [way EXCEPT ![c][Side(p)] = Tail(@)]
         /\ addr' = IF p = Server THEN Sender(c) ELSE addr
    /\ pc' = [pc EXCEPT ![p] =
                IF buffer'[p] = "bye" /\ Program(p).heeds /\ ~(p = Server /\ addr = Nobody)
                THEN "leave" ELSE "type"]
    /\ UNCHANGED <<pair, serverFirst, queue, end, users, lost>>

\* recv() returns 0, or an error once.
ReceivesEnd(p) ==
    /\ pair \in Streams
    /\ pc[p] = "recv"
    /\ Unread(p) = <<>>
    /\ End(p) # "open"
    /\ pc' = [pc EXCEPT ![p] = IF End(p) = "reset" THEN "leave" ELSE Program(p).gone]
    /\ end' = [end EXCEPT ![Conn(p)][Side(p)] = IF @ = "reset" THEN "broken" ELSE @]
    /\ UNCHANGED <<pair, serverFirst, addr, queue, way, users, buffer, lost>>

-----------------------------------------------------------------------------
(* Coming and going *)

Connect(c) ==
    /\ pc[c] = "off"
    /\ pair \in Streams => pc[Server] # "left"
    /\ pc' = [pc EXCEPT ![c] = Program(c).first]
    /\ queue' = IF pair \in Streams THEN Append(queue, c) ELSE queue
    /\ UNCHANGED <<pair, serverFirst, addr, way, end, users, buffer, lost>>

Accept ==
    /\ pc[Server] = "accept"
    /\ queue # <<>>
    /\ addr' = Head(queue)
    /\ queue' = Tail(queue)
    /\ pc' = [pc EXCEPT ![Server] = Program(Server).first]
    /\ UNCHANGED <<pair, serverFirst, way, end, users, buffer, lost>>

\* What the other side of connection c sees when side s is closed: an error if
\* something was unread or the connection was not accepted, the end otherwise.
SeesEnd(c, s) ==
    IF end[c][Other(s)] # "open" THEN end[c][Other(s)]
    ELSE IF way[c][s] # <<>> \/ (s = "server" /\ c \in Range(queue)) THEN "reset" ELSE "closed"

\* Side s of the connections of cs is closed.
Close(cs, s) ==
    /\ way' = [c \in Clients |-> IF c \in cs THEN [way[c] EXCEPT ![s] = <<>>] ELSE way[c]]
    /\ end' = [c \in Clients |-> IF c \in cs /\ pair \in Streams
                                 THEN [end[c] EXCEPT ![Other(s)] = SeesEnd(c, s)] ELSE end[c]]

\* The process ends.
Ends(p) ==
    /\ Close(IF p = Server THEN Clients ELSE {p}, Side(p))
    /\ pc' = [pc EXCEPT ![p] = "left"]
    /\ queue' = IF p = Server THEN <<>> ELSE queue
    /\ UNCHANGED <<pair, serverFirst, addr, users, buffer, lost>>

Leave(p) ==
    /\ pc[p] = "leave"
    /\ ~(p = Server /\ pair = "First")
    /\ Ends(p)

\* The server of First goes on to its next client.  Mutant: without an accept().
HangsUp(next) ==
    /\ pair = "First"
    /\ pc[Server] = "leave"
    /\ Close({addr}, "server")
    /\ pc' = [pc EXCEPT ![Server] = next]
    /\ addr' = Nobody
    /\ UNCHANGED <<pair, serverFirst, queue, users, buffer, lost>>
HangUpOnly == HangsUp("recv")
HangUp == HangsUp("accept")

\* SIGINT.
Interrupted(p) == pc[p] \in {"accept", "type", "recv"} /\ Ends(p)

-----------------------------------------------------------------------------
Next ==
    \/ Accept
    \/ Echo
    \/ HangUp
    \/ \E c \in Clients : Connect(c)
    \/ \E p \in Parties :
         \/ TypesText(p)
         \/ TypesBye(p)
         \/ TypesBlank(p)
         \/ InputEnds(p)
         \/ TypesNothing(p)
         \/ SendFails(p)
         \/ ReceivesText(p)
         \/ ReceivesDatagram(p)
         \/ ReceivesEnd(p)
         \/ Leave(p)
         \/ Interrupted(p)

Spec == Init /\ [][Next]_vars

-----------------------------------------------------------------------------
Messages == {"text", "bye"}

TypeOK ==
    /\ pair \in Streams \union Datagrams
    /\ serverFirst \in [Sides -> BOOLEAN]
    /\ pc \in [Parties -> {"off", "accept", "type", "recv", "echo", "leave", "left"}]
    /\ addr \in Clients \union {Nobody}
    /\ pc[Server] \in {"type", "echo", "leave"} => addr \in Clients
    /\ pair \in Streams /\ pc[Server] = "recv" => addr \in Clients
    /\ queue \in Seq(Clients)
    /\ way \in [Clients -> [Sides -> Seq(Messages)]]
    /\ end \in [Clients -> [Sides -> {"open", "closed", "reset", "broken"}]]
    /\ input \in [Parties -> {"open", "ended"}]
    /\ buffer \in [Parties -> Messages]
    /\ turns \in [Parties -> 0 .. MaxTurns]
    /\ late \in [Clients -> [Sides -> 0 .. MaxTurns]]
    /\ lost \subseteq Clients
    /\ skipped \subseteq Parties

\* The two sides were started with the same idea of who begins.
Agreed == serverFirst["server"] = serverFirst["client"]

\* Between two sides that agree who begins there is one text at most, so that a
\* stream, which keeps no boundaries, never merges two, and what recv() returns
\* may be taken for what the other side sent.
OneInFlight ==
    Agreed => \A c \in Clients : Len(way[c]["server"]) + Len(way[c]["client"]) <= 1

\* Both sides wait for each other, for ever, only after a lost datagram, at the
\* end of one's input, after an empty line of a client of First that was started
\* with "s", or when they do not agree who begins.
StuckHasCause ==
    \A c \in Clients :
      /\ pc[Server] = "recv" /\ pc[c] = "recv"
      /\ way[c]["server"] = <<>> /\ way[c]["client"] = <<>>
      /\ pair \in Streams => addr = c /\ end[c]["server"] = "open" /\ end[c]["client"] = "open"
      => \/ c \in lost
         \/ Program(Server).eof = "nothing" /\ (input[Server] = "ended" \/ input[c] = "ended")
         \/ serverFirst["client"] /\ c \in skipped
         \/ ~Agreed

\* A user types no more than one line for a party that has left before the program ends
\* or waits; two with the programs of Socket, which do not look for the end of the stream,
\* and two with sides of First that do not agree who begins, because who has typed out of
\* turn receives the other's text before the end and is asked again.
LateLinesBounded ==
    \A c \in Clients, s \in Sides :
      late[c][s] <= IF pair = "Socket" \/ ~Agreed THEN 2 ELSE 1
=============================================================================
