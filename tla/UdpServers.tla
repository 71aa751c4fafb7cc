----------------------------- MODULE UdpServers ------------------------------
(***************************************************************************)
(* The UDP servers that run one loop around recvfrom(), and their clients: *)
(*                                                                         *)
(*   chat       UDP_CHAT/Brodcast: a text goes to every address the server *)
(*              has heard from but the sender's                            *)
(*   echo       udp_echo_server.c: back to the sender                      *)
(*   uppercase  udp_echo_uppercase_server.c: the same, in capitals         *)
(*   broadcast  udp_broadcast_sender.c: to the server's port on all hosts  *)
(*              of the network, its own included                           *)
(*   once       udp_oneway_server.c, UDP_ONE_WAY: nowhere, and the server  *)
(*              ends after the first                                       *)
(*                                                                         *)
(* A datagram is lost or arrives, in order.  A process that starts may get *)
(* the address that one before it had.                                     *)
(***************************************************************************)
EXTENDS Integers, Sequences, SequencesExt

CONSTANTS
    Clients,       \* client processes
    AddrOf,        \* the address and port each client sends from
    Server,        \* the address of the server
    Listeners,     \* addresses of udp_broadcast_receiver.c, on the server's port
    MAX_CLIENTS,   \* entries of the chat server's list
    MaxTexts,      \* bound: lines a chat user types
    QueueCap,      \* datagrams a socket buffer holds
    Killable,      \* bound: clients that may be killed
    Finite         \* bound: chat clients whose input ends

Addrs == {AddrOf[c] : c \in Clients}

ASSUME AddrAssumption == ({Server} \union Addrs) \intersect Listeners = {} /\ Server \notin Addrs
ASSUME UdpAssumption ==
    /\ MAX_CLIENTS \in Nat /\ MaxTexts \in Nat \ {0} /\ QueueCap \in Nat \ {0}
    /\ Killable \subseteq Clients /\ Finite \subseteq Clients

VARIABLES
    kind,      \* which server runs
    server,    \* "running" or "ended"
    clients,   \* clients[0 .. client_count-1] of the chat server
    queue,     \* datagrams in the server's socket: sender's address and text
    pc,        \* each client: "off", "up", "waiting", "over" or "killed"
    rcv,       \* the receiving thread of each chat client: "recv" or "deaf"
    buffer,    \* which text the buffer of each chat client's sending thread holds
    sent,      \* how many texts each client was given to send
    eof,       \* the chat client's input has ended
    inbox,     \* texts in the socket with each address
    answer,    \* what each client of an echo server was answered
    told,      \* which text the server has sent to which address
    again,     \* which of them it has sent there more than once
    lost       \* clients of whose datagrams, or of whose answers, one was dropped

clientVars == <<pc, rcv, buffer, sent, eof, answer>>
vars == <<kind, server, clients, queue, clientVars, inbox, told, again, lost>>

Echoes == {"echo", "uppercase"}
Kinds == {"chat", "broadcast", "once"} \union Echoes

\* The k-th line of c; none of its lines, but what an uninitialised buffer holds;
\* and no text at all, which that may be too.
Empty == 0
Junk == MaxTexts + 1
Texts == Clients \X (Empty .. Junk) \X {"typed", "capitals"}
Text(c, k) == <<c, k, "typed">>

Init ==
    /\ kind \in Kinds
    /\ server = "running"
    /\ clients = <<>>
    /\ queue = <<>>
    /\ pc = [c \in Clients |-> "off"]
    /\ rcv = [c \in Clients |-> "recv"]
    /\ buffer = [c \in Clients |-> Empty]
    /\ sent = [c \in Clients |-> 0]
    /\ eof = [c \in Clients |-> FALSE]
    /\ inbox = [a \in Addrs |-> <<>>]
    /\ answer = [c \in Clients |-> {}]
    /\ told = {}
    /\ again = {}
    /\ lost = {}

Up(c) == pc[c] \in {"up", "waiting"}
InUse(a) == \E c \in Clients : AddrOf[c] = a /\ Up(c)

-----------------------------------------------------------------------------
(* The server *)

\* The list after a datagram from a.  Mutants: an address is not looked for; the
\* room in the list is counted wrongly.
RegisteredAgain(a) ==
    IF kind = "chat" /\ Len(clients) < MAX_CLIENTS THEN Append(clients, a) ELSE clients
RegisteredBehind(a) ==
    IF kind = "chat" /\ a \notin Range(clients) /\ Len(clients) <= MAX_CLIENTS
    THEN Append(clients, a) ELSE clients
RegisteredButLast(a) ==
    IF kind = "chat" /\ a \notin Range(clients) /\ Len(clients) < MAX_CLIENTS - 1
    THEN Append(clients, a) ELSE clients
Registered(a) ==
    IF kind = "chat" /\ a \notin Range(clients) /\ Len(clients) < MAX_CLIENTS
    THEN Append(clients, a) ELSE clients

\* Where a text from a is sent, the list being what it is; and which addresses the
\* list holds more than once.
Targets(list, a) ==
    CASE kind = "chat" -> Range(list) \ {a}
      [] kind \in Echoes -> {a}
      [] kind = "broadcast" -> Listeners \union {Server}
      [] OTHER -> {}
Doubled(list) ==
    {a \in Range(list) : \E i, j \in DOMAIN list : i # j /\ list[i] = a /\ list[j] = a}

\* What is sent for a text.
Reply(t) == IF kind = "uppercase" THEN <<t[1], t[2], "capitals">> ELSE t

\* A datagram for a can be stored: by those that listen always, by a client that
\* is there and whose socket has room.
Stores(a) ==
    \/ a \in Listeners \union {Server}
    \/ InUse(a) /\ Len(inbox[a]) < QueueCap

\* One turn of the loop.  D are the addresses that what is sent to them reaches;
\* the clients there do not see in which order the sendto()s are made.
Handles ==
    /\ server = "running"
    /\ queue # <<>>
    /\ LET d == Head(queue)
           list == Registered(d.from)
           ts == Targets(list, d.from)
           t == Reply(d.text)
       IN  \E D \in SUBSET {a \in ts : Stores(a)} :
             /\ clients' = list
             /\ queue' = Tail(queue) \o
                    IF Server \in D THEN <<[from |-> Server, text |-> t]>> ELSE <<>>
             /\ inbox' = [a \in Addrs |-> IF a \in D THEN Append(inbox[a], t) ELSE inbox[a]]
             /\ told' = told \union (ts \X {t})
             /\ again' = again \union
                    {<<a, t>> : a \in {b \in ts : <<b, t>> \in told \/ b \in Doubled(list)}}
             /\ lost' = IF ts \subseteq D THEN lost ELSE lost \union {t[1]}
    /\ server' = IF kind = "once" THEN "ended" ELSE server
    /\ UNCHANGED <<kind, clientVars>>

-----------------------------------------------------------------------------
(* The clients *)

\* The process starts; its address is free again if another had it.
Starts(c) ==
    /\ pc[c] = "off"
    /\ ~InUse(AddrOf[c])
    /\ pc' = [pc EXCEPT ![c] = "up"]
    /\ UNCHANGED <<kind, server, clients, queue, rcv, buffer, sent, eof, inbox, answer,
                   told, again, lost>>

\* sendto() to the server.
Submits(c, k) ==
    \/ /\ server = "running"
       /\ Len(queue) < QueueCap
       /\ queue' = Append(queue, [from |-> AddrOf[c], text |-> Text(c, k)])
       /\ UNCHANGED lost
    \/ lost' = lost \union {c} /\ UNCHANGED queue

\* A chat user types a line, which send_messages() sends.
Says(c) ==
    /\ kind = "chat"
    /\ pc[c] = "up"
    /\ ~eof[c]
    /\ sent[c] < MaxTexts
    /\ sent' = [sent EXCEPT ![c] = @ + 1]
    /\ buffer' = [buffer EXCEPT ![c] = sent'[c]]
    /\ Submits(c, sent'[c])
    /\ UNCHANGED <<kind, server, clients, pc, rcv, eof, inbox, answer, told, again>>

\* A buffer that no line was read into holds what happens to be there.
InputEnds(c) ==
    /\ kind = "chat"
    /\ c \in Finite
    /\ pc[c] = "up"
    /\ ~eof[c]
    /\ eof' = [eof EXCEPT ![c] = TRUE]
    /\ buffer' \in {[buffer EXCEPT ![c] = k] :
                      k \in IF sent[c] = 0 THEN {Empty, Junk} ELSE {sent[c]}}
    /\ UNCHANGED <<kind, server, clients, queue, pc, rcv, sent, inbox, answer, told, again,
                   lost>>

\* fgets() fails, and send_messages() sends what its buffer holds.
Repeats(c) ==
    /\ pc[c] = "up"
    /\ eof[c]
    /\ Submits(c, buffer[c])
    /\ UNCHANGED <<kind, server, clients, clientVars, inbox, told, again>>

\* receive_messages(): recvfrom() <= 0 ends it, and no other thread.
Listens(c) ==
    /\ kind = "chat"
    /\ pc[c] = "up"
    /\ rcv[c] = "recv"
    /\ inbox[AddrOf[c]] # <<>>
    /\ rcv' = [rcv EXCEPT ![c] = IF Head(inbox[AddrOf[c]])[2] = Empty THEN "deaf" ELSE @]
    /\ inbox' = [inbox EXCEPT ![AddrOf[c]] = Tail(@)]
    /\ UNCHANGED <<kind, server, clients, queue, pc, buffer, sent, eof, answer, told, again, lost>>

\* The other clients send one text; those of an echo server wait for the answer.
Asks(c) ==
    /\ kind # "chat"
    /\ pc[c] = "up"
    /\ sent' = [sent EXCEPT ![c] = 1]
    /\ pc' = [pc EXCEPT ![c] = IF kind \in Echoes THEN "waiting" ELSE "over"]
    /\ Submits(c, 1)
    /\ UNCHANGED <<kind, server, clients, rcv, buffer, eof, inbox, answer, told, again>>

\* Whatever comes is taken for the answer: the process prints it, or dies for its
\* length.  close() throws away what the socket still holds.
Answered(c) ==
    /\ pc[c] = "waiting"
    /\ inbox[AddrOf[c]] # <<>>
    /\ answer' = [answer EXCEPT ![c] = {Head(inbox[AddrOf[c]])}]
    /\ inbox' = [inbox EXCEPT ![AddrOf[c]] = <<>>]
    /\ pc' = [pc EXCEPT ![c] = "over"]
    /\ UNCHANGED <<kind, server, clients, queue, rcv, buffer, sent, eof, told, again, lost>>

Killed(c) ==
    /\ c \in Killable
    /\ Up(c)
    /\ pc' = [pc EXCEPT ![c] = "killed"]
    /\ inbox' = [inbox EXCEPT ![AddrOf[c]] = <<>>]
    /\ UNCHANGED <<kind, server, clients, queue, rcv, buffer, sent, eof, answer, told, again, lost>>

-----------------------------------------------------------------------------
Client(c) == Repeats(c) \/ Listens(c) \/ Asks(c) \/ Answered(c)

Next ==
    \/ Handles
    \/ \E c \in Clients :
         \/ Client(c)
         \/ Starts(c)
         \/ Says(c)
         \/ InputEnds(c)
         \/ Killed(c)

Spec == Init /\ [][Next]_vars

\* The server handles what has come; the clients, once started, do what is theirs.
FairSpec == Spec /\ WF_vars(Handles) /\ \A c \in Clients : WF_vars(Client(c))

-----------------------------------------------------------------------------
TypeOK ==
    /\ kind \in Kinds
    /\ server \in {"running", "ended"}
    /\ clients \in Seq(Addrs) /\ Len(clients) <= MAX_CLIENTS
    /\ queue \in Seq([from : Addrs \union {Server}, text : Texts])
    /\ pc \in [Clients -> {"off", "up", "waiting", "over", "killed"}]
    /\ rcv \in [Clients -> {"recv", "deaf"}]
    /\ buffer \in [Clients -> Empty .. Junk]
    /\ sent \in [Clients -> 0 .. MaxTexts]
    /\ eof \in [Clients -> BOOLEAN]
    /\ inbox \in [Addrs -> Seq(Texts)]
    /\ answer \in [Clients -> SUBSET Texts]
    /\ told \subseteq (Addrs \union Listeners \union {Server}) \X Texts
    /\ again \subseteq told
    /\ lost \subseteq Clients

\* In the chat nobody is sent a text that came from its own address, and nobody is
\* sent one twice unless its author's input has ended and the client repeats it; a
\* client goes deaf only if one elsewhere reached the end of its input with nothing
\* typed, and sends empty datagrams from then on.  An echo client is answered with
\* its own text, or takes what was meant for one that was killed on its port.
HeardRight ==
    /\ kind = "chat" =>
         /\ \A m \in told : AddrOf[m[2][1]] # m[1]
         /\ \A m \in again : eof[m[2][1]]
    /\ \A c \in Clients : rcv[c] = "deaf" =>
         \E d \in Clients : AddrOf[d] # AddrOf[c] /\ eof[d] /\ sent[d] = 0
    /\ \A c \in Clients : \A t \in answer[c] :
         \/ t = Reply(Text(c, 1))
         \/ \E d \in Clients \ {c} : AddrOf[d] = AddrOf[c] /\ pc[d] = "killed"

\* What a server does for a client that has sent something.
Attended(c) ==
    CASE kind = "chat" -> AddrOf[c] \in Range(clients) \/ Len(clients) = MAX_CLIENTS
      [] kind \in Echoes -> answer[c] # {}
      [] kind = "broadcast" -> \A a \in Listeners : <<a, Text(c, 1)>> \in told
      [] OTHER -> server = "ended"

\* It is done unless one of the client's datagrams is lost: nothing is sent twice.
Served == \A c \in Clients : (sent[c] > 0) ~> (Attended(c) \/ c \in lost \/ pc[c] = "killed")
=============================================================================
