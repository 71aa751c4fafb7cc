------------------------------ MODULE PairProofs ------------------------------
(***************************************************************************)
(* What the programs that come in pairs guarantee.  TurnTaking, for any     *)
(* number of clients and lines: turns are kept by each conversation as long *)
(* as both of its sides go on, and what stops it is one of the causes       *)
(* listed.  StreamPair, through the instance Pair, for files and buffers of *)
(* any size: a receiver that ends by itself has the whole.                  *)
(***************************************************************************)
EXTENDS TurnTaking, SequenceTheorems, TLAPS

\* The party of side s of client c's conversation, and whether it is its turn: a server
\* that begins has its turn as soon as the client is in the queue.
Party(c, s) == IF s = "server" THEN Server ELSE c
HasTurn(c, s) ==
    IF s = "client" THEN pc[c] \in {"type", "echo"}
    ELSE \/ addr = c /\ pc[Server] \in {"type", "echo"}
         \/ c \in Range(queue) /\ Program(Server).first = "type"

\* Whoever comes waits once, and starts with nothing.
QueueInv ==
    /\ \A k \in 1 .. Len(queue) : pc[queue[k]] # "off" /\ queue[k] # addr /\ late[queue[k]]["server"] = 0
    /\ \A k, l \in 1 .. Len(queue) : k # l => queue[k] # queue[l]
    /\ addr \in Clients => pc[addr] # "off"
    /\ pc[Server] = "accept" => addr = Nobody
    /\ queue # <<>> => pair \in Streams /\ pc[Server] # "left"
    /\ pc[Server] # "off"
Fresh(c) ==
    pc[c] = "off" => /\ \A s \in Sides : way[c][s] = <<>> /\ late[c][s] = 0
                     /\ end[c]["server"] = "open"

\* An end is not open only if the other side is gone, and then nothing comes from here.
GoneFor(c, s) ==
    IF s = "client" THEN pc[c] = "left"
    ELSE pc[Server] = "left" \/ (pc[c] # "off" /\ addr # c /\ c \notin Range(queue))
Ending(c) ==
    \A s \in Sides :
      /\ end[c][s] # "open" => pair \in Streams /\ GoneFor(c, Other(s)) /\ way[c][Other(s)] = <<>>
      /\ pair \in Streams /\ pc[Party(c, Other(s))] = "left" => end[c][s] # "open"

\* One side has its turn, or one text is on its way, and never two of them.
OneSpeaks(c) ==
    /\ ~(HasTurn(c, "client") /\ HasTurn(c, "server"))
    /\ \A s, t \in Sides : way[c][s] # <<>> => ~HasTurn(c, t)
    /\ \A s \in Sides : Len(way[c][s]) <= 1
    /\ way[c]["server"] = <<>> \/ way[c]["client"] = <<>>

\* Sides that do not agree are sides of First, and do not begin if neither thinks it is to.
Mute(c) ==
    ~Agreed =>
      /\ pair = "First"
      /\ serverFirst["client"] => \A s \in Sides : ~HasTurn(c, s) /\ way[c][s] = <<>>

\* Who typed for a party that had left has nothing to receive, and does not type again,
\* but once with the programs of Socket and where the sides do not agree.
Twice == pair = "Socket" \/ ~Agreed
Done(c, s) == IF s = "client" THEN pc[c] \in {"leave", "left"}
              ELSE pc[Server] \in {"leave", "left"} \/ addr # c
Late(c) ==
    \A s \in Sides :
      /\ late[c][s] <= turns[Party(c, s)]
      /\ late[c][s] # 0 =>
           /\ pc[Party(c, Other(s))] = "left"
           /\ Agreed => way[c][s] = <<>>
           /\ IF Twice THEN \/ late[c][s] = 1 /\ end[c][s] = "broken"
                            \/ late[c][s] <= 2 /\ Done(c, s)
              ELSE late[c][s] = 1 /\ ~HasTurn(c, s)

\* A conversation that goes on, and what may have stopped it.
Alive(c) ==
    /\ pc[c] \in {"type", "recv", "echo"}
    /\ IF pair \in Streams
       THEN /\ \A s \in Sides : end[c][s] = "open"
            /\ c \in Range(queue) \/ (addr = c /\ pc[Server] \in {"type", "recv", "echo"})
       ELSE pc[Server] \in {"type", "recv", "echo"}
Cause(c) ==
    \/ c \in lost
    \/ Program(Server).eof = "nothing" /\ (input[Server] = "ended" \/ input[c] = "ended")
    \/ serverFirst["client"] /\ c \in skipped
Moving(c) ==
    Alive(c) /\ ~HasTurn(c, "client") /\ ~HasTurn(c, "server")
      /\ way[c]["server"] = <<>> /\ way[c]["client"] = <<>> => Cause(c)

Talk(c) ==
    Fresh(c) /\ Ending(c) /\ Mute(c) /\ Late(c) /\ (Agreed => OneSpeaks(c) /\ Moving(c))

Inv ==
    /\ TypeOK
    /\ QueueInv
    /\ \A c \in Clients : Talk(c)

-----------------------------------------------------------------------------
(* Programs and parties *)

\* What the proofs use of the ten programs.
LEMMA ProgramFacts ==
  ASSUME pair \in Streams \union Datagrams, NEW p
  PROVE  /\ Program(p).first \in {"type", "recv"}
         /\ Program(p).answer \in {"type", "echo"}
         /\ Program(p).gone \in {"type", "leave"}
         /\ Program(p).gone = "type" /\ pair \in Streams => pair = "Socket"
         /\ Program(p).blank = "recv" => serverFirst["client"] /\ p # Server /\ pair = "First"
         /\ Program(p).eof \in {"nothing", "again", "leave"}
         /\ Program(p).eof = "nothing" <=> pair \in {"Socket", "Tcp"}
         /\ Program(p).eof = "again" => pair \in Datagrams
         /\ Program(p).bye = "silent" => pair # "Socket"
         /\ Program(p).bye \in {"none", "sent", "silent"}
         /\ pair \in Datagrams => Program(p).answer = "type"
         /\ pair \in Datagrams /\ p # Server => Program(p).first = "type"
<1> USE DEF Program, Streams, Datagrams, SocketServer, SocketClient, TcpServer, TcpClient,
            UdpServer, UdpClient, ExitServer, ExitClient, FirstServer, FirstClient, FirstClientFor
<1>1. CASE pair = "Socket"
  BY <1>1
<1>2. CASE pair = "Tcp"
  BY <1>2
<1>3. CASE pair = "Udp"
  BY <1>3
<1>4. CASE pair = "Exit"
  BY <1>4
<1>5. CASE pair = "First"
  BY <1>5
<1> QED
  BY <1>1, <1>2, <1>3, <1>4, <1>5

\* Over streams one side begins, and not both, if they agree.
LEMMA OneBegins ==
  ASSUME pair \in Streams, serverFirst \in [Sides -> BOOLEAN], Agreed, NEW c, c # Server
  PROVE  Program(Server).first = "type" <=> Program(c).first = "recv"
<1> USE DEF Program, Streams, SocketServer, SocketClient, TcpServer, TcpClient,
            FirstServer, FirstClient, FirstClientFor, Agreed
<1>1. CASE pair = "Socket"
  BY <1>1
<1>2. CASE pair = "Tcp"
  BY <1>2
<1>3. CASE pair = "First"
  BY <1>3
<1> QED
  BY <1>1, <1>2, <1>3

\* A server of First that is to answer and a client that is to wait begin nothing.
LEMMA NoneBegins ==
  ASSUME pair = "First", serverFirst \in [Sides -> BOOLEAN], ~Agreed, serverFirst["client"],
         NEW c, c # Server
  PROVE  Program(Server).first # "type" /\ Program(c).first # "type"
BY DEF Program, FirstServer, FirstClient, FirstClientFor, Agreed

\* Programs do not change.
LEMMA ProgramSame ==
  ASSUME pair' = pair, serverFirst' = serverFirst
  PROVE  /\ \A p : Program(p)' = Program(p)
         /\ Agreed' <=> Agreed
         /\ Twice' <=> Twice
BY DEF Program, FirstServer, FirstClient, Agreed, Twice

\* Who may type twice for a party that has left talks over a stream, and has its turn only
\* if one of the sides began.
LEMMA TwiceFacts ==
  ASSUME Inv, NEW c \in Clients, Twice
  PROVE  /\ pair = "Socket" \/ (pair = "First" /\ ~Agreed)
         /\ pair \in Streams /\ pair # "Tcp"
         /\ pair = "First" /\ serverFirst["client"] => \A s \in Sides : ~HasTurn(c, s)
<1>1. pair = "Socket" \/ (pair = "First" /\ ~Agreed)
  BY DEF Inv, Talk, Mute, Twice
<1> QED
  BY <1>1 DEF Inv, Talk, Mute, Twice, Streams

\* Sides and parties of a conversation.
LEMMA SideFacts ==
  /\ Sides = {"server", "client"}
  /\ \A s \in Sides : Other(s) \in Sides /\ Other(s) # s /\ Other(Other(s)) = s
  /\ \A s \in Sides, t \in Sides : t = s \/ t = Other(s)
  /\ Other("server") = "client" /\ Other("client") = "server"
  /\ Server \notin Clients /\ Nobody \notin Clients
  /\ \A c : Party(c, "server") = Server /\ Party(c, "client") = c
BY ClientsAssumption DEF Sides, Other, Party

\* Party p talks in conversation c.
Talks(p, c) == p \in Parties /\ c \in Clients /\ c = Conn(p)

\* A party and its side of its own conversation.
LEMMA Talking ==
  ASSUME TypeOK, QueueInv, NEW p, NEW c, Talks(p, c)
  PROVE  /\ Side(p) \in Sides /\ Party(c, Side(p)) = p
         /\ Party(c, Other(Side(p))) = Peer(p) /\ Peer(p) # p
         /\ HasTurn(c, Side(p)) <=> pc[p] \in {"type", "echo"}
         /\ GoneFor(c, Side(p)) <=> pc[p] = "left"
         /\ pc[p] # "off" => pc[c] # "off"
<1>1. CASE p = Server
  <2>1. c = addr /\ Side(p) = "server" /\ Peer(p) = addr
    BY <1>1 DEF Talks, Conn, Side, Peer
  <2>2. c \notin Range(queue)
    BY <2>1 DEF QueueInv, Range, TypeOK
  <2>3. pc[c] # "off"
    BY <2>1 DEF QueueInv, Talks
  <2> QED
    BY <1>1, <2>1, <2>2, <2>3, SideFacts DEF Talks, HasTurn, GoneFor
<1>2. CASE p # Server
  <2>1. c = p /\ Side(p) = "client" /\ Peer(p) = Server
    BY <1>2 DEF Talks, Conn, Side, Peer
  <2> QED
    BY <1>2, <2>1, SideFacts DEF Talks, HasTurn, GoneFor
<1> QED
  BY <1>1, <1>2

-----------------------------------------------------------------------------
(* A step of others *)

\* What a conversation that a step is not about depends on.
Same(d) ==
    /\ UNCHANGED <<pair, serverFirst>>
    /\ way'[d] = way[d] /\ end'[d] = end[d] /\ late'[d] = late[d] /\ pc'[d] = pc[d]
    /\ pc'[Server] = "left" <=> pc[Server] = "left"
    /\ HasTurn(d, "server")' <=> HasTurn(d, "server")
    /\ GoneFor(d, "server") => GoneFor(d, "server")'
    /\ late[d]["server"] # 0 /\ Done(d, "server") => Done(d, "server")'
    /\ Alive(d)' => Alive(d)
    /\ turns'[d] = turns[d] /\ turns[Server] <= turns'[Server]
    /\ Cause(d) => Cause(d)'

\* What holds of a conversation still holds after a step that leaves it alone.
LEMMA SameTalk ==
  ASSUME TypeOK, NEW d \in Clients, Talk(d), Same(d), turns' \in [Parties -> 0 .. MaxTurns]
  PROVE  Talk(d)'
<1>0. /\ Agreed' <=> Agreed
      /\ Twice' <=> Twice
      /\ pair' = pair /\ serverFirst' = serverFirst
      /\ way'[d] = way[d] /\ end'[d] = end[d] /\ late'[d] = late[d]
  BY ProgramSame DEF Same
<1>1. HasTurn(d, "client")' <=> HasTurn(d, "client")
  BY DEF Same, HasTurn
<1>2. GoneFor(d, "client")' <=> GoneFor(d, "client")
  BY DEF Same, GoneFor
<1>3. Done(d, "client")' <=> Done(d, "client")
  BY DEF Same, Done
<1>4. \A s \in Sides : /\ HasTurn(d, s)' <=> HasTurn(d, s)
                       /\ GoneFor(d, s) => GoneFor(d, s)'
                       /\ late[d][s] # 0 /\ Done(d, s) => Done(d, s)'
                       /\ pc'[Party(d, s)] = "left" <=> pc[Party(d, s)] = "left"
  BY <1>1, <1>2, <1>3, SideFacts DEF Same
<1>5. Fresh(d)'
  BY DEF Same, Fresh, Talk
<1>6. Ending(d)'
  BY <1>0, <1>4, SideFacts DEF Ending, Talk
<1>7. Late(d)'
  <2>1. \A s \in Sides : late[d][s] <= turns'[Party(d, s)]
    <3>1. /\ \A s \in Sides : late[d][s] \in Nat /\ late[d][s] <= turns[Party(d, s)]
          /\ turns[Server] \in Nat /\ turns'[Server] \in Nat
      BY TurnsAssumption DEF Talk, Late, TypeOK, Parties
    <3> QED
      BY <3>1, SideFacts DEF Same
  <2> QED
    BY <1>0, <1>4, <2>1, SideFacts DEF Late, Talk
<1>8. OneSpeaks(d) => OneSpeaks(d)'
  BY <1>0, <1>4, SideFacts DEF OneSpeaks
<1>9. Moving(d) => Moving(d)'
  BY <1>0, <1>4, SideFacts DEF Same, Moving
<1>10. Mute(d)'
  BY <1>0, <1>4, SideFacts DEF Mute, Talk
<1> QED
  BY <1>0, <1>5, <1>6, <1>7, <1>8, <1>9, <1>10 DEF Talk

-----------------------------------------------------------------------------
(* Taking one's turn *)

\* A queue that a message was added to.
LEMMA Longer ==
  ASSUME NEW S, NEW w \in Seq(S), NEW m \in S
  PROVE  Append(w, m) # <<>> /\ Append(w, m) \in Seq(S) /\ Len(Append(w, m)) = Len(w) + 1
<1>1. Len(Append(w, m)) = Len(w) + 1 /\ Len(w) \in Nat /\ Append(w, m) \in Seq(S)
  OBVIOUS
<1>2. Len(<<>>) = 0
  OBVIOUS
<1> QED
  BY <1>1, <1>2

\* What is kept for a side of a conversation, changed.
LEMMA Update ==
  ASSUME NEW S, NEW f \in [Clients -> [Sides -> S]], NEW c \in Clients, NEW s \in Sides, NEW v \in S
  PROVE  /\ [f EXCEPT ![c][s] = v] \in [Clients -> [Sides -> S]]
         /\ [f EXCEPT ![c][s] = v][c][s] = v
         /\ \A t \in Sides : t # s => [f EXCEPT ![c][s] = v][c][t] = f[c][t]
         /\ \A d \in Clients : d # c => [f EXCEPT ![c][s] = v][d] = f[d]
OBVIOUS

\* Something was sent by party p of conversation c, or an end was noticed, or neither.
Sent(p, c) ==
    /\ \/ way' = way
       \/ /\ end[c][Side(p)] = "open"
          /\ \E m \in Messages : way' = [way EXCEPT ![c][Other(Side(p))] = Append(@, m)]
    /\ \/ end' = end
       \/ /\ end[c][Side(p)] # "open"
          /\ end' = [end EXCEPT ![c][Side(p)] = "broken"]

\* Party p of conversation c has said something, or could not, and waits or leaves.
Spoke(p, c, q) ==
    /\ Talks(p, c) /\ pc[p] \in {"type", "echo"} /\ q \in {"recv", "leave"}
    /\ pc' = [pc EXCEPT ![p] = q]
    /\ UNCHANGED <<pair, serverFirst, addr, queue, input, buffer>>
    /\ Sent(p, c)
    /\ \/ UNCHANGED <<turns, late>>
       \/ /\ turns[p] < MaxTurns
          /\ turns' = [turns EXCEPT ![p] = @ + 1]
          /\ \/ late' = late
             \/ /\ pc[Peer(p)] = "left"
                /\ late' = [late EXCEPT ![c][Side(p)] = @ + 1]
                /\ Twice => q = "leave" \/ end'[c][Side(p)] = "broken"
    /\ Twice /\ end[c][Side(p)] = "broken" => q = "leave"
    /\ lost \subseteq lost' /\ lost' \subseteq Clients
    /\ skipped \subseteq skipped' /\ skipped' \subseteq Parties
    /\ \/ q = "leave" \/ way' # way \/ end[c][Side(p)] # "open" \/ pc[Peer(p)] = "left"
       \/ Cause(c)'

\* Speaking in one conversation leaves the others alone.
LEMMA SpokeOthers ==
  ASSUME Inv, NEW p, NEW c, NEW q, Spoke(p, c, q), NEW d \in Clients, d # c,
         turns' \in [Parties -> 0 .. MaxTurns]
  PROVE  Talk(d)'
<1>1. TypeOK /\ Talk(d) /\ p \in Parties /\ p # d /\ c \in Clients
  BY SideFacts DEF Inv, Spoke, Sent, Talks, Conn
<1>2. way'[d] = way[d] /\ end'[d] = end[d] /\ late'[d] = late[d]
  BY <1>1 DEF Spoke, Sent, TypeOK
<1>3. pc'[d] = pc[d] /\ (pc'[Server] = "left" <=> pc[Server] = "left")
  BY <1>1 DEF Spoke, Sent, TypeOK, Parties
<1>4. p = Server => addr # d
  BY DEF Spoke, Sent, Talks, Conn
<1>5. pc'[Server] # pc[Server] => p = Server
  BY <1>1 DEF Spoke, Sent, TypeOK, Parties
<1>6. HasTurn(d, "server")' <=> HasTurn(d, "server")
  <2>1. Program(Server)' = Program(Server) /\ addr' = addr /\ queue' = queue
    BY ProgramSame DEF Spoke, Sent
  <2> QED
    BY <1>4, <1>5, <2>1 DEF HasTurn
<1>7. GoneFor(d, "server") => GoneFor(d, "server")'
  BY <1>3 DEF GoneFor, Spoke, Sent
<1>8. Done(d, "server") => Done(d, "server")'
  BY <1>4, <1>5 DEF Done, Spoke, Sent
<1>9. Alive(d)' => Alive(d)
  <2>1. pc'[Server] \in {"type", "recv", "echo"} => pc[Server] \in {"type", "recv", "echo"}
    BY <1>5 DEF Spoke, Sent
  <2> QED
    BY <1>2, <1>3, <2>1 DEF Alive, Spoke, Sent
<1>10. turns'[d] = turns[d] /\ turns[Server] <= turns'[Server]
  <2>1. turns[Server] \in Nat /\ turns[p] \in Nat /\ d \in Parties /\ Server \in Parties
    BY <1>1, TurnsAssumption DEF TypeOK, Parties
  <2>2. turns'[d] = turns[d]
    BY <1>1, <2>1 DEF Spoke, Sent, TypeOK
  <2>3. turns'[Server] = turns[Server] \/ turns'[Server] = turns[Server] + 1
    BY <1>1, <2>1 DEF Spoke, Sent, TypeOK
  <2> QED
    BY <2>1, <2>2, <2>3
<1>11. Cause(d) => Cause(d)'
  BY ProgramSame DEF Cause, Spoke, Sent
<1>12. Same(d)
  BY <1>2, <1>3, <1>6, <1>7, <1>8, <1>9, <1>10, <1>11 DEF Same, Spoke, Sent
<1> QED
  BY <1>1, <1>12, SameTalk

\* Speaking keeps the types: no side counts more late lines than it typed lines.
LEMMA SpokeTypes ==
  ASSUME Inv, NEW p, NEW c, NEW q, Spoke(p, c, q)
  PROVE  TypeOK'
<1>1. TypeOK /\ p \in Parties /\ c \in Clients /\ Side(p) \in Sides /\ Other(Side(p)) \in Sides
  BY SideFacts DEF Inv, Spoke, Sent, Talks, Side
<1>2. pc' \in [Parties -> {"off", "accept", "type", "recv", "echo", "leave", "left"}]
  BY <1>1 DEF Spoke, Sent, TypeOK
<1>3. way' \in [Clients -> [Sides -> Seq(Messages)]]
  <2>1. CASE way' = way
    BY <1>1, <2>1 DEF TypeOK
  <2>2. ASSUME NEW m \in Messages, way' = [way EXCEPT ![c][Other(Side(p))] = Append(@, m)]
        PROVE  way' \in [Clients -> [Sides -> Seq(Messages)]]
    <3>1. way \in [Clients -> [Sides -> Seq(Messages)]]
      BY <1>1 DEF TypeOK
    <3>2. Append(way[c][Other(Side(p))], m) \in Seq(Messages)
      BY <1>1, <3>1
    <3> QED
      BY <1>1, <2>2, <3>1, <3>2, Update
  <2> QED
    BY <2>1, <2>2 DEF Spoke, Sent
<1>4. end' \in [Clients -> [Sides -> {"open", "closed", "reset", "broken"}]]
  <2>1. end \in [Clients -> [Sides -> {"open", "closed", "reset", "broken"}]]
    BY <1>1 DEF TypeOK
  <2>2. [end EXCEPT ![c][Side(p)] = "broken"] \in [Clients -> [Sides -> {"open", "closed", "reset", "broken"}]]
    BY <1>1, <2>1, Update
  <2> QED
    BY <2>1, <2>2 DEF Spoke, Sent
<1>5. turns' \in [Parties -> 0 .. MaxTurns]
  <2>1. turns[p] < MaxTurns => turns[p] + 1 \in 0 .. MaxTurns
    BY <1>1, TurnsAssumption DEF TypeOK
  <2> QED
    BY <1>1, <2>1 DEF Spoke, Sent, TypeOK
<1>6. late' \in [Clients -> [Sides -> 0 .. MaxTurns]]
  <2>1. late[c][Side(p)] <= turns[p]
    BY <1>1, Talking DEF Inv, Talk, Late, Spoke, Sent
  <2>2. turns[p] < MaxTurns => late[c][Side(p)] + 1 \in 0 .. MaxTurns
    BY <1>1, <2>1, TurnsAssumption DEF TypeOK
  <2>3. late \in [Clients -> [Sides -> 0 .. MaxTurns]]
    BY <1>1 DEF TypeOK
  <2>4. turns[p] < MaxTurns =>
          [late EXCEPT ![c][Side(p)] = @ + 1] \in [Clients -> [Sides -> 0 .. MaxTurns]]
    BY <1>1, <2>2, <2>3, Update
  <2> QED
    BY <2>3, <2>4 DEF Spoke, Sent
<1>7. pc'[Server] \in {"type", "echo", "leave"} => addr' \in Clients
  BY <1>1 DEF Spoke, Sent, TypeOK, Talks, Conn, Parties
<1>8. pair' \in Streams /\ pc'[Server] = "recv" => addr' \in Clients
  BY <1>1 DEF Spoke, Sent, TypeOK, Talks, Conn, Parties
<1> QED
  BY <1>1, <1>2, <1>3, <1>4, <1>5, <1>6, <1>7, <1>8 DEF Spoke, Sent, TypeOK

\* Speaking leaves the queue alone.
LEMMA SpokeQueue ==
  ASSUME Inv, NEW p, NEW c, NEW q, Spoke(p, c, q)
  PROVE  QueueInv'
<1>1. TypeOK /\ QueueInv /\ p \in Parties /\ c \in Clients
  BY DEF Inv, Spoke, Sent, Talks
<1>2. queue' = queue /\ addr' = addr /\ pair' = pair
  BY DEF Spoke, Sent
<1>3. \A r \in Parties : /\ pc'[r] = "off" => pc[r] = "off"
                         /\ pc'[r] = "accept" => pc[r] = "accept"
                         /\ pc'[r] = "left" => pc[r] = "left"
  BY <1>1 DEF Spoke, Sent, TypeOK
<1>4. ASSUME NEW k \in 1 .. Len(queue)
      PROVE  pc'[queue[k]] # "off" /\ queue[k] # addr /\ late'[queue[k]]["server"] = 0
  <2>1. queue[k] \in Clients /\ queue[k] \in Parties
    BY <1>1 DEF TypeOK, Parties
  <2>2. pc[queue[k]] # "off" /\ queue[k] # addr /\ late[queue[k]]["server"] = 0
    BY <1>1 DEF QueueInv
  <2>3. late'[queue[k]]["server"] = late[queue[k]]["server"]
    <3>1. c = queue[k] => Side(p) = "client"
      BY <2>2 DEF Spoke, Sent, Talks, Conn, Side
    <3>2. late \in [Clients -> [Sides -> 0 .. MaxTurns]] /\ Side(p) \in Sides
      BY <1>1 DEF TypeOK, Side, Sides
    <3> QED
      BY <1>1, <2>1, <3>1, <3>2, SideFacts DEF Spoke, Sent
  <2> QED
    BY <1>3, <2>1, <2>2, <2>3
<1> QED
  BY <1>1, <1>2, <1>3, <1>4 DEF QueueInv, TypeOK, Parties

\* After speaking the turn is on its way to the other side, or there is a reason why not.
LEMMA SpokeTalk ==
  ASSUME Inv, NEW p, NEW c, NEW q, Spoke(p, c, q), TypeOK', QueueInv'
  PROVE  Talk(c)'
<1> DEFINE s == Side(p)
           o == Other(s)
<1>1. /\ TypeOK /\ QueueInv /\ Talk(c) /\ p \in Parties /\ c \in Clients
      /\ s \in Sides /\ o \in Sides /\ s # o /\ Other(o) = s
      /\ Party(c, s) = p /\ Party(c, o) = Peer(p) /\ Peer(p) # p
      /\ HasTurn(c, s) /\ ~GoneFor(c, s) /\ pc[c] # "off"
  <2>1. Talks(p, c) /\ pc[p] \in {"type", "echo"}
    BY DEF Spoke, Sent
  <2> QED
    BY <2>1, Talking, SideFacts DEF Inv, Talks
<1>2. /\ Talks(p, c)' /\ Side(p)' = s /\ Party(c, s)' = p /\ Party(c, o)' = Peer(p)
      /\ Peer(p) \in Parties /\ pc'[p] = q /\ pc'[Peer(p)] = pc[Peer(p)]
      /\ (Agreed' <=> Agreed) /\ pair' = pair
  <2>1. Talks(p, c)'
    BY DEF Spoke, Sent, Talks, Conn
  <2>2. Peer(p) \in Parties
    BY DEF Spoke, Sent, Talks, Conn, Peer, Parties
  <2>3. \A x : Party(c, x)' = Party(c, x) /\ Side(p)' = s
    BY DEF Party, Side
  <2> QED
    BY <1>1, <2>1, <2>2, <2>3, ProgramSame DEF Spoke, Sent, TypeOK
<1>3. /\ pc'[c] # "off" /\ queue' = queue /\ addr' = addr
      /\ p = Server => addr = c /\ c \notin Range(queue)
      /\ Program(Server)' = Program(Server)
  <2>1. p = Server => c \notin Range(queue) /\ addr = c
    BY <1>1 DEF QueueInv, Range, Talks, Conn, Spoke, Sent, TypeOK
  <2>2. pc'[c] # "off"
    BY <1>1 DEF Spoke, Sent, TypeOK, Parties
  <2> QED
    BY <2>1, <2>2, ProgramSame DEF Spoke, Sent
\* What is on its way, what the kernels know and what was typed too late.
<1>4. /\ way'[c][s] = way[c][s]
      /\ \/ way'[c][o] = way[c][o]
         \/ end[c][s] = "open" /\ (\E m \in Messages : way'[c][o] = Append(way[c][o], m))
      /\ way' # way => way'[c][o] # <<>>
  <2>1. CASE way' = way
    <3>1. way'[c] = way[c]
      BY <2>1
    <3> QED
      BY <2>1, <3>1
  <2>2. ASSUME NEW m \in Messages, way' = [way EXCEPT ![c][o] = Append(@, m)]
        PROVE  way'[c][s] = way[c][s] /\ way'[c][o] = Append(way[c][o], m) /\ way'[c][o] # <<>>
    <3>1. way \in [Clients -> [Sides -> Seq(Messages)]] /\ Append(way[c][o], m) \in Seq(Messages)
      BY <1>1 DEF TypeOK
    <3>3. Append(way[c][o], m) # <<>>
      BY <1>1, <3>1, Longer
    <3> QED
      BY <1>1, <2>2, <3>1, <3>3, Update
  <2>3. CASE /\ end[c][s] = "open"
             /\ \E m \in Messages : way' = [way EXCEPT ![c][o] = Append(@, m)]
    BY <2>2, <2>3
  <2> QED
    BY <2>1, <2>3 DEF Spoke, Sent
<1>5. /\ end'[c][o] = end[c][o]
      /\ end'[c][s] = end[c][s] \/ (end[c][s] # "open" /\ end'[c][s] = "broken")
  <2>1. end \in [Clients -> [Sides -> {"open", "closed", "reset", "broken"}]]
    BY <1>1 DEF TypeOK
  <2>2. CASE end' = end
    BY <2>2
  <2>3. CASE end[c][s] # "open" /\ end' = [end EXCEPT ![c][s] = "broken"]
    BY <1>1, <2>1, <2>3, Update
  <2> QED
    BY <2>2, <2>3 DEF Spoke, Sent
<1>6. /\ late'[c][o] = late[c][o] /\ turns'[Peer(p)] = turns[Peer(p)]
      /\ \/ late'[c][s] = late[c][s] /\ turns'[p] \in {turns[p], turns[p] + 1}
         \/ /\ late'[c][s] = late[c][s] + 1 /\ turns'[p] = turns[p] + 1
            /\ pc[Peer(p)] = "left"
            /\ Twice => q = "leave" \/ end'[c][s] = "broken"
      /\ late[c][s] \in Nat /\ late[c][o] \in Nat /\ turns[p] \in Nat /\ turns[Peer(p)] \in Nat
  <2>1. /\ late \in [Clients -> [Sides -> 0 .. MaxTurns]] /\ turns \in [Parties -> 0 .. MaxTurns]
        /\ late' \in [Clients -> [Sides -> 0 .. MaxTurns]] /\ turns' \in [Parties -> 0 .. MaxTurns]
    BY <1>1 DEF TypeOK
  <2>2. CASE UNCHANGED <<turns, late>>
    BY <1>1, <1>2, <2>1, <2>2, TurnsAssumption
  <2>3. CASE turns' = [turns EXCEPT ![p] = @ + 1] /\ late' = late
    BY <1>1, <1>2, <2>1, <2>3, TurnsAssumption
  <2>4. CASE /\ turns' = [turns EXCEPT ![p] = @ + 1] /\ pc[Peer(p)] = "left"
             /\ late' = [late EXCEPT ![c][s] = @ + 1]
             /\ Twice => q = "leave" \/ end'[c][s] = "broken"
    <3>1. late'[c][s] = late[c][s] + 1 /\ late'[c][o] = late[c][o]
      BY <1>1, <2>1, <2>4
    <3> QED
      BY <1>1, <1>2, <2>1, <2>4, <3>1, TurnsAssumption
  <2> QED
    BY <2>2, <2>3, <2>4 DEF Spoke, Sent
<1>7. /\ ~HasTurn(c, s)' /\ (HasTurn(c, o)' <=> HasTurn(c, o))
      /\ GoneFor(c, o) => GoneFor(c, o)'
      /\ Done(c, o) => Done(c, o)'
      /\ q = "leave" => Done(c, s)'
      /\ ~Done(c, s)
  <2>1. CASE p = Server
    <3>1. s = "server" /\ o = "client" /\ addr = c /\ c \notin Range(queue) /\ c # Server /\ Peer(p) = c
      BY <1>1, <1>3, <2>1, SideFacts DEF Side, Peer
    <3>2. pc'[Server] = q /\ pc'[c] = pc[c] /\ addr' = c /\ c \notin Range(queue)'
      BY <1>2, <1>3, <2>1, <3>1 DEF Range
    <3> QED
      BY <3>1, <3>2, <2>1 DEF HasTurn, GoneFor, Done, Spoke, Sent
  <2>2. CASE p # Server
    <3>1. s = "client" /\ o = "server" /\ c = p /\ Peer(p) = Server
      BY <1>1, <2>2, SideFacts DEF Side, Peer, Spoke, Sent, Talks, Conn
    <3>2. /\ pc'[c] = q /\ pc'[Server] = pc[Server] /\ addr' = addr /\ Range(queue)' = Range(queue)
          /\ Program(Server)' = Program(Server)
      BY <1>2, <1>3, <3>1 DEF Range
    <3> QED
      BY <1>1, <1>3, <3>1, <3>2 DEF HasTurn, GoneFor, Done, Spoke, Sent
  <2> QED
    BY <2>1, <2>2
<1>8. Fresh(c)'
  BY <1>3 DEF Fresh
<1>9. Ending(c)'
  <2>1. /\ end'[c][s] # "open" => /\ pair \in Streams /\ GoneFor(c, o)' /\ way'[c][o] = <<>>
        /\ end[c][o] = "open"
    BY <1>1, <1>4, <1>5, <1>7 DEF Talk, Ending
  <2>2. pair \in Streams /\ pc'[Peer(p)] = "left" => end'[c][s] # "open"
    BY <1>1, <1>2, <1>5 DEF Talk, Ending
  <2>3. pc'[p] # "left"
    BY <1>2 DEF Spoke, Sent
  <2> QED
    BY <1>1, <1>2, <1>5, <2>1, <2>2, <2>3, SideFacts DEF Ending
<1>10. Late(c)'
  <2>1. late'[c][s] <= turns'[p] /\ late'[c][o] <= turns'[Peer(p)]
    <3>1. late[c][s] <= turns[p] /\ late[c][o] <= turns[Peer(p)]
      BY <1>1 DEF Talk, Late
    <3> QED
      BY <1>6, <3>1
  <2>2. late[c][o] = 0
    BY <1>1 DEF Talk, Late, Spoke, Sent
  <2>3. ASSUME late'[c][s] # 0
        PROVE  /\ pc'[Peer(p)] = "left" /\ (Agreed => way'[c][s] = <<>>)
               /\ IF Twice THEN \/ late'[c][s] = 1 /\ end'[c][s] = "broken"
                                \/ late'[c][s] <= 2 /\ Done(c, s)'
                  ELSE late'[c][s] = 1 /\ ~HasTurn(c, s)'
    <3>1. Agreed => way[c][s] = <<>>
      BY <1>1 DEF Talk, OneSpeaks
    <3>2. late[c][s] # 0 => /\ pc[Peer(p)] = "left"
                            /\ Twice /\ late[c][s] = 1 /\ end[c][s] = "broken"
      BY <1>1, <1>7 DEF Talk, Late
    <3>3. pc[Peer(p)] = "left"
      BY <1>6, <2>3, <3>2
    <3>4. late[c][s] # 0 => q = "leave"
      BY <3>2 DEF Spoke, Sent
    <3>5. CASE late[c][s] = 0
      BY <1>2, <1>4, <1>6, <1>7, <2>3, <3>1, <3>3, <3>5
    <3>6. CASE late[c][s] # 0
      <4>1. late'[c][s] <= 2
        BY <1>6, <3>2, <3>6
      <4> QED
        BY <1>2, <1>4, <1>7, <3>1, <3>2, <3>3, <3>4, <3>6, <4>1
    <3> QED
      BY <3>5, <3>6
  <2>4. Twice' <=> Twice
    BY ProgramSame DEF Spoke
  <2> QED
    BY <1>1, <1>2, <1>6, <2>1, <2>2, <2>3, <2>4, SideFacts DEF Late
<1>11. ASSUME Agreed PROVE OneSpeaks(c)'
  <2>1. /\ ~HasTurn(c, o)' /\ way[c][s] = <<>> /\ way[c][o] = <<>>
    <3>1. ~HasTurn(c, o)
      BY <1>1, <1>11, SideFacts DEF Talk, OneSpeaks
    <3> QED
      BY <1>1, <1>7, <1>11, <3>1 DEF Talk, OneSpeaks
  <2>2. way'[c][s] = <<>> /\ Len(way'[c][o]) <= 1
    <3>1. <<>> \in Seq(Messages) /\ Len(<<>>) = 0
      OBVIOUS
    <3>2. \A m \in Messages : Len(Append(<<>>, m)) = 1
      BY <3>1, Longer
    <3>3. CASE way'[c][o] = way[c][o]
      BY <1>4, <2>1, <3>1, <3>3
    <3>4. CASE \E m \in Messages : way'[c][o] = Append(way[c][o], m)
      BY <1>4, <2>1, <3>2, <3>4
    <3> QED
      BY <1>4, <3>3, <3>4
  <2> QED
    BY <1>1, <1>7, <2>1, <2>2, SideFacts DEF OneSpeaks
<1>12. ASSUME Agreed PROVE Moving(c)'
  <2> SUFFICES ASSUME Alive(c)', way'[c][o] = <<>>
               PROVE  Cause(c)'
    BY <1>1, SideFacts DEF Moving
  <2>1. pair' \in Streams => end'[c][s] = "open" /\ (c \in Range(queue)' \/ pc'[Server] \in {"type", "recv", "echo"})
    BY <1>1 DEF Alive
  <2>2. q # "leave"
    <3>1. p = c => pc'[c] = q
      BY <1>2
    <3>2. p # c => p = Server /\ pc'[Server] = q /\ c \notin Range(queue)'
      BY <1>2, <1>3 DEF Spoke, Sent, Talks, Conn, Range
    <3> QED
      BY <3>1, <3>2 DEF Alive
  <2>3. end[c][s] = "open"
    BY <1>1, <1>2, <1>5, <2>1 DEF Talk, Ending
  <2>4. pc[Peer(p)] # "left"
    <3>1. CASE pair \in Streams
      BY <1>1, <2>3, <3>1 DEF Talk, Ending
    <3>2. CASE pair \notin Streams
      <4>1. pc'[c] # "left" /\ pc'[Server] # "left"
        BY <1>2, <3>2 DEF Alive
      <4> QED
        BY <1>1, <1>2, <4>1, SideFacts DEF Spoke, Sent, Talks, Conn, Peer
    <3> QED
      BY <3>1, <3>2
  <2>5. way' = way
    BY <1>4
  <2> QED
    BY <2>2, <2>3, <2>4, <2>5 DEF Spoke, Sent
<1>13. Mute(c)'
  BY <1>1, <1>2 DEF Talk, Mute, Spoke
<1> QED
  BY <1>2, <1>8, <1>9, <1>10, <1>11, <1>12, <1>13 DEF Talk

\* Speaking keeps the invariant.
LEMMA SpokeInv ==
  ASSUME Inv, NEW p, NEW c, NEW q, Spoke(p, c, q)
  PROVE  Inv'
<1>1. TypeOK' /\ QueueInv'
  BY SpokeTypes, SpokeQueue
<1>2. Talk(c)'
  BY <1>1, SpokeTalk
<1>3. \A d \in Clients : d # c => Talk(d)'
  <2>1. turns' \in [Parties -> 0 .. MaxTurns]
    BY <1>1 DEF TypeOK
  <2> QED
    BY <2>1, SpokeOthers
<1> QED
  BY <1>1, <1>2, <1>3 DEF Inv

\* Who has its turn has somebody to talk to.
LEMMA Addressed ==
  ASSUME Inv, NEW p \in Parties, pc[p] \in {"type", "echo", "leave"}
  PROVE  Talks(p, Conn(p)) /\ Side(p) \in Sides
BY DEF Inv, TypeOK, Talks, Conn, Parties, Side, Sides

\* A send() puts its text on the way, or finds out that the other side is gone, or
\* loses a datagram.
LEMMA SendsEffect ==
  ASSUME Inv, NEW p \in Parties, NEW c, c = Conn(p), pc[p] \in {"type", "echo"},
         NEW m \in Messages, Sends(p, m)
  PROVE  /\ Sent(p, c)
         /\ lost \subseteq lost' /\ lost' \subseteq Clients
         /\ way' # way \/ end[c][Side(p)] # "open" \/ pc[Peer(p)] = "left" \/ c \in lost'
         /\ pair \in Streams => /\ end[c][Side(p)] # "broken"
                                /\ pc[Peer(p)] = "left" => end'[c][Side(p)] = "broken"
<1>1. /\ Talks(p, c) /\ c \in Clients /\ Side(p) \in Sides /\ Other(Side(p)) \in Sides
      /\ Party(c, Other(Side(p))) = Peer(p) /\ Other(Other(Side(p))) = Side(p)
  BY Addressed, Talking, SideFacts DEF Inv, Talks
<1>2. /\ way \in [Clients -> [Sides -> Seq(Messages)]]
      /\ end \in [Clients -> [Sides -> {"open", "closed", "reset", "broken"}]]
      /\ lost \subseteq Clients
  BY DEF Inv, TypeOK
<1>3. [way EXCEPT ![c][Other(Side(p))] = Append(@, m)] # way
  <2>1. way[c][Other(Side(p))] \in Seq(Messages)
    BY <1>1, <1>2
  <2>2. /\ Append(way[c][Other(Side(p))], m) \in Seq(Messages)
        /\ Append(way[c][Other(Side(p))], m) # way[c][Other(Side(p))]
    <3>1. ASSUME NEW w \in Seq(Messages) PROVE Append(w, m) \in Seq(Messages) /\ Append(w, m) # w
      <4>1. Append(w, m) \in Seq(Messages) /\ Len(Append(w, m)) = Len(w) + 1 /\ Len(w) \in Nat
        BY Longer
      <4> QED
        BY <4>1
    <3> QED
      BY <2>1, <3>1
  <2>3. [way EXCEPT ![c][Other(Side(p))] = Append(@, m)][c][Other(Side(p))]
          = Append(way[c][Other(Side(p))], m)
    BY <1>1, <1>2, <2>2, Update
  <2> QED
    BY <2>2, <2>3
<1>4. pair \in Datagrams => end[c][Side(p)] = "open"
  <2>1. pair \in Datagrams => pair \notin Streams
    BY DEF Datagrams, Streams
  <2> QED
    BY <1>1, <2>1 DEF Inv, Talk, Ending
<1>5. pair \in Streams => pair \notin Datagrams
  BY DEF Streams, Datagrams
<1> USE DEF Sent
<1>6. CASE pair \in Streams /\ End(p) = "open" /\ UNCHANGED <<end, lost>>
           /\ way' = [way EXCEPT ![c][Other(Side(p))] = Append(@, m)]
  <2>1. pc[Peer(p)] # "left"
    BY <1>1, <1>6 DEF Inv, Talk, Ending, End
  <2> QED
    BY <1>1, <1>2, <1>3, <1>6, <2>1 DEF End
<1>7. CASE pair \in Streams /\ End(p) = "closed" /\ UNCHANGED <<way, lost>>
           /\ end' = [end EXCEPT ![c][Side(p)] = "broken"]
  <2>1. end'[c][Side(p)] = "broken"
    BY <1>1, <1>2, <1>7, Update
  <2> QED
    BY <1>1, <1>2, <1>7, <2>1 DEF End
<1>8. CASE pair \in Datagrams /\ UNCHANGED <<end, lost>>
           /\ way' = IF pc[Peer(p)] = "left" THEN way
                     ELSE [way EXCEPT ![c][Other(Side(p))] = Append(@, m)]
  BY <1>1, <1>2, <1>3, <1>4, <1>5, <1>8
<1>9. CASE pair \in Datagrams /\ lost' = lost \union {c} /\ UNCHANGED <<way, end>>
  BY <1>1, <1>2, <1>5, <1>9
<1> QED
  BY <1>6, <1>7, <1>8, <1>9 DEF Sends

\* A typed line is counted as late if the other side has left.
LEMMA TypingEffect ==
  ASSUME Inv, NEW p \in Parties, NEW c, c = Conn(p), Typing(p)
  PROVE  /\ pc[p] = "type" /\ turns[p] < MaxTurns
         /\ turns' = [turns EXCEPT ![p] = @ + 1]
         /\ \/ late' = late
            \/ pc[Peer(p)] = "left" /\ late' = [late EXCEPT ![c][Side(p)] = @ + 1]
<1>1. Talks(p, c) /\ c \in Clients /\ Side(p) \in Sides /\ late \in [Clients -> [Sides -> 0 .. MaxTurns]]
  BY Addressed DEF Typing, Inv, TypeOK, Talks
<1>2. [late EXCEPT ![c][Side(p)] = @] = late
  BY <1>1
<1> QED
  BY <1>1, <1>2 DEF Typing

\* TypesText, TypesBye, TypesBlank, TypesNothing, Echo and SendFails are ways of speaking.
LEMMA TextSpoken ==
  ASSUME Inv, NEW p \in Parties, TypesText(p)
  PROVE  Spoke(p, Conn(p), "recv")
<1>1. Talks(p, Conn(p)) /\ pc[p] = "type" /\ "text" \in Messages
  BY Addressed DEF TypesText, Typing, Messages
<1>2. Sends(p, "text") /\ Typing(p)
  BY DEF TypesText
<1>3. /\ Sent(p, Conn(p)) /\ lost \subseteq lost' /\ lost' \subseteq Clients
      /\ \/ way' # way \/ end[Conn(p)][Side(p)] # "open" \/ pc[Peer(p)] = "left"
         \/ Conn(p) \in lost'
      /\ pair \in Streams => /\ end[Conn(p)][Side(p)] # "broken"
                             /\ pc[Peer(p)] = "left" => end'[Conn(p)][Side(p)] = "broken"
  BY <1>1, <1>2, SendsEffect
<1>4. Conn(p) \in lost' => Cause(Conn(p))'
  BY DEF TypesText, Cause, Conn
<1>5. skipped' = skipped /\ skipped \subseteq Parties
  BY DEF TypesText, Inv, TypeOK
<1> QED
  BY <1>1, <1>2, <1>3, <1>4, <1>5, TypingEffect, TwiceFacts DEF TypesText, Spoke, Talks

\* A word to leave with, sent or not.
LEMMA ByeSpoken ==
  ASSUME Inv, NEW p \in Parties, TypesBye(p)
  PROVE  Spoke(p, Conn(p), "leave")
<1>1. Talks(p, Conn(p)) /\ pc[p] = "type" /\ "bye" \in Messages /\ Typing(p)
  BY Addressed DEF TypesBye, Typing, Messages
<1>2. CASE Sends(p, "bye")
  BY <1>1, <1>2, SendsEffect, TypingEffect DEF TypesBye, Spoke, Inv, TypeOK
<1>3. CASE UNCHANGED <<way, end, lost>>
  BY <1>1, <1>3, TypingEffect DEF TypesBye, Spoke, Sent, Inv, TypeOK
<1> QED
  BY <1>2, <1>3 DEF TypesBye

\* An empty line that gives up the turn is a cause of waiting for ever.
LEMMA BlankSpoken ==
  ASSUME Inv, NEW p \in Parties, TypesBlank(p)
  PROVE  Spoke(p, Conn(p), "recv")
<1>1. Talks(p, Conn(p)) /\ pc[p] = "type" /\ Typing(p) /\ lost \subseteq Clients /\ skipped \subseteq Parties
  BY Addressed DEF TypesBlank, Typing, Inv, TypeOK
<1>2. serverFirst["client"] /\ p # Server /\ pair = "First"
  BY ProgramFacts DEF TypesBlank, Inv, TypeOK
<1>4. ~Twice
  <2>1. Conn(p) \in Clients /\ Side(p) \in Sides /\ HasTurn(Conn(p), Side(p))
    BY <1>1, Talking DEF Inv, Talks
  <2> QED
    BY <1>2, <2>1, TwiceFacts
<1>3. Cause(Conn(p))'
  BY <1>2 DEF TypesBlank, Cause, Conn
<1> QED
  BY <1>1, <1>2, <1>3, <1>4, TypingEffect DEF TypesBlank, Spoke, Sent

\* What fgets() leaves in the buffer at the end of the input, sent or not.
LEMMA NothingSpoken ==
  ASSUME Inv, NEW p \in Parties, TypesNothing(p)
  PROVE  \E q \in {"recv", "leave"} : Spoke(p, Conn(p), q)
<1>0. /\ lost \subseteq Clients /\ skipped \subseteq Parties /\ buffer[p] \in Messages
      /\ pair \in Streams \union Datagrams
  BY DEF Inv, TypeOK
<1>1. Talks(p, Conn(p)) /\ pc[p] = "type"
  <2>1. pc[p] = "type"
    BY DEF TypesNothing, Typing
  <2> QED
    BY <2>1, Addressed
<1>2. CASE /\ Program(p).eof # "again" /\ UNCHANGED <<way, end, lost, turns, late>>
           /\ Program(p).eof = "nothing" => End(p) \in {"open", "closed"}
           /\ pc' = [pc EXCEPT ![p] = IF Program(p).eof = "leave" THEN "leave" ELSE "recv"]
  <2>1. Program(p).eof \in {"nothing", "leave"}
        /\ (Program(p).eof = "nothing" <=> pair \in {"Socket", "Tcp"})
        /\ (Program(Server).eof = "nothing" <=> pair \in {"Socket", "Tcp"})
    BY <1>0, <1>2, ProgramFacts
  <2>2. CASE Program(p).eof = "leave"
    BY <1>0, <1>1, <1>2, <2>2 DEF TypesNothing, Spoke, Sent
  <2>3. CASE Program(p).eof = "nothing"
    <3>1. Program(Server)'.eof = "nothing" /\ input'[p] = "ended"
      BY <2>1, <2>3, ProgramSame DEF TypesNothing
    <3>2. Cause(Conn(p))'
      <4>1. addr' = addr
        BY DEF TypesNothing
      <4> QED
        BY <3>1, SideFacts DEF Cause, Conn
    <3>3. Twice => pair = "Socket"
      BY <1>1, <2>1, <2>3, TwiceFacts DEF Talks
    <3> QED
      BY <1>0, <1>1, <1>2, <2>1, <2>3, <3>2, <3>3 DEF TypesNothing, Spoke, Sent, End
  <2> QED
    BY <2>1, <2>2, <2>3
<1>3. CASE /\ Program(p).eof = "again" /\ Typing(p) /\ Sends(p, buffer[p])
           /\ pc' = [pc EXCEPT ![p] = IF buffer[p] = "bye" /\ Program(p).bye = "sent"
                                      THEN "leave" ELSE "recv"]
  <2> DEFINE q == IF buffer[p] = "bye" /\ Program(p).bye = "sent" THEN "leave" ELSE "recv"
  <2>1. ~Twice
    <3>1. pair \in Datagrams
      BY <1>0, <1>3, ProgramFacts
    <3> QED
      BY <1>1, <3>1, TwiceFacts DEF Talks, Streams, Datagrams
  <2>2. /\ Sent(p, Conn(p)) /\ lost \subseteq lost' /\ lost' \subseteq Clients
        /\ \/ way' # way \/ end[Conn(p)][Side(p)] # "open" \/ pc[Peer(p)] = "left"
           \/ Conn(p) \in lost'
        /\ pair \in Streams => /\ end[Conn(p)][Side(p)] # "broken"
                               /\ pc[Peer(p)] = "left" => end'[Conn(p)][Side(p)] = "broken"
    BY <1>0, <1>1, <1>3, SendsEffect
  <2>3. Conn(p) \in lost' => Cause(Conn(p))'
    BY DEF TypesNothing, Cause, Conn
  <2>4. q \in {"recv", "leave"} /\ pc' = [pc EXCEPT ![p] = q]
    BY <1>3
  <2>5. Spoke(p, Conn(p), q)
    BY <1>0, <1>1, <1>3, <2>1, <2>2, <2>3, <2>4, TypingEffect DEF TypesNothing, Spoke
  <2> QED
    BY <2>4, <2>5
<1> QED
  BY <1>2, <1>3 DEF TypesNothing

\* The answer of the server of First that was not asked to begin.
LEMMA EchoSpoken ==
  ASSUME Inv, Echo
  PROVE  Spoke(Server, Conn(Server), "recv")
<1>1. Server \in Parties /\ pc[Server] = "echo" /\ Talks(Server, Conn(Server)) /\ "text" \in Messages
  BY Addressed DEF Echo, Parties, Messages
<1>2. Sends(Server, "text")
  BY DEF Echo
<1>3. /\ Sent(Server, Conn(Server)) /\ lost \subseteq lost' /\ lost' \subseteq Clients
      /\ \/ way' # way \/ end[Conn(Server)][Side(Server)] # "open" \/ pc[Peer(Server)] = "left"
         \/ Conn(Server) \in lost'
      /\ pair \in Streams =>
           /\ end[Conn(Server)][Side(Server)] # "broken"
           /\ pc[Peer(Server)] = "left" => end'[Conn(Server)][Side(Server)] = "broken"
  BY <1>1, <1>2, SendsEffect
<1>4. Conn(Server) \in lost' => Cause(Conn(Server))'
  BY DEF Echo, Cause, Conn
<1>5. skipped' = skipped /\ skipped \subseteq Parties
  BY DEF Echo, users, Inv, TypeOK
<1> QED
  BY <1>1, <1>2, <1>3, <1>4, <1>5, TwiceFacts DEF Echo, users, Spoke, Talks

\* A send() that fails.
LEMMA FailureSpoken ==
  ASSUME Inv, NEW p \in Parties, SendFails(p)
  PROVE  \E q \in {"recv", "leave"} : Spoke(p, Conn(p), q)
<1> DEFINE c == Conn(p)
           q == IF pair = "Tcp" /\ End(p) = "reset" THEN "recv" ELSE "leave"
<1>1. Talks(p, c) /\ Side(p) \in Sides /\ c \in Clients /\ pc[p] \in {"type", "echo"}
  BY Addressed DEF SendFails, Talks
<1>2. lost \subseteq Clients /\ skipped \subseteq Parties
  BY DEF Inv, TypeOK
<1>3. end'[c][Side(p)] = "broken" /\ end[c][Side(p)] # "open"
      /\ end' = [end EXCEPT ![c][Side(p)] = "broken"]
  <2>1. end \in [Clients -> [Sides -> {"open", "closed", "reset", "broken"}]]
    BY DEF Inv, TypeOK
  <2> QED
    BY <1>1, <2>1, Update DEF SendFails, End
<1>4. UNCHANGED <<turns, late>> \/ Typing(p)
  BY DEF SendFails
<1>6. Twice => pair # "Tcp"
  BY <1>1, TwiceFacts
<1>5. Spoke(p, c, q)
  <2>1. CASE UNCHANGED <<turns, late>>
    BY <1>1, <1>2, <1>3, <1>6, <2>1 DEF SendFails, Spoke, Sent
  <2>2. CASE Typing(p)
    BY <1>1, <1>2, <1>3, <1>6, <2>2, TypingEffect DEF SendFails, Spoke, Sent
  <2> QED
    BY <1>4, <2>1, <2>2
<1> QED
  BY <1>5

-----------------------------------------------------------------------------
(* Receiving *)

\* Party p has received what was on its way in conversation c, and goes on as q.
Heard(p, c, q) ==
    /\ p \in Parties /\ c \in Clients /\ pc[p] = "recv" /\ q \in {"type", "echo", "leave"}
    /\ p # Server => c = p
    /\ pair \in Streams => Talks(p, c)
    /\ way[c][Side(p)] # <<>>
    /\ pc' = [pc EXCEPT ![p] = q]
    /\ \E w \in Seq(Messages) : /\ Len(w) < Len(way[c][Side(p)])
                                /\ way' = [way EXCEPT ![c][Side(p)] = w]
    /\ addr' = IF p = Server THEN c ELSE addr
    /\ buffer' \in [Parties -> Messages]
    /\ UNCHANGED <<pair, serverFirst, queue, end, users, lost>>

\* Receiving in one conversation leaves the others alone, also where the server
\* turns to another client by it.
LEMMA HeardOthers ==
  ASSUME Inv, NEW p, NEW c, NEW q, Heard(p, c, q), NEW d \in Clients, d # c
  PROVE  Talk(d)'
<1>1. /\ TypeOK /\ QueueInv /\ Talk(d) /\ p \in Parties /\ c \in Clients /\ p # d /\ Side(p) \in Sides
      /\ Server \in Parties
  BY SideFacts DEF Inv, Heard, Side, Parties
<1>2. way'[d] = way[d]
  <2>1. way \in [Clients -> [Sides -> Seq(Messages)]]
    BY <1>1 DEF TypeOK
  <2> QED
    BY <1>1, <2>1, Update DEF Heard
<1>3. pc'[d] = pc[d] /\ (p # Server => pc'[Server] = pc[Server]) /\ pc'[p] = q
  BY <1>1 DEF Heard, TypeOK, Parties
<1>4. HasTurn(d, "server")' <=> HasTurn(d, "server")
  <2>1. Program(Server)' = Program(Server) /\ queue' = queue
    BY ProgramSame DEF Heard
  <2> QED
    BY <1>3, <2>1 DEF HasTurn, Heard
<1>5. GoneFor(d, "server") => GoneFor(d, "server")'
  BY <1>3 DEF GoneFor, Heard
<1>6. Done(d, "server") => Done(d, "server")'
  BY <1>3 DEF Done, Heard
<1>7. Alive(d)' => Alive(d)
  BY <1>2, <1>3 DEF Alive, Heard
<1>8. turns'[d] = turns[d] /\ turns' = turns /\ turns[Server] <= turns[Server]
      /\ turns' \in [Parties -> 0 .. MaxTurns]
  <2>1. turns[Server] \in Nat /\ turns \in [Parties -> 0 .. MaxTurns]
    BY <1>1, TurnsAssumption DEF TypeOK
  <2> QED
    BY <2>1 DEF Heard, users
<1>9. Cause(d) => Cause(d)'
  BY ProgramSame DEF Cause, Heard, users
<1>10. pc'[Server] = "left" <=> pc[Server] = "left"
  BY <1>3 DEF Heard
<1>11. Same(d)
  BY <1>2, <1>3, <1>4, <1>5, <1>6, <1>7, <1>8, <1>9, <1>10 DEF Same, Heard, users
<1> QED
  BY <1>1, <1>8, <1>11, SameTalk

\* Receiving keeps the types and the queue.
LEMMA HeardTypes ==
  ASSUME Inv, NEW p, NEW c, NEW q, Heard(p, c, q)
  PROVE  TypeOK' /\ QueueInv'
<1>1. TypeOK /\ QueueInv /\ p \in Parties /\ c \in Clients /\ Side(p) \in Sides
  BY DEF Inv, Heard, Side, Sides
<1>2. pc' \in [Parties -> {"off", "accept", "type", "recv", "echo", "leave", "left"}]
      /\ pc'[p] = q /\ \A r \in Parties : r # p => pc'[r] = pc[r]
  BY <1>1 DEF Heard, TypeOK
<1>3. way' \in [Clients -> [Sides -> Seq(Messages)]]
  <2>1. way \in [Clients -> [Sides -> Seq(Messages)]]
    BY <1>1 DEF TypeOK
  <2> QED
    BY <1>1, <2>1, Update DEF Heard
<1>4. addr' \in Clients \union {Nobody}
  BY <1>1 DEF Heard, TypeOK
<1>5. pc'[Server] \in {"type", "echo", "leave"} => addr' \in Clients
  BY <1>1, <1>2 DEF Heard, TypeOK, Parties
<1>6. pair' \in Streams /\ pc'[Server] = "recv" => addr' \in Clients
  BY <1>1, <1>2 DEF Heard, TypeOK, Parties
<1>7. TypeOK'
  BY <1>1, <1>2, <1>3, <1>4, <1>5, <1>6 DEF Heard, TypeOK, users
<1>8. pc[c] # "off"
  BY <1>1 DEF Inv, Talk, Fresh, Heard
<1>9. \A r \in Parties : /\ pc'[r] = "off" => pc[r] = "off"
                         /\ pc'[r] = "accept" => pc[r] = "accept"
                         /\ pc'[r] = "left" => pc[r] = "left"
  BY <1>2 DEF Heard
<1>10. addr' = addr \/ addr' = c
  BY DEF Heard
<1>11. queue # <<>> => addr' = addr
  BY <1>1 DEF QueueInv, Heard, Talks, Conn
<1>12. \A k \in 1 .. Len(queue) : queue[k] \in Clients /\ queue # <<>>
  BY <1>1 DEF TypeOK
<1>13. pc'[Server] = "accept" => addr' = Nobody
  BY <1>1, <1>2 DEF QueueInv, Heard, Parties
<1>14. QueueInv'
  BY <1>1, <1>8, <1>9, <1>10, <1>11, <1>12, <1>13 DEF QueueInv, Heard, users, Parties
<1> QED
  BY <1>7, <1>14

\* After receiving the turn is with the party that received, unless it leaves.
LEMMA HeardTalk ==
  ASSUME Inv, NEW p, NEW c, NEW q, Heard(p, c, q)
  PROVE  Talk(c)'
<1> DEFINE s == Side(p)
           o == Other(s)
<1>1. /\ TypeOK /\ QueueInv /\ Talk(c) /\ p \in Parties /\ c \in Clients
      /\ s \in Sides /\ o \in Sides /\ s # o /\ Other(o) = s /\ Other(s) = o
      /\ Party(c, s) = p /\ Party(c, o) # p
      /\ way[c][s] # <<>> /\ pc[c] # "off"
  <2>1. TypeOK /\ QueueInv /\ Talk(c) /\ p \in Parties /\ c \in Clients /\ way[c][s] # <<>>
    BY DEF Inv, Heard
  <2>2. CASE p = Server
    BY <2>1, <2>2, SideFacts DEF Side, Talk, Fresh
  <2>3. CASE p # Server
    BY <2>1, <2>3, SideFacts DEF Side, Talk, Fresh, Heard
  <2> QED
    BY <2>2, <2>3
<1>2. /\ pc'[p] = q /\ pc'[Party(c, o)] = pc[Party(c, o)]
      /\ (Agreed' <=> Agreed) /\ pair' = pair /\ end' = end /\ late' = late /\ turns' = turns
      /\ \A x : Party(c, x)' = Party(c, x)
  <2>1. Party(c, o) \in Parties
    BY <1>1 DEF Party, Parties
  <2> QED
    BY <1>1, <2>1, ProgramSame DEF Heard, TypeOK, users, Party
<1>3. /\ way'[c][o] = way[c][o] /\ Len(way'[c][s]) < Len(way[c][s])
      /\ way'[c][s] \in Seq(Messages) /\ way[c][s] \in Seq(Messages)
  <2>1. way \in [Clients -> [Sides -> Seq(Messages)]]
    BY <1>1 DEF TypeOK
  <2> QED
    BY <1>1, <2>1, Update DEF Heard
<1>4. /\ HasTurn(c, s)' \/ q = "leave"
      /\ HasTurn(c, o)' <=> HasTurn(c, o)
      /\ GoneFor(c, o) => GoneFor(c, o)'
      /\ pc'[c] # "off"
  <2>1. CASE p = Server
    <3>1. s = "server" /\ o = "client" /\ addr' = c /\ pc'[Server] = q /\ pc'[c] = pc[c]
      BY <1>1, <1>2, <2>1, SideFacts DEF Side, Heard
    <3> QED
      BY <1>1, <3>1 DEF HasTurn, GoneFor, Heard
  <2>2. CASE p # Server
    <3>1. /\ s = "client" /\ o = "server" /\ c = p /\ pc'[c] = q /\ pc'[Server] = pc[Server]
          /\ addr' = addr /\ queue' = queue
      BY <1>1, <1>2, <2>2, SideFacts DEF Side, Heard
    <3>2. Program(Server)' = Program(Server)
      BY ProgramSame DEF Heard
    <3> QED
      BY <1>1, <3>1, <3>2 DEF HasTurn, GoneFor, Heard
  <2> QED
    BY <2>1, <2>2
<1>5. Fresh(c)'
  BY <1>4 DEF Fresh
<1>6. Ending(c)'
  <2>1. end[c][o] = "open"
    BY <1>1 DEF Talk, Ending
  <2>2. end[c][s] # "open" => pair \in Streams /\ GoneFor(c, o)' /\ way'[c][o] = <<>>
    BY <1>1, <1>3, <1>4 DEF Talk, Ending
  <2>3. pair \in Streams /\ pc[Party(c, o)] = "left" => end[c][s] # "open"
    BY <1>1 DEF Talk, Ending
  <2>4. pc'[p] # "left"
    BY <1>2 DEF Heard
  <2> QED
    BY <1>1, <1>2, <2>1, <2>2, <2>3, <2>4, SideFacts DEF Ending
<1>7. Late(c)'
  <2>1. late[c][o] = 0
    BY <1>1 DEF Talk, Late, Heard
  <2>2. \A t \in Sides : late[c][t] <= turns[Party(c, t)]
    BY <1>1 DEF Talk, Late
  <2>3. ASSUME late[c][s] # 0
        PROVE  ~Agreed /\ pc[Party(c, o)] = "left" /\ late[c][s] = 1 /\ end[c][s] = "broken"
    <3>1. ~Agreed /\ Twice /\ pc[Party(c, o)] = "left"
      BY <1>1, <2>3 DEF Talk, Late, Twice
    <3>2. ~Done(c, s)
      <4>1. pair \in Streams
        BY <1>1, <3>1, TwiceFacts
      <4> QED
        BY <1>1, <4>1, SideFacts DEF Heard, Talks, Conn, Done, Side
    <3> QED
      BY <1>1, <2>3, <3>1, <3>2 DEF Talk, Late
  <2>4. Twice' <=> Twice
    BY ProgramSame DEF Heard
  <2> QED
    BY <1>1, <1>2, <2>1, <2>2, <2>3, <2>4, SideFacts DEF Late, Twice
<1>8. ASSUME Agreed
      PROVE  ~HasTurn(c, o)' /\ way'[c][s] = <<>> /\ way'[c][o] = <<>>
  <2>1. OneSpeaks(c)
    BY <1>1, <1>8 DEF Talk
  <2>2. ~HasTurn(c, o) /\ way[c][o] = <<>> /\ Len(way[c][s]) <= 1
    BY <1>1, <2>1, SideFacts DEF OneSpeaks
  <2>3. Len(way'[c][s]) \in Nat /\ Len(way[c][s]) \in Nat
    BY <1>3
  <2>4. Len(way'[c][s]) = 0
    BY <1>3, <2>2, <2>3
  <2> QED
    BY <1>3, <1>4, <2>2, <2>4
<1>9. Agreed => OneSpeaks(c)'
  <2>1. Len(<<>>) = 0
    OBVIOUS
  <2> QED
    BY <1>1, <1>8, <2>1, SideFacts DEF OneSpeaks
<1>10. Agreed => Moving(c)'
  <2>1. q = "leave" => ~Alive(c)'
    <3>1. p = Server \/ p = c
      BY DEF Heard
    <3>2. CASE p = c
      BY <1>2, <3>2 DEF Alive
    <3>3. CASE p = Server /\ pair \notin Streams
      BY <1>2, <3>3 DEF Alive
    <3>4. CASE p = Server /\ pair \in Streams
      <4>1. c \notin Range(queue)
        BY <1>1, <3>4 DEF QueueInv, Heard, Talks, Conn, Range, TypeOK
      <4> QED
        BY <1>2, <3>4, <4>1 DEF Alive, Heard, Range
    <3> QED
      BY <3>1, <3>2, <3>3, <3>4
  <2> QED
    BY <1>1, <1>4, <2>1, SideFacts DEF Moving
<1>11. Mute(c)'
  BY <1>1, <1>2 DEF Talk, Mute, Heard
<1> QED
  BY <1>2, <1>5, <1>6, <1>7, <1>9, <1>10, <1>11 DEF Talk

\* Receiving keeps the invariant.
LEMMA HeardInv ==
  ASSUME Inv, NEW p, NEW c, NEW q, Heard(p, c, q)
  PROVE  Inv'
<1>1. \A d \in Clients : Talk(d)'
  BY HeardTalk, HeardOthers
<1> QED
  BY <1>1, HeardTypes DEF Inv

\* recv() of a stream is a way of receiving.
LEMMA TextHeard ==
  ASSUME Inv, NEW p \in Parties, ReceivesText(p)
  PROVE  Heard(p, Conn(p), Program(p).answer)
<1>1. TypeOK /\ pc[p] = "recv" /\ pair \in Streams
  BY DEF Inv, ReceivesText
<1>2. Conn(p) \in Clients /\ Side(p) \in Sides /\ (p # Server => Conn(p) = p) /\ (p = Server => Conn(p) = addr)
  BY <1>1 DEF TypeOK, Conn, Parties, Side, Sides
<1>3. Talks(p, Conn(p))
  BY <1>2 DEF Talks
<1>4. Program(p).answer \in {"type", "echo"}
  BY <1>1, ProgramFacts DEF TypeOK
<1>5. Unread(p) \in Seq(Messages) /\ Unread(p) = way[Conn(p)][Side(p)]
  BY <1>1, <1>2 DEF TypeOK, Unread
<1>6. PICK n \in 1 .. Len(Unread(p)) :
        way' = [way EXCEPT ![Conn(p)][Side(p)] = SubSeq(@, n + 1, Len(@))]
  BY DEF ReceivesText
<1>7. ASSUME NEW v \in Seq(Messages), NEW k \in 1 .. Len(v)
      PROVE  SubSeq(v, k + 1, Len(v)) \in Seq(Messages) /\ Len(SubSeq(v, k + 1, Len(v))) < Len(v) /\ v # <<>>
  OBVIOUS
<1>8. /\ way[Conn(p)][Side(p)] # <<>>
      /\ \E w \in Seq(Messages) : /\ Len(w) < Len(way[Conn(p)][Side(p)])
                                  /\ way' = [way EXCEPT ![Conn(p)][Side(p)] = w]
  BY <1>5, <1>6, <1>7
<1>9. buffer' \in [Parties -> Messages]
  BY <1>1 DEF TypeOK, ReceivesText
<1> QED
  BY <1>1, <1>2, <1>3, <1>4, <1>8, <1>9 DEF ReceivesText, Heard

\* recvfrom() is a way of receiving.
LEMMA DatagramHeard ==
  ASSUME Inv, NEW p \in Parties, ReceivesDatagram(p)
  PROVE  \E c \in Clients, q \in {"type", "leave"} : Heard(p, c, q)
<1>1. TypeOK /\ pc[p] = "recv" /\ pair \in Datagrams /\ pair \notin Streams
  BY DEF Inv, ReceivesDatagram, Datagrams, Streams
<1>2. PICK c \in IF p = Server THEN Clients ELSE {p} :
         /\ way[c][Side(p)] # <<>>
         /\ buffer' = [buffer EXCEPT ![p] = Head(way[c][Side(p)])]
         /\ way' = [way EXCEPT ![c][Side(p)] = Tail(@)]
         /\ addr' = IF p = Server THEN Sender(c) ELSE addr
  BY DEF ReceivesDatagram
<1>3. c \in Clients /\ (p # Server => c = p) /\ Side(p) \in Sides
  BY <1>2 DEF Parties, Side, Sides
<1>4. way[c][Side(p)] \in Seq(Messages) /\ buffer \in [Parties -> Messages]
  BY <1>1, <1>3 DEF TypeOK
<1>5. ASSUME NEW v \in Seq(Messages), v # <<>>
      PROVE  Head(v) \in Messages /\ Tail(v) \in Seq(Messages) /\ Len(Tail(v)) < Len(v)
  <2>1. /\ Head(v) \in Messages /\ Tail(v) \in Seq(Messages) /\ Len(Tail(v)) = Len(v) - 1
        /\ Len(v) \in Nat
    BY <1>5, HeadTailProperties
  <2> QED
    BY <2>1
<1>6. /\ \E w \in Seq(Messages) : /\ Len(w) < Len(way[c][Side(p)])
                                  /\ way' = [way EXCEPT ![c][Side(p)] = w]
      /\ buffer' \in [Parties -> Messages]
  BY <1>2, <1>4, <1>5
<1>7. PICK q \in {"type", "leave"} : pc' = [pc EXCEPT ![p] = q]
  BY DEF ReceivesDatagram
<1> QED
  BY <1>1, <1>2, <1>3, <1>6, <1>7 DEF ReceivesDatagram, Heard, Sender

-----------------------------------------------------------------------------
(* The end of a stream *)

\* Party p of conversation c was told that the other side is gone.
HeardEnd(p, c, q) ==
    /\ Talks(p, c) /\ pair \in Streams /\ pc[p] = "recv" /\ q \in {"type", "leave"}
    /\ way[c][Side(p)] = <<>> /\ end[c][Side(p)] # "open"
    /\ q = "type" => pair = "Socket"
    /\ pc' = [pc EXCEPT ![p] = q]
    /\ \/ end' = end
       \/ end' = [end EXCEPT ![c][Side(p)] = "broken"]
    /\ UNCHANGED <<pair, serverFirst, addr, queue, way, users, buffer, lost>>

\* The end of one conversation leaves the others alone.
LEMMA EndOthers ==
  ASSUME Inv, NEW p, NEW c, NEW q, HeardEnd(p, c, q), NEW d \in Clients, d # c
  PROVE  Talk(d)'
<1>1. /\ TypeOK /\ QueueInv /\ Talk(d) /\ p \in Parties /\ c \in Clients /\ p # d /\ Side(p) \in Sides
      /\ Server \in Parties /\ (p = Server => addr # d)
  BY SideFacts DEF Inv, HeardEnd, Side, Parties, Talks, Conn
<1>2. end'[d] = end[d]
  <2>1. end \in [Clients -> [Sides -> {"open", "closed", "reset", "broken"}]]
    BY <1>1 DEF TypeOK
  <2> QED
    BY <1>1, <2>1, Update DEF HeardEnd
<1>3. pc'[d] = pc[d] /\ (p # Server => pc'[Server] = pc[Server]) /\ pc'[p] = q
  BY <1>1 DEF HeardEnd, TypeOK, Parties
<1>4. HasTurn(d, "server")' <=> HasTurn(d, "server")
  <2>1. Program(Server)' = Program(Server) /\ queue' = queue /\ addr' = addr
    BY ProgramSame DEF HeardEnd
  <2> QED
    BY <1>1, <1>3, <2>1 DEF HasTurn, HeardEnd
<1>5. GoneFor(d, "server") => GoneFor(d, "server")'
  BY <1>3 DEF GoneFor, HeardEnd
<1>6. Done(d, "server") => Done(d, "server")'
  BY <1>1, <1>3 DEF Done, HeardEnd
<1>7. Alive(d)' => Alive(d)
  BY <1>1, <1>2, <1>3 DEF Alive, HeardEnd
<1>8. turns'[d] = turns[d] /\ turns' = turns /\ turns[Server] <= turns[Server]
      /\ turns' \in [Parties -> 0 .. MaxTurns]
  <2>1. turns[Server] \in Nat /\ turns \in [Parties -> 0 .. MaxTurns]
    BY <1>1, TurnsAssumption DEF TypeOK
  <2> QED
    BY <2>1 DEF HeardEnd, users
<1>9. Cause(d) => Cause(d)'
  BY ProgramSame DEF Cause, HeardEnd, users
<1>10. pc'[Server] = "left" <=> pc[Server] = "left"
  BY <1>3 DEF HeardEnd
<1>11. Same(d)
  BY <1>2, <1>3, <1>4, <1>5, <1>6, <1>7, <1>8, <1>9, <1>10 DEF Same, HeardEnd, users
<1> QED
  BY <1>1, <1>8, <1>11, SameTalk

\* Being told of the end keeps the types and the queue.
LEMMA EndTypes ==
  ASSUME Inv, NEW p, NEW c, NEW q, HeardEnd(p, c, q)
  PROVE  TypeOK' /\ QueueInv'
<1>1. TypeOK /\ QueueInv /\ p \in Parties /\ c \in Clients /\ Side(p) \in Sides
  BY DEF Inv, HeardEnd, Talks, Side, Sides
<1>2. pc' \in [Parties -> {"off", "accept", "type", "recv", "echo", "leave", "left"}]
      /\ pc'[p] = q /\ \A r \in Parties : r # p => pc'[r] = pc[r]
  BY <1>1 DEF HeardEnd, TypeOK
<1>3. end' \in [Clients -> [Sides -> {"open", "closed", "reset", "broken"}]]
  <2>1. end \in [Clients -> [Sides -> {"open", "closed", "reset", "broken"}]]
    BY <1>1 DEF TypeOK
  <2> QED
    BY <1>1, <2>1, Update DEF HeardEnd
<1>4. pc'[Server] \in {"type", "echo", "leave", "recv"} => addr \in Clients
  BY <1>1, <1>2 DEF HeardEnd, TypeOK, Parties, Talks, Conn
<1>5. TypeOK'
  BY <1>1, <1>2, <1>3, <1>4 DEF HeardEnd, TypeOK, users
<1>6. \A r \in Parties : /\ pc'[r] = "off" => pc[r] = "off"
                         /\ pc'[r] = "accept" => pc[r] = "accept"
                         /\ pc'[r] = "left" => pc[r] = "left"
  BY <1>2 DEF HeardEnd
<1>7. \A k \in 1 .. Len(queue) : queue[k] \in Clients
  BY <1>1 DEF TypeOK
<1>8. QueueInv'
  BY <1>1, <1>6, <1>7 DEF QueueInv, HeardEnd, users, Parties
<1> QED
  BY <1>5, <1>8

\* Only the programs of Socket type again after the end of the stream.
LEMMA EndTalk ==
  ASSUME Inv, NEW p, NEW c, NEW q, HeardEnd(p, c, q)
  PROVE  Talk(c)'
<1> DEFINE s == Side(p)
           o == Other(s)
<1>1. /\ TypeOK /\ QueueInv /\ Talk(c) /\ p \in Parties /\ c \in Clients
      /\ s \in Sides /\ o \in Sides /\ s # o /\ Other(o) = s
      /\ Party(c, s) = p /\ Party(c, o) = Peer(p) /\ Peer(p) # p
      /\ ~GoneFor(c, s) /\ pc[c] # "off" /\ Peer(p) \in Parties
      /\ way[c][s] = <<>> /\ way[c][o] = <<>> /\ GoneFor(c, o) /\ pair \in Streams
      /\ end[c][s] # "open" /\ end[c][o] = "open"
  <2>1. Talks(p, c) /\ pc[p] = "recv" /\ way[c][s] = <<>> /\ end[c][s] # "open" /\ pair \in Streams
    BY DEF HeardEnd
  <2>2. /\ TypeOK /\ QueueInv /\ Talk(c) /\ p \in Parties /\ c \in Clients /\ Peer(p) \in Parties
    BY <2>1 DEF Inv, Talks, Conn, Peer, Parties
  <2>3. /\ s \in Sides /\ o \in Sides /\ s # o /\ Other(o) = s /\ Party(c, s) = p
        /\ Party(c, o) = Peer(p) /\ Peer(p) # p /\ ~GoneFor(c, s) /\ pc[c] # "off"
    BY <2>1, <2>2, Talking, SideFacts
  <2> QED
    BY <2>1, <2>2, <2>3 DEF Talk, Ending
<1>2. /\ pc'[p] = q /\ pc'[Peer(p)] = pc[Peer(p)]
      /\ (Agreed' <=> Agreed) /\ pair' = pair /\ way' = way /\ late' = late /\ turns' = turns
      /\ addr' = addr /\ queue' = queue /\ Program(Server)' = Program(Server)
      /\ \A x : Party(c, x)' = Party(c, x)
  BY <1>1, ProgramSame DEF HeardEnd, TypeOK, users, Party
<1>3. end'[c][o] = "open" /\ (end'[c][s] = end[c][s] \/ end'[c][s] = "broken")
  <2>1. end \in [Clients -> [Sides -> {"open", "closed", "reset", "broken"}]]
    BY <1>1 DEF TypeOK
  <2>2. CASE end' = end
    BY <1>1, <2>2
  <2>3. CASE end' = [end EXCEPT ![c][s] = "broken"]
    BY <1>1, <2>1, <2>3, Update
  <2> QED
    BY <2>2, <2>3 DEF HeardEnd
<1>4. /\ HasTurn(c, s)' => q = "type"
      /\ ~HasTurn(c, o)' /\ GoneFor(c, o)' /\ ~Done(c, s) /\ pc'[c] # "off"
  <2>1. queue # <<>> => pc[Server] # "left"
    BY <1>1 DEF QueueInv
  <2>2. c \in Range(queue) => queue # <<>>
    BY DEF Range
  <2>3. CASE p = Server
    <3>1. s = "server" /\ o = "client" /\ addr = c /\ Peer(p) = c /\ c \notin Range(queue)
      BY <1>1, <2>3 DEF Side, Other, Peer, HeardEnd, Talks, Conn, QueueInv, Range, TypeOK
    <3> QED
      BY <1>1, <1>2, <2>3, <3>1 DEF HasTurn, GoneFor, Done, HeardEnd, Range
  <2>4. CASE p # Server
    <3>1. s = "client" /\ o = "server" /\ c = p /\ Peer(p) = Server
      BY <1>1, <2>4 DEF Side, Other, Peer, HeardEnd, Talks, Conn
    <3> QED
      BY <1>1, <1>2, <2>1, <2>2, <2>4, <3>1 DEF HasTurn, GoneFor, Done, HeardEnd, Range
  <2> QED
    BY <2>3, <2>4
<1>5. Fresh(c)'
  BY <1>4 DEF Fresh
<1>6. Ending(c)'
  <2>1. pc'[p] # "left"
    BY <1>2 DEF HeardEnd
  <2>2. end'[c][s] # "open"
    BY <1>1, <1>3
  <2> QED
    BY <1>1, <1>2, <1>3, <1>4, <2>1, <2>2, SideFacts DEF Ending
<1>7. Late(c)'
  <2>1. late[c][o] = 0
    BY <1>1 DEF Talk, Late, HeardEnd
  <2>2. \A t \in Sides : late[c][t] <= turns[Party(c, t)]
    BY <1>1 DEF Talk, Late
  <2>3. ASSUME late[c][s] # 0
        PROVE  /\ pc[Peer(p)] = "left"
               /\ IF Twice THEN late[c][s] = 1 /\ end'[c][s] = "broken"
                  ELSE late[c][s] = 1 /\ ~HasTurn(c, s)'
    BY <1>1, <1>3, <1>4, <2>3 DEF Talk, Late, HeardEnd, Twice
  <2>4. Twice' <=> Twice
    BY ProgramSame DEF HeardEnd
  <2> QED
    BY <1>1, <1>2, <1>3, <2>1, <2>2, <2>3, <2>4, SideFacts DEF Late
<1>8. OneSpeaks(c)'
  <2>1. Len(<<>>) = 0
    OBVIOUS
  <2> QED
    BY <1>1, <1>2, <1>4, <2>1, SideFacts DEF OneSpeaks
<1>9. Moving(c)'
  <2>1. end'[c][s] # "open"
    BY <1>1, <1>3
  <2> QED
    BY <1>1, <1>2, <2>1 DEF Moving, Alive
<1>10. Mute(c)'
  <2>1. serverFirst' = serverFirst /\ (q = "type" => pair = "Socket")
    BY DEF HeardEnd
  <2> QED
    BY <1>1, <1>2, <1>4, <2>1, SideFacts DEF Talk, Mute
<1> QED
  BY <1>2, <1>5, <1>6, <1>7, <1>8, <1>9, <1>10 DEF Talk

\* Being told of the end keeps the invariant.
LEMMA EndInv ==
  ASSUME Inv, NEW p, NEW c, NEW q, HeardEnd(p, c, q)
  PROVE  Inv'
<1>1. \A d \in Clients : Talk(d)'
  BY EndTalk, EndOthers
<1> QED
  BY <1>1, EndTypes DEF Inv

\* A recv() that returns 0 or an error is a way of being told.
LEMMA EndHeard ==
  ASSUME Inv, NEW p \in Parties, ReceivesEnd(p)
  PROVE  \E q \in {"type", "leave"} : HeardEnd(p, Conn(p), q)
<1>1. TypeOK /\ pc[p] = "recv" /\ pair \in Streams
  BY DEF Inv, ReceivesEnd
<1>2. Talks(p, Conn(p)) /\ Conn(p) \in Clients /\ Side(p) \in Sides
  BY <1>1 DEF TypeOK, Conn, Parties, Side, Sides, Talks
<1>3. Program(p).gone \in {"type", "leave"} /\ (Program(p).gone = "type" => pair = "Socket")
  BY <1>1, ProgramFacts DEF TypeOK
<1>4. end' = end \/ end' = [end EXCEPT ![Conn(p)][Side(p)] = "broken"]
  <2>1. end \in [Clients -> [Sides -> {"open", "closed", "reset", "broken"}]]
    BY <1>1 DEF TypeOK
  <2>2. CASE End(p) = "reset"
    BY <1>2, <2>1, <2>2 DEF ReceivesEnd, End
  <2>3. CASE End(p) # "reset"
    BY <1>2, <2>1, <2>3 DEF ReceivesEnd, End
  <2> QED
    BY <2>2, <2>3
<1>5. PICK q \in {"type", "leave"} : pc' = [pc EXCEPT ![p] = q] /\ (q = "type" => pair = "Socket")
  BY <1>3 DEF ReceivesEnd
<1> QED
  BY <1>1, <1>2, <1>4, <1>5 DEF ReceivesEnd, HeardEnd, Unread, End

-----------------------------------------------------------------------------
(* Leaving *)

\* Side s of conversation c is closed by a party that had not left.
Closed(c, s) ==
    /\ c \in Clients /\ s \in Sides
    /\ UNCHANGED <<pair, serverFirst, users, lost>>
    /\ way'[c] = [way[c] EXCEPT ![s] = <<>>]
    /\ end'[c][s] = end[c][s]
    /\ IF pair \in Streams THEN end'[c][Other(s)] # "open" ELSE end'[c] = end[c]
    /\ pc[Party(c, s)] # "left" /\ pc'[Party(c, Other(s))] = pc[Party(c, Other(s))]
    /\ ~HasTurn(c, s)' /\ (HasTurn(c, Other(s))' <=> HasTurn(c, Other(s)))
    /\ GoneFor(c, s)' /\ (GoneFor(c, Other(s)) => GoneFor(c, Other(s))')
    /\ Done(c, s)' /\ ~Alive(c)'
    /\ (pc'[c] = "off" => pc[c] = "off") /\ (pc[c] # "off" \/ s = "server")

\* What holds of a conversation still holds after one side of it is closed.
LEMMA ClosedTalk ==
  ASSUME Inv, NEW c, NEW s, Closed(c, s)
  PROVE  Talk(c)'
<1> DEFINE o == Other(s)
<1>1. /\ TypeOK /\ Talk(c) /\ c \in Clients /\ s \in Sides /\ o \in Sides /\ o # s /\ Other(o) = s
      /\ \A t \in Sides : t = s \/ t = o
      /\ \A x : Party(c, x)' = Party(c, x)
      /\ (Agreed' <=> Agreed) /\ pair' = pair /\ late' = late /\ turns' = turns
  BY SideFacts, ProgramSame DEF Inv, Closed, users, Party
<1>2. way'[c][s] = <<>> /\ way'[c][o] = way[c][o]
  <2>1. way[c] \in [Sides -> Seq(Messages)]
    BY <1>1 DEF TypeOK
  <2> QED
    BY <1>1, <2>1 DEF Closed
<1>3. Fresh(c)'
  <2>1. pc[c] = "off" => end'[c]["server"] = "open"
    <3>1. pc[c] = "off" => s = "server"
      BY DEF Closed
    <3> QED
      BY <1>1, <3>1 DEF Closed, Talk, Fresh
  <2>2. pc[c] = "off" => \A t \in Sides : way'[c][t] = <<>> /\ late[c][t] = 0
    BY <1>1, <1>2 DEF Talk, Fresh
  <2>3. pc'[c] = "off" => pc[c] = "off"
    BY DEF Closed
  <2> QED
    BY <1>1, <2>1, <2>2, <2>3 DEF Fresh
<1>4. Ending(c)'
  <2>1. end'[c][o] # "open" => pair \in Streams
    BY <1>1 DEF Closed, Talk, Ending
  <2>2. end'[c][s] # "open" => pair \in Streams /\ GoneFor(c, o)' /\ way'[c][o] = <<>>
    BY <1>1, <1>2 DEF Closed, Talk, Ending
  <2>3. pair \in Streams => end'[c][o] # "open"
    BY DEF Closed
  <2>4. pair \in Streams /\ pc'[Party(c, o)] = "left" => end'[c][s] # "open"
    BY <1>1 DEF Closed, Talk, Ending
  <2> QED
    BY <1>1, <1>2, <2>1, <2>2, <2>3, <2>4 DEF Ending, Closed
<1>5. Late(c)'
  <2>1. \A t \in Sides : late[c][t] <= turns[Party(c, t)] /\ late[c][t] \in Nat
    BY <1>1 DEF Talk, Late, TypeOK
  <2>2. late[c][o] = 0
    BY <1>1 DEF Talk, Late, Closed
  <2>3. ASSUME late[c][s] # 0
        PROVE  /\ pc[Party(c, o)] = "left"
               /\ IF Twice THEN late[c][s] <= 2 ELSE late[c][s] = 1
    BY <1>1, <2>1, <2>3 DEF Talk, Late
  <2>4. Twice' <=> Twice
    BY ProgramSame DEF Closed
  <2> QED
    BY <1>1, <1>2, <2>1, <2>2, <2>3, <2>4 DEF Late, Closed
<1>6. OneSpeaks(c) => OneSpeaks(c)'
  <2>1. Len(<<>>) = 0
    OBVIOUS
  <2> QED
    BY <1>1, <1>2, <2>1, SideFacts DEF OneSpeaks, Closed
<1>7. Moving(c)'
  BY DEF Moving, Closed
<1>8. Mute(c)'
  BY <1>1, <1>2 DEF Talk, Mute, Closed
<1> QED
  BY <1>1, <1>3, <1>4, <1>5, <1>6, <1>7, <1>8 DEF Talk

\* Whatever the other side sees, it is an end.
LEMMA SeesAnEnd ==
  ASSUME TypeOK, NEW c \in Clients, NEW s \in Sides
  PROVE  SeesEnd(c, s) \in {"closed", "reset", "broken"}
BY SideFacts DEF TypeOK, SeesEnd

\* What close() does to conversation c.
LEMMA CloseEffect ==
  ASSUME TypeOK, NEW cs, NEW s \in Sides, Close(cs, s)
  PROVE  /\ way' \in [Clients -> [Sides -> Seq(Messages)]]
         /\ end' \in [Clients -> [Sides -> {"open", "closed", "reset", "broken"}]]
         /\ \A c \in Clients : c \notin cs => way'[c] = way[c] /\ end'[c] = end[c]
         /\ \A c \in Clients : c \in cs =>
              /\ way'[c] = [way[c] EXCEPT ![s] = <<>>]
              /\ end'[c][s] = end[c][s]
              /\ IF pair \in Streams THEN end'[c][Other(s)] # "open" ELSE end'[c] = end[c]
<1>1. /\ way \in [Clients -> [Sides -> Seq(Messages)]]
      /\ end \in [Clients -> [Sides -> {"open", "closed", "reset", "broken"}]]
      /\ Other(s) \in Sides /\ Other(s) # s
  BY SideFacts DEF TypeOK
<1>2. ASSUME NEW c \in Clients
      PROVE  [way[c] EXCEPT ![s] = <<>>] \in [Sides -> Seq(Messages)]
  <2>1. <<>> \in Seq(Messages) /\ way[c] \in [Sides -> Seq(Messages)]
    BY <1>1
  <2> QED
    BY <2>1
<1>3. ASSUME NEW c \in Clients
      PROVE  /\ [end[c] EXCEPT ![Other(s)] = SeesEnd(c, s)] \in [Sides -> {"open", "closed", "reset", "broken"}]
             /\ [end[c] EXCEPT ![Other(s)] = SeesEnd(c, s)][s] = end[c][s]
             /\ [end[c] EXCEPT ![Other(s)] = SeesEnd(c, s)][Other(s)] # "open"
  BY <1>1, SeesAnEnd
<1>4. way' \in [Clients -> [Sides -> Seq(Messages)]]
  BY <1>1, <1>2 DEF Close
<1>5. end' \in [Clients -> [Sides -> {"open", "closed", "reset", "broken"}]]
  BY <1>1, <1>3 DEF Close
<1>6. ASSUME NEW c \in Clients, c \notin cs PROVE way'[c] = way[c] /\ end'[c] = end[c]
  BY <1>6 DEF Close
<1>7. ASSUME NEW c \in Clients, c \in cs
      PROVE  /\ way'[c] = [way[c] EXCEPT ![s] = <<>>]
             /\ end'[c][s] = end[c][s]
             /\ IF pair \in Streams THEN end'[c][Other(s)] # "open" ELSE end'[c] = end[c]
  <2>1. way'[c] = [way[c] EXCEPT ![s] = <<>>]
    BY <1>7 DEF Close
  <2>2. end'[c] = IF pair \in Streams THEN [end[c] EXCEPT ![Other(s)] = SeesEnd(c, s)] ELSE end[c]
    BY <1>7 DEF Close
  <2> QED
    BY <1>3, <2>1, <2>2
<1> QED
  BY <1>4, <1>5, <1>6, <1>7

\* A client that leaves or is interrupted.
LEMMA ClientEnds ==
  ASSUME Inv, NEW c \in Clients, pc[c] \notin {"off", "left"}, Ends(c)
  PROVE  Inv'
<1>1. /\ TypeOK /\ QueueInv /\ c # Server /\ c \in Parties /\ Server \in Parties /\ "client" \in Sides
      /\ Other("client") = "server" /\ Party(c, "client") = c /\ Party(c, "server") = Server
  BY SideFacts DEF Inv, Parties, Sides
<1>2. /\ Close({c}, "client") /\ pc' = [pc EXCEPT ![c] = "left"]
      /\ UNCHANGED <<pair, serverFirst, addr, queue, users, buffer, lost>>
  BY <1>1 DEF Ends, Side
<1>3. /\ way' \in [Clients -> [Sides -> Seq(Messages)]]
      /\ end' \in [Clients -> [Sides -> {"open", "closed", "reset", "broken"}]]
      /\ \A d \in Clients : d # c => way'[d] = way[d] /\ end'[d] = end[d]
      /\ way'[c] = [way[c] EXCEPT !["client"] = <<>>]
      /\ end'[c]["client"] = end[c]["client"]
      /\ IF pair \in Streams THEN end'[c]["server"] # "open" ELSE end'[c] = end[c]
  BY <1>1, <1>2, CloseEffect
<1>4. pc'[c] = "left" /\ \A r \in Parties : r # c => pc'[r] = pc[r]
  BY <1>1, <1>2 DEF TypeOK
<1>5. Program(Server)' = Program(Server) /\ Range(queue)' = Range(queue)
  BY <1>2, ProgramSame DEF Range
<1>6. TypeOK'
  <2>1. pc' \in [Parties -> {"off", "accept", "type", "recv", "echo", "leave", "left"}]
    BY <1>1, <1>2 DEF TypeOK
  <2> QED
    BY <1>1, <1>2, <1>3, <1>4, <2>1 DEF TypeOK, users
<1>7. QueueInv'
  <2>1. \A r \in Parties : pc'[r] = "off" => pc[r] = "off"
    BY <1>4
  <2>2. pc'[Server] = pc[Server]
    BY <1>1, <1>4
  <2>3. \A k \in 1 .. Len(queue) : queue[k] \in Clients
    BY <1>1 DEF TypeOK
  <2> QED
    BY <1>1, <1>2, <2>1, <2>2, <2>3 DEF QueueInv, users, Parties
<1>8. Talk(c)'
  <2>1. pc'[Server] = pc[Server]
    BY <1>1, <1>4
  <2>2. ~HasTurn(c, "client")' /\ (HasTurn(c, "server")' <=> HasTurn(c, "server"))
    BY <1>2, <1>4, <1>5, <2>1 DEF HasTurn
  <2>3. GoneFor(c, "client")' /\ (GoneFor(c, "server") => GoneFor(c, "server")')
    BY <1>2, <1>4, <1>5, <2>1 DEF GoneFor
  <2>4. Done(c, "client")' /\ ~Alive(c)'
    BY <1>4 DEF Done, Alive
  <2>5. Closed(c, "client")
    BY <1>1, <1>2, <1>3, <1>4, <2>1, <2>2, <2>3, <2>4 DEF Closed
  <2> QED
    BY <2>5, ClosedTalk
<1>9. ASSUME NEW d \in Clients, d # c PROVE Talk(d)'
  <2>1. pc'[d] = pc[d] /\ pc'[Server] = pc[Server]
    BY <1>1, <1>4, <1>9 DEF Parties
  <2>2. turns[Server] <= turns[Server]
    <3>1. turns[Server] \in Nat
      BY <1>1, TurnsAssumption DEF TypeOK
    <3> QED
      BY <3>1
  <2>3. /\ HasTurn(d, "server")' <=> HasTurn(d, "server")
        /\ GoneFor(d, "server") => GoneFor(d, "server")'
        /\ Done(d, "server") => Done(d, "server")'
    BY <1>2, <1>5, <2>1 DEF HasTurn, GoneFor, Done
  <2>4. Alive(d)' => Alive(d)
    BY <1>2, <1>3, <1>5, <1>9, <2>1 DEF Alive
  <2>5. Cause(d) => Cause(d)'
    BY <1>2, <1>5 DEF Cause, users
  <2>6. Same(d)
    BY <1>2, <1>3, <1>9, <2>1, <2>2, <2>3, <2>4, <2>5 DEF Same, users
  <2> QED
    BY <1>1, <1>6, <2>6, SameTalk DEF Inv, TypeOK
<1> QED
  BY <1>6, <1>7, <1>8, <1>9 DEF Inv

\* A server that leaves or is interrupted, with all conversations.
LEMMA ServerEnds ==
  ASSUME Inv, pc[Server] # "left", Ends(Server)
  PROVE  Inv'
<1>1. /\ TypeOK /\ QueueInv /\ Server \in Parties /\ "server" \in Sides
      /\ Other("server") = "client"
  BY SideFacts DEF Inv, Parties, Sides
<1>2. /\ Close(Clients, "server") /\ pc' = [pc EXCEPT ![Server] = "left"] /\ queue' = <<>>
      /\ UNCHANGED <<pair, serverFirst, addr, users, buffer, lost>>
  BY <1>1 DEF Ends, Side
<1>3. /\ way' \in [Clients -> [Sides -> Seq(Messages)]]
      /\ end' \in [Clients -> [Sides -> {"open", "closed", "reset", "broken"}]]
      /\ \A c \in Clients :
           /\ way'[c] = [way[c] EXCEPT !["server"] = <<>>]
           /\ end'[c]["server"] = end[c]["server"]
           /\ IF pair \in Streams THEN end'[c]["client"] # "open" ELSE end'[c] = end[c]
  BY <1>1, <1>2, CloseEffect
<1>4. pc'[Server] = "left" /\ \A r \in Parties : r # Server => pc'[r] = pc[r]
  BY <1>1, <1>2 DEF TypeOK
<1>5. Range(queue)' = {} /\ Len(queue') = 0 /\ queue' \in Seq(Clients)
  BY <1>2 DEF Range
<1>6. TypeOK'
  <2>1. pc' \in [Parties -> {"off", "accept", "type", "recv", "echo", "leave", "left"}]
    BY <1>1, <1>2 DEF TypeOK
  <2> QED
    BY <1>1, <1>2, <1>3, <1>4, <1>5, <2>1 DEF TypeOK, users
<1>7. QueueInv'
  <2>1. addr \in Clients => pc'[addr] # "off"
    BY <1>1, <1>4, SideFacts DEF QueueInv, Parties
  <2> QED
    BY <1>2, <1>4, <1>5, <2>1 DEF QueueInv
<1>8. ASSUME NEW c \in Clients PROVE Talk(c)'
  <2>1. pc'[c] = pc[c] /\ Party(c, "server") = Server /\ Party(c, "client") = c
    BY <1>4, SideFacts DEF Parties
  <2>2. ~HasTurn(c, "server")' /\ (HasTurn(c, "client")' <=> HasTurn(c, "client"))
    BY <1>4, <1>5, <2>1 DEF HasTurn
  <2>3. GoneFor(c, "server")' /\ (GoneFor(c, "client") => GoneFor(c, "client")')
    BY <1>4, <2>1 DEF GoneFor
  <2>4. Done(c, "server")' /\ ~Alive(c)'
    BY <1>4, <1>5 DEF Done, Alive
  <2>5. Closed(c, "server")
    BY <1>1, <1>2, <1>3, <2>1, <2>2, <2>3, <2>4 DEF Closed
  <2> QED
    BY <2>5, ClosedTalk
<1> QED
  BY <1>6, <1>7, <1>8 DEF Inv

\* The server of First closes one connection and goes on.
LEMMA ServerHangsUp ==
  ASSUME Inv, HangUp
  PROVE  Inv'
<1>0. PICK c \in Clients : c = addr
  BY DEF Inv, TypeOK, HangUp, HangsUp
<1>1. /\ TypeOK /\ QueueInv /\ Server \in Parties /\ "server" \in Sides
      /\ Other("server") = "client" /\ pair \in Streams /\ pc[Server] = "leave"
      /\ c # Server /\ Nobody \notin Clients
      /\ Party(c, "server") = Server /\ Party(c, "client") = c
  BY SideFacts DEF Inv, Parties, Sides, TypeOK, HangUp, HangsUp, Streams
<1>2. /\ Close({c}, "server") /\ pc' = [pc EXCEPT ![Server] = "accept"] /\ addr' = Nobody
      /\ UNCHANGED <<pair, serverFirst, queue, users, buffer, lost>>
  BY <1>0 DEF HangUp, HangsUp
<1>3. /\ way' \in [Clients -> [Sides -> Seq(Messages)]]
      /\ end' \in [Clients -> [Sides -> {"open", "closed", "reset", "broken"}]]
      /\ \A d \in Clients : d # c => way'[d] = way[d] /\ end'[d] = end[d]
      /\ way'[c] = [way[c] EXCEPT !["server"] = <<>>]
      /\ end'[c]["server"] = end[c]["server"]
      /\ IF pair \in Streams THEN end'[c]["client"] # "open" ELSE end'[c] = end[c]
  <2>1. TypeOK /\ Close({c}, "server") /\ "server" \in Sides
    BY <1>1, <1>2
  <2>2. /\ way' \in [Clients -> [Sides -> Seq(Messages)]]
        /\ end' \in [Clients -> [Sides -> {"open", "closed", "reset", "broken"}]]
        /\ \A d \in Clients : d \notin {c} => way'[d] = way[d] /\ end'[d] = end[d]
        /\ \A d \in Clients : d \in {c} =>
             /\ way'[d] = [way[d] EXCEPT !["server"] = <<>>]
             /\ end'[d]["server"] = end[d]["server"]
             /\ IF pair \in Streams THEN end'[d][Other("server")] # "open" ELSE end'[d] = end[d]
    BY <2>1, CloseEffect
  <2> QED
    BY <1>1, <2>2
<1>4. pc'[Server] = "accept" /\ \A r \in Parties : r # Server => pc'[r] = pc[r]
  BY <1>1, <1>2 DEF TypeOK
<1>5. Program(Server)' = Program(Server) /\ Range(queue)' = Range(queue) /\ c \notin Range(queue)
      /\ pc[c] # "off"
  BY <1>0, <1>1, <1>2, ProgramSame DEF Range, QueueInv, TypeOK
<1>6. TypeOK'
  <2>1. pc' \in [Parties -> {"off", "accept", "type", "recv", "echo", "leave", "left"}]
    BY <1>1, <1>2 DEF TypeOK
  <2> QED
    BY <1>1, <1>2, <1>3, <1>4, <2>1 DEF TypeOK, users
<1>7. QueueInv'
  <2>1. ASSUME NEW k \in 1 .. Len(queue)
        PROVE  queue[k] \in Clients /\ queue[k] # Nobody /\ pc'[queue[k]] = pc[queue[k]]
    <3>1. queue[k] \in Clients
      BY <1>1 DEF TypeOK
    <3> QED
      BY <1>1, <1>4, <3>1, SideFacts DEF Parties
  <2> QED
    BY <1>1, <1>2, <1>4, <2>1 DEF QueueInv, users
<1>8. Talk(c)'
  <2>1. pc'[c] = pc[c]
    BY <1>1, <1>4 DEF Parties
  <2>2. ~HasTurn(c, "server")' /\ (HasTurn(c, "client")' <=> HasTurn(c, "client"))
    BY <1>0, <1>1, <1>2, <1>4, <1>5, <2>1 DEF HasTurn
  <2>3. GoneFor(c, "server")' /\ (GoneFor(c, "client") => GoneFor(c, "client")')
    BY <1>1, <1>2, <1>4, <1>5, <1>0, <2>1 DEF GoneFor
  <2>4. Done(c, "server")' /\ ~Alive(c)'
    BY <1>1, <1>2, <1>4, <1>5 DEF Done, Alive
  <2>5. Closed(c, "server")
    BY <1>1, <1>2, <1>3, <2>1, <2>2, <2>3, <2>4 DEF Closed
  <2> QED
    BY <2>5, ClosedTalk
<1>9. ASSUME NEW d \in Clients, d # c PROVE Talk(d)'
  <2>1. pc'[d] = pc[d] /\ d # Nobody
    BY <1>1, <1>4, <1>9, SideFacts DEF Parties
  <2>2. turns[Server] <= turns[Server]
    <3>1. turns[Server] \in Nat
      BY <1>1, TurnsAssumption DEF TypeOK
    <3> QED
      BY <3>1
  <2>3. /\ HasTurn(d, "server")' <=> HasTurn(d, "server")
        /\ GoneFor(d, "server") => GoneFor(d, "server")'
        /\ Done(d, "server") => Done(d, "server")'
    BY <1>0, <1>1, <1>2, <1>4, <1>5, <1>9, <2>1 DEF HasTurn, GoneFor, Done
  <2>4. Alive(d)' => Alive(d)
    BY <1>0, <1>1, <1>2, <1>3, <1>5, <1>9, <2>1 DEF Alive
  <2>5. Cause(d) => Cause(d)'
    BY <1>2, <1>5 DEF Cause, users
  <2>6. Same(d)
    BY <1>1, <1>2, <1>3, <1>4, <1>9, <2>1, <2>2, <2>3, <2>4, <2>5 DEF Same, users
  <2> QED
    BY <1>1, <1>6, <2>6, SameTalk DEF Inv, TypeOK
<1> QED
  BY <1>6, <1>7, <1>8, <1>9 DEF Inv

-----------------------------------------------------------------------------
(* Coming *)

\* A step that changes nothing of any conversation.
LEMMA AllSame ==
  ASSUME Inv, TypeOK', QueueInv', \A d \in Clients : Same(d)
  PROVE  Inv'
BY SameTalk DEF Inv, TypeOK

\* Accept moves the client from the queue to addr, where it has its turn as before.
LEMMA Accepted ==
  ASSUME Inv, Accept
  PROVE  Inv'
<1>1. /\ TypeOK /\ QueueInv /\ Server \in Parties /\ queue \in Seq(Clients) /\ queue # <<>>
      /\ pc[Server] = "accept" /\ addr = Nobody /\ pair \in Streams
  BY DEF Inv, TypeOK, QueueInv, Accept, Parties
<1>2. PICK c \in Clients : c = queue[1] /\ addr' = c /\ c = Head(queue)
  BY <1>1 DEF Accept
<1>3. /\ queue' \in Seq(Clients) /\ Len(queue) \in Nat /\ Len(queue') = Len(queue) - 1
      /\ \A k \in 1 .. Len(queue') : queue'[k] = queue[k + 1] /\ k + 1 \in 1 .. Len(queue) /\ k + 1 # 1
      /\ 1 \in 1 .. Len(queue)
      /\ \A k \in 1 .. Len(queue) : k # 1 => k - 1 \in 1 .. Len(queue') /\ queue'[k - 1] = queue[k]
  BY <1>1 DEF Accept
<1>4. /\ pc' = [pc EXCEPT ![Server] = Program(Server).first]
      /\ Program(Server).first \in {"type", "recv"} /\ Program(Server)' = Program(Server)
      /\ UNCHANGED <<pair, serverFirst, way, end, users, buffer, lost>>
  BY <1>1, ProgramFacts, ProgramSame DEF Accept, TypeOK
<1>5. pc'[Server] = Program(Server).first /\ \A r \in Parties : r # Server => pc'[r] = pc[r]
  BY <1>1, <1>4 DEF TypeOK
<1>6. TypeOK'
  <2>1. pc' \in [Parties -> {"off", "accept", "type", "recv", "echo", "leave", "left"}]
    BY <1>1, <1>4 DEF TypeOK
  <2> QED
    BY <1>1, <1>2, <1>3, <1>4, <1>5, <2>1 DEF TypeOK, users
<1>7. QueueInv'
  <2>1. ASSUME NEW k \in 1 .. Len(queue')
        PROVE  pc'[queue'[k]] # "off" /\ queue'[k] # addr' /\ late'[queue'[k]]["server"] = 0
    <3>1. k + 1 \in 1 .. Len(queue) /\ k + 1 # 1 /\ queue'[k] = queue[k + 1] /\ queue[k + 1] \in Clients
      BY <1>1, <1>3
    <3>2. queue[k + 1] # queue[1]
      BY <1>1, <1>3, <3>1 DEF QueueInv
    <3> QED
      BY <1>1, <1>2, <1>4, <1>5, <3>1, <3>2, SideFacts DEF QueueInv, users, Parties
  <2>2. ASSUME NEW k \in 1 .. Len(queue'), NEW l \in 1 .. Len(queue'), k # l
        PROVE  queue'[k] # queue'[l]
    <3>1. k + 1 # l + 1
      BY <2>2
    <3> QED
      BY <1>1, <1>3, <3>1 DEF QueueInv
  <2>3. pc'[addr'] # "off"
    BY <1>1, <1>2, <1>3, <1>5, SideFacts DEF QueueInv, Parties
  <2> QED
    BY <1>1, <1>4, <1>5, <2>1, <2>2, <2>3 DEF QueueInv
<1>8. ASSUME NEW d \in Clients PROVE Same(d)
  <2>1. pc'[d] = pc[d] /\ d # Nobody
    BY <1>5, SideFacts DEF Parties
  <2>2. d \in Range(queue) <=> d = c \/ d \in Range(queue')
    <3>1. Range(queue) = {queue[k] : k \in 1 .. Len(queue)}
      BY <1>1 DEF Range
    <3>2. Range(queue') = {queue'[k] : k \in 1 .. Len(queue')}
      BY <1>3 DEF Range
    <3> QED
      BY <1>2, <1>3, <3>1, <3>2, ZenonT(30)
  <2>3. c \notin Range(queue')
    <3>1. Range(queue') = {queue'[k] : k \in 1 .. Len(queue')}
      BY <1>3 DEF Range
    <3>2. ASSUME NEW k \in 1 .. Len(queue') PROVE queue'[k] # c
      BY <1>1, <1>2, <1>3 DEF QueueInv
    <3> QED
      BY <3>1, <3>2
  <2>4. HasTurn(d, "server")' <=> HasTurn(d, "server")
    BY <1>1, <1>2, <1>4, <1>5, <2>1, <2>2, <2>3 DEF HasTurn, Range
  <2>5. GoneFor(d, "server") => GoneFor(d, "server")'
    BY <1>1, <1>2, <1>4, <1>5, <2>1, <2>2 DEF GoneFor, Range
  <2>6. late[d]["server"] # 0 => Done(d, "server")'
    <3>1. late[c]["server"] = 0
      BY <1>1, <1>2, <1>3 DEF QueueInv
    <3> QED
      BY <1>2, <3>1 DEF Done
  <2>7. Alive(d)' => Alive(d)
    BY <1>1, <1>2, <1>4, <2>1, <2>2 DEF Alive, Range
  <2>8. Cause(d) => Cause(d)'
    BY <1>4 DEF Cause, users
  <2>9. turns[Server] <= turns[Server]
    <3>1. turns[Server] \in Nat
      BY <1>1, TurnsAssumption DEF TypeOK
    <3> QED
      BY <3>1
  <2> QED
    BY <1>1, <1>4, <1>5, <2>1, <2>4, <2>5, <2>6, <2>7, <2>8, <2>9 DEF Same, users
<1> QED
  BY <1>6, <1>7, <1>8, AllSame

\* The end of an input can only be one more cause of waiting.
LEMMA InputEnded ==
  ASSUME Inv, NEW p \in Parties, InputEnds(p)
  PROVE  Inv'
<1>1. /\ TypeOK /\ QueueInv /\ input' = [input EXCEPT ![p] = "ended"]
      /\ UNCHANGED <<pair, serverFirst, pc, addr, queue, way, end, turns, late, skipped, buffer, lost>>
  BY DEF Inv, InputEnds
<1>2. TypeOK'
  BY <1>1 DEF TypeOK
<1>3. QueueInv'
  BY <1>1 DEF QueueInv
<1>4. Program(Server)' = Program(Server)
  BY <1>1, ProgramSame
<1>5. \A r \in Parties : input[r] = "ended" => input'[r] = "ended"
  BY <1>1 DEF TypeOK
<1>6. ASSUME NEW d \in Clients PROVE Same(d)
  <2>1. Cause(d) => Cause(d)'
    BY <1>1, <1>4, <1>5 DEF Cause, Parties
  <2>2. turns[Server] <= turns[Server]
    <3>1. turns[Server] \in Nat
      BY <1>1, TurnsAssumption DEF TypeOK, Parties
    <3> QED
      BY <3>1
  <2>3. /\ HasTurn(d, "server")' <=> HasTurn(d, "server")
        /\ GoneFor(d, "server") => GoneFor(d, "server")'
        /\ Done(d, "server") => Done(d, "server")'
        /\ Alive(d)' => Alive(d)
    BY <1>1, <1>4 DEF HasTurn, GoneFor, Done, Alive, Range
  <2> QED
    BY <1>1, <2>1, <2>2, <2>3 DEF Same
<1> QED
  BY <1>2, <1>3, <1>6, AllSame

\* A client that comes has its turn, or the server has it, if they agree.
LEMMA Connected ==
  ASSUME Inv, NEW c \in Clients, Connect(c)
  PROVE  Inv'
<1>1. /\ TypeOK /\ QueueInv /\ Talk(c) /\ c \in Parties /\ c # Server /\ queue \in Seq(Clients)
      /\ pc[c] = "off" /\ (pair \in Streams => pc[Server] # "left") /\ addr # c
      /\ pair \in Streams \union Datagrams
  BY SideFacts DEF Inv, TypeOK, Connect, Parties, QueueInv
<1>2. /\ pc' = [pc EXCEPT ![c] = Program(c).first] /\ Program(c).first \in {"type", "recv"}
      /\ queue' = IF pair \in Streams THEN Append(queue, c) ELSE queue
      /\ UNCHANGED <<pair, serverFirst, addr, way, end, users, buffer, lost>>
      /\ Program(Server)' = Program(Server) /\ (Agreed' <=> Agreed)
  BY <1>1, ProgramFacts, ProgramSame DEF Connect
<1>3. pc'[c] = Program(c).first /\ \A r \in Parties : r # c => pc'[r] = pc[r]
  BY <1>1, <1>2 DEF TypeOK
<1>4. pc'[Server] = pc[Server]
  BY <1>1, <1>3 DEF Parties
<1>5. \A k \in 1 .. Len(queue) : queue[k] \in Clients /\ queue[k] # c
  BY <1>1 DEF QueueInv
<1>6. pair \notin Streams => queue = <<>>
  BY <1>1 DEF QueueInv
\* Where the client stands in the queue.
<1>7. /\ queue' \in Seq(Clients)
      /\ Range(queue') = IF pair \in Streams THEN Range(queue) \union {c} ELSE Range(queue)
      /\ c \notin Range(queue)
      /\ \A k \in 1 .. Len(queue') : (k \in 1 .. Len(queue) /\ queue'[k] = queue[k])
                                     \/ (k = Len(queue) + 1 /\ queue'[k] = c)
  <2>1. Range(queue) = {queue[k] : k \in 1 .. Len(queue)} /\ Len(queue) \in Nat
    BY <1>1 DEF Range
  <2>2. CASE pair \in Streams
    <3>1. queue' = Append(queue, c)
      BY <1>2, <2>2
    <3>2. /\ queue' \in Seq(Clients) /\ Len(queue') = Len(queue) + 1 /\ DOMAIN queue' = 1 .. Len(queue) + 1
          /\ \A k \in 1 .. Len(queue) : queue'[k] = queue[k]
          /\ queue'[Len(queue) + 1] = c
      BY <1>1, <3>1
    <3>3. Range(queue') = {queue'[k] : k \in 1 .. Len(queue) + 1}
      BY <3>2 DEF Range
    <3>4. Range(queue') = Range(queue) \union {c}
      BY <2>1, <3>2, <3>3
    <3> QED
      BY <1>5, <2>1, <2>2, <3>2, <3>4
  <2>3. CASE pair \notin Streams
    <3>1. queue' = queue
      BY <1>2, <2>3
    <3> QED
      BY <1>1, <1>5, <2>1, <2>3, <3>1
  <2> QED
    BY <2>2, <2>3
<1>8. TypeOK'
  <2>1. pc' \in [Parties -> {"off", "accept", "type", "recv", "echo", "leave", "left"}]
    BY <1>1, <1>2 DEF TypeOK
  <2> QED
    BY <1>1, <1>2, <1>4, <1>7, <2>1 DEF TypeOK, users
<1>9. late' = late /\ late[c]["server"] = 0 /\ late[c]["client"] = 0
      /\ way[c]["server"] = <<>> /\ way[c]["client"] = <<>> /\ end[c]["server"] = "open"
  BY <1>1, <1>2, SideFacts DEF Talk, Fresh, users
<1>10. QueueInv'
  <2>1. \A r \in Parties : pc'[r] = "off" => pc[r] = "off"
    BY <1>2, <1>3
  <2>2. ASSUME NEW k \in 1 .. Len(queue')
        PROVE  pc'[queue'[k]] # "off" /\ queue'[k] # addr' /\ late'[queue'[k]]["server"] = 0
    <3>1. CASE k \in 1 .. Len(queue) /\ queue'[k] = queue[k]
      BY <1>1, <1>2, <1>5, <1>9, <2>1, <3>1 DEF QueueInv, Parties
    <3>2. CASE queue'[k] = c
      BY <1>1, <1>2, <1>3, <1>9, <3>2
    <3> QED
      BY <1>7, <3>1, <3>2
  <2>3. ASSUME NEW k \in 1 .. Len(queue'), NEW l \in 1 .. Len(queue'), k # l
        PROVE  queue'[k] # queue'[l]
    BY <1>1, <1>5, <1>7, <2>3 DEF QueueInv
  <2>4. queue' # <<>> => pair \in Streams /\ pc'[Server] # "left"
    BY <1>1, <1>2, <1>4, <1>6
  <2>5. addr' \in Clients => pc'[addr'] # "off"
    BY <1>1, <1>2, <2>1 DEF QueueInv, Parties
  <2> QED
    BY <1>1, <1>2, <1>4, <2>2, <2>3, <2>4, <2>5 DEF QueueInv
<1>11. ASSUME NEW d \in Clients, d # c PROVE Talk(d)'
  <2>1. pc'[d] = pc[d]
    BY <1>3, <1>11 DEF Parties
  <2>2. d \in Range(queue') <=> d \in Range(queue)
    BY <1>7, <1>11
  <2>3. /\ HasTurn(d, "server")' <=> HasTurn(d, "server")
        /\ GoneFor(d, "server") => GoneFor(d, "server")'
        /\ Done(d, "server") => Done(d, "server")'
        /\ Alive(d)' => Alive(d)
    BY <1>2, <1>4, <2>1, <2>2 DEF HasTurn, GoneFor, Done, Alive, Range
  <2>4. Cause(d) => Cause(d)'
    BY <1>2 DEF Cause, users
  <2>5. turns[Server] <= turns[Server]
    <3>1. turns[Server] \in Nat
      BY <1>1, TurnsAssumption DEF TypeOK, Parties
    <3> QED
      BY <3>1
  <2>6. Same(d)
    BY <1>2, <1>4, <2>1, <2>3, <2>4, <2>5 DEF Same, users
  <2> QED
    BY <1>1, <1>8, <2>6, SameTalk DEF Inv, TypeOK
<1>12. Talk(c)'
  <2>1. pc'[c] \in {"type", "recv"}
    BY <1>2, <1>3
  <2>2. Fresh(c)'
    BY <2>1 DEF Fresh
  <2>3. Ending(c)'
    <3>1. pair \in Streams => end[c]["client"] = "open"
      BY <1>1, SideFacts DEF Talk, Ending, GoneFor
    <3>2. pair \notin Streams => end[c]["client"] = "open"
      BY <1>1, SideFacts DEF Talk, Ending
    <3> QED
      BY <1>1, <1>2, <1>4, <1>9, <2>1, <3>1, <3>2, SideFacts DEF Ending, Party
  <2>4. Late(c)'
    <3>1. \A s \in Sides : late[c][s] <= turns[Party(c, s)] /\ turns' = turns /\ Party(c, s)' = Party(c, s)
      BY <1>1, <1>2 DEF Talk, Late, users, Party
    <3> QED
      BY <1>9, <3>1, SideFacts DEF Late
  <2>5. /\ HasTurn(c, "client")' <=> Program(c).first = "type"
        /\ HasTurn(c, "server")' <=> pair \in Streams /\ Program(Server).first = "type"
    BY <1>1, <1>2, <1>3, <1>7 DEF HasTurn, Range
  <2>6. Agreed => (HasTurn(c, "client")' <=> ~HasTurn(c, "server")')
    <3>1. CASE pair \in Streams
      <4>1. Agreed => (Program(Server).first = "type" <=> Program(c).first = "recv")
        BY <1>1, <3>1, OneBegins DEF TypeOK
      <4> QED
        BY <1>2, <2>5, <3>1, <4>1
    <3>2. CASE pair \notin Streams
      BY <1>1, <2>5, <3>2, ProgramFacts
    <3> QED
      BY <3>1, <3>2
  <2>7. Agreed => OneSpeaks(c)'
    <3>1. Len(<<>>) = 0
      OBVIOUS
    <3> QED
      BY <1>2, <1>9, <2>6, <3>1, SideFacts DEF OneSpeaks
  <2>8. Agreed => Moving(c)'
    BY <2>6 DEF Moving
  <2>9. Mute(c)'
    BY <1>1, <1>2, <1>9, <2>5, NoneBegins, SideFacts, ZenonT(30) DEF Talk, Mute, TypeOK
  <2> QED
    BY <1>2, <2>2, <2>3, <2>4, <2>7, <2>8, <2>9 DEF Talk
<1> QED
  BY <1>8, <1>10, <1>11, <1>12 DEF Inv

-----------------------------------------------------------------------------
(* The invariant *)

\* The invariant holds initially.
LEMMA InitInv == Init => Inv
<1> SUFFICES ASSUME Init PROVE Inv
  OBVIOUS
<1>1. pc \in [Parties -> {"off", "accept", "type", "recv", "echo", "leave", "left"}]
      /\ (pc[Server] \in {"accept", "recv"}) /\ (pair \in Streams => pc[Server] = "accept")
      /\ \A c \in Clients : pc[c] = "off"
  BY SideFacts DEF Init, Parties
<1>2. queue = <<>> /\ addr = Nobody /\ Nobody \notin Clients /\ Len(queue) = 0 /\ Range(queue) = {}
      /\ queue \in Seq(Clients)
  BY SideFacts DEF Init, Range
<1>3. pair \in Streams \union Datagrams /\ serverFirst \in [Sides -> BOOLEAN]
  BY DEF Init, Sides
<1>4. /\ way = [c \in Clients |-> [s \in Sides |-> <<>>]] /\ way \in [Clients -> [Sides -> Seq(Messages)]]
      /\ end = [c \in Clients |-> [s \in Sides |-> "open"]]
      /\ late = [c \in Clients |-> [s \in Sides |-> 0]] /\ turns = [p \in Parties |-> 0]
  BY DEF Init
<1>5. 0 \in 0 .. MaxTurns
  BY TurnsAssumption
<1>6. TypeOK
  BY <1>1, <1>2, <1>3, <1>4, <1>5 DEF Init, TypeOK, Messages
<1>7. QueueInv
  BY <1>1, <1>2 DEF QueueInv
<1>8. ASSUME NEW c \in Clients PROVE Talk(c)
  <2>1. \A s \in Sides : way[c][s] = <<>> /\ end[c][s] = "open" /\ late[c][s] = 0 /\ turns[Party(c, s)] = 0
    BY <1>4, SideFacts DEF Parties
  <2>2. ~HasTurn(c, "client") /\ ~HasTurn(c, "server") /\ ~Alive(c)
    BY <1>1, <1>2 DEF HasTurn, Alive
  <2>3. Fresh(c) /\ Late(c) /\ OneSpeaks(c) /\ Moving(c)
    <3>1. Len(<<>>) = 0 /\ 0 <= 0
      OBVIOUS
    <3> QED
      BY <2>1, <2>2, <3>1, SideFacts DEF Fresh, Late, OneSpeaks, Moving
  <2>4. Ending(c)
    BY <1>1, <2>1, SideFacts DEF Ending
  <2>5. Mute(c)
    <3>1. ~Agreed => pair = "First"
      <4>1. pair # "First" => serverFirst \in [Sides -> {FALSE}]
        BY DEF Init
      <4> QED
        BY <4>1, SideFacts, ZenonT(30) DEF Agreed
    <3> QED
      BY <2>1, <2>2, <3>1, SideFacts DEF Mute
  <2> QED
    BY <2>3, <2>4, <2>5 DEF Talk
<1> QED
  BY <1>6, <1>7, <1>8 DEF Inv

\* Every action of a party keeps the invariant.
LEMMA PartyStep ==
  ASSUME Inv, NEW p \in Parties,
         \/ TypesText(p) \/ TypesBye(p) \/ TypesBlank(p) \/ InputEnds(p) \/ TypesNothing(p)
         \/ SendFails(p) \/ ReceivesText(p) \/ ReceivesDatagram(p) \/ ReceivesEnd(p)
         \/ Leave(p) \/ Interrupted(p)
  PROVE  Inv'
<1>1. CASE TypesText(p)
  BY <1>1, TextSpoken, SpokeInv
<1>2. CASE TypesBye(p)
  BY <1>2, ByeSpoken, SpokeInv
<1>3. CASE TypesBlank(p)
  BY <1>3, BlankSpoken, SpokeInv
<1>4. CASE InputEnds(p)
  BY <1>4, InputEnded
<1>5. CASE TypesNothing(p)
  BY <1>5, NothingSpoken, SpokeInv
<1>6. CASE SendFails(p)
  BY <1>6, FailureSpoken, SpokeInv
<1>7. CASE ReceivesText(p)
  BY <1>7, TextHeard, HeardInv
<1>8. CASE ReceivesDatagram(p)
  BY <1>8, DatagramHeard, HeardInv
<1>9. CASE ReceivesEnd(p)
  BY <1>9, EndHeard, EndInv
<1>10. CASE Leave(p) \/ Interrupted(p)
  <2>1. Ends(p) /\ pc[p] \notin {"off", "left"}
    BY <1>10 DEF Leave, Interrupted
  <2> QED
    BY <2>1, ClientEnds, ServerEnds DEF Parties
<1> QED
  BY <1>1, <1>2, <1>3, <1>4, <1>5, <1>6, <1>7, <1>8, <1>9, <1>10

\* Every step keeps the invariant.
LEMMA NextInv ==
  ASSUME Inv, [Next]_vars
  PROVE  Inv'
<1>1. CASE Accept
  BY <1>1, Accepted
<1>2. CASE Echo
  BY <1>2, EchoSpoken, SpokeInv
<1>3. CASE HangUp
  BY <1>3, ServerHangsUp
<1>4. ASSUME NEW c \in Clients, Connect(c) PROVE Inv'
  BY <1>4, Connected
<1>5. ASSUME NEW p \in Parties,
             \/ TypesText(p) \/ TypesBye(p) \/ TypesBlank(p) \/ InputEnds(p) \/ TypesNothing(p)
             \/ SendFails(p) \/ ReceivesText(p) \/ ReceivesDatagram(p) \/ ReceivesEnd(p)
             \/ Leave(p) \/ Interrupted(p)
      PROVE  Inv'
  BY <1>5, PartyStep
<1>6. CASE UNCHANGED vars
  <2>1. UNCHANGED <<pair, serverFirst, pc, addr, queue, way, end, input, turns, late, skipped, buffer, lost>>
    BY <1>6 DEF vars, users
  <2>2. TypeOK'
    BY <2>1 DEF Inv, TypeOK
  <2>3. QueueInv'
    BY <2>1 DEF Inv, QueueInv
  <2>4. ASSUME NEW d \in Clients PROVE Same(d)
    <3>1. Program(Server)' = Program(Server)
      BY <2>1, ProgramSame
    <3>2. turns[Server] <= turns[Server]
      <4>1. turns[Server] \in Nat
        BY TurnsAssumption DEF Inv, TypeOK, Parties
      <4> QED
        BY <4>1
    <3>3. /\ HasTurn(d, "server")' <=> HasTurn(d, "server")
          /\ GoneFor(d, "server") => GoneFor(d, "server")'
          /\ Done(d, "server") => Done(d, "server")'
          /\ Alive(d)' => Alive(d)
          /\ Cause(d) => Cause(d)'
      BY <2>1, <3>1 DEF HasTurn, GoneFor, Done, Alive, Cause, Range
    <3> QED
      BY <2>1, <3>2, <3>3 DEF Same
  <2> QED
    BY <2>2, <2>3, <2>4, AllSame
<1> QED
  BY <1>1, <1>2, <1>3, <1>4, <1>5, <1>6 DEF Next

-----------------------------------------------------------------------------
(* Theorems *)

\* The inductive invariant holds in every reachable state.
THEOREM InvHolds == Spec => []Inv
<1>1. Inv /\ [Next]_vars => Inv'
  BY NextInv
<1> QED
  BY InitInv, <1>1, PTL DEF Spec

\* Every variable keeps its type: a server that types or sends has a client it talks to.
THEOREM TypeCorrect == Spec => []TypeOK
<1>1. Inv => TypeOK
  BY DEF Inv
<1> QED
  BY InvHolds, <1>1, PTL

\* Between sides that agree who begins there is one text at most, so that recv() of a
\* stream never merges two.
THEOREM OneTextInFlight == Spec => []OneInFlight
<1>1. Inv => OneInFlight
  <2> SUFFICES ASSUME Inv, Agreed, NEW c \in Clients
               PROVE  Len(way[c]["server"]) + Len(way[c]["client"]) <= 1
    BY DEF OneInFlight
  <2>1. OneSpeaks(c) /\ way[c]["server"] \in Seq(Messages) /\ way[c]["client"] \in Seq(Messages)
    BY SideFacts DEF Inv, Talk, TypeOK
  <2>2. /\ Len(way[c]["server"]) <= 1 /\ Len(way[c]["client"]) <= 1
        /\ Len(way[c]["server"]) = 0 \/ Len(way[c]["client"]) = 0
    BY <2>1, SideFacts DEF OneSpeaks
  <2>3. Len(way[c]["server"]) \in Nat /\ Len(way[c]["client"]) \in Nat
    BY <2>1
  <2>4. \A m, n \in Nat : m <= 1 /\ n <= 1 /\ (m = 0 \/ n = 0) => m + n <= 1
    OBVIOUS
  <2> QED
    BY <2>2, <2>3, <2>4
<1> QED
  BY InvHolds, <1>1, PTL

\* Two sides that wait for each other do so for one of the causes listed.
THEOREM WaitingHasCause == Spec => []StuckHasCause
<1>1. Inv => StuckHasCause
  <2> SUFFICES ASSUME Inv, NEW c \in Clients, pc[Server] = "recv", pc[c] = "recv",
                      way[c]["server"] = <<>>, way[c]["client"] = <<>>, Agreed,
                      pair \in Streams => addr = c /\ end[c]["server"] = "open" /\ end[c]["client"] = "open"
               PROVE  Cause(c)
    BY DEF StuckHasCause, Cause
  <2>1. pair \in Streams => c \notin Range(queue)
    BY DEF Inv, QueueInv, Range, TypeOK
  <2>2. pair \notin Streams => c \notin Range(queue)
    BY DEF Inv, QueueInv, Range
  <2>3. Alive(c) /\ ~HasTurn(c, "client") /\ ~HasTurn(c, "server")
    BY <2>1, <2>2, SideFacts DEF Alive, HasTurn
  <2> QED
    BY <2>3 DEF Inv, Talk, Moving
<1> QED
  BY InvHolds, <1>1, PTL

\* Whoever types for a party that has left does so once, or twice with Socket and where the
\* sides do not agree who begins.
THEOREM LateLinesAreFew == Spec => []LateLinesBounded
<1>1. Inv => LateLinesBounded
  <2> SUFFICES ASSUME Inv, NEW c \in Clients, NEW s \in Sides
               PROVE  late[c][s] <= IF pair = "Socket" \/ ~Agreed THEN 2 ELSE 1
    BY DEF LateLinesBounded
  <2>1. late[c][s] \in Nat /\ Late(c)
    BY TurnsAssumption DEF Inv, Talk, TypeOK
  <2> QED
    BY <2>1 DEF Late, Twice
<1> QED
  BY InvHolds, <1>1, PTL

-----------------------------------------------------------------------------
(* The pairs with one connection *)

CONSTANTS MaxUnits, Cap, RecvMax, Killable
VARIABLES program, status, spc, rpc, running, eof, item, left, size, peer, wire, written, got

Pair == INSTANCE StreamPair

\* What is known of the parameters.
PairParameters == Pair!PairAssumption

\* A connection's end is as it was until the other side is over; who has ended had
\* nothing more to do.
PeersGone == \A s \in Pair!Sides : peer[s] # "here" => Pair!Over(Pair!Other(s))
Stopped == \A s \in Pair!Sides : status[s] = "ended" => spc[s] = "done" /\ rpc[s] # "recv"

\* Between two sends the buffer is empty, and who does not send has nothing to.
Buffers ==
    \A s \in Pair!Sides :
      /\ spc[s] # "send" => item[s] = <<>>
      /\ spc[s] = "fgets" => program \in Pair!Interactive
      /\ program \notin Pair!Interactive =>
           (spc[s] = "done" \/ item[s] = <<"quit">> \/ ~Pair!Sends(s) => left[s] = 0)
      /\ rpc[s] = "misled" => program = "lines"
      /\ ~Pair!Receives(s) => rpc[s] = "done"
OneWay ==
    \A s \in Pair!Sides : ~Pair!Sends(s) /\ (program # "answer" \/ rpc[s] = "recv") =>
      spc[s] = "done" /\ wire[s] = <<>>

\* Where the number of units is fixed: what a side received, what is on its way and
\* what the other still has to send add up to it.
Counted == {"file", "message", "answer"}
Amount == IF program = "file" THEN size ELSE 1
Answer(o) == IF program = "answer" /\ o = "server" /\ rpc[o] = "recv" THEN 1 ELSE 0
Conserved ==
    \A s \in Pair!Sides :
      program \in Counted /\ Pair!Receives(s) /\ ~Pair!Over(s) /\ status[Pair!Other(s)] # "died"
        => LET o == Pair!Other(s)
           IN  got[s] + Len(wire[o]) + (Len(item[o]) + left[o] + Answer(o)) = Amount

\* No line is lost, and the one that ends the input is the last.
LinesKept ==
    program = "lines" =>
      /\ ~Pair!Over("server") => written["client"] = got["server"] + Len(wire["client"])
      /\ \A i \in 1 .. Len(item["client"]) :
           item["client"][i] = "quit" => item["client"] = <<"quit">>
      /\ \A i \in 1 .. Len(wire["client"]) : wire["client"][i] = "quit" =>
           i = Len(wire["client"]) /\ spc["client"] = "done"

\* Who has stopped receiving has everything, as far as it can tell.
Received(s) ==
    LET o == Pair!Other(s)
    IN  /\ program = "framed" => got[s] = Pair!Whole
        /\ program \in Counted /\ status[o] # "died" => got[s] = Amount
        /\ program = "lines" /\ status[o] # "died" =>
             rpc[s] = "misled" \/ (spc[o] = "done" /\ got[s] = written[o])
Taken == \A s \in Pair!Sides : Pair!Receives(s) /\ rpc[s] # "recv" => Received(s)

PairInv ==
    /\ Pair!TypeOK /\ PeersGone /\ Stopped /\ Buffers /\ OneWay
    /\ Conserved /\ LinesKept /\ Taken

-----------------------------------------------------------------------------
\* There are two sides.
LEMMA OtherSide ==
  ASSUME NEW s \in Pair!Sides
  PROVE  /\ Pair!Other(s) \in Pair!Sides /\ Pair!Other(s) # s
         /\ Pair!Other(Pair!Other(s)) = s
         /\ \A r \in Pair!Sides : r = s \/ r = Pair!Other(s)
         /\ s = "server" => Pair!Other(s) = "client"
         /\ s = "client" => Pair!Other(s) = "server"
BY DEF Pair!Sides, Pair!Other

\* Where only one side sends, and which.
LEMMA Directions ==
  ASSUME NEW s \in Pair!Sides
  PROVE  /\ program \in {"file", "message", "lines"} /\ Pair!Receives(s) => ~Pair!Sends(s)
         /\ program = "lines" => (s = "client" <=> Pair!Sends(s))
         /\ program = "answer" => (s = "client" <=> Pair!Sends(s)) /\ Pair!Receives(s)
         /\ program \in Counted => program \notin Pair!Interactive
BY DEF Pair!Sides, Pair!Sends, Pair!Receives, Pair!Interactive, Counted

\* The types of a side's part.
LEMMA PairTypes ==
  ASSUME Pair!TypeOK, NEW s \in Pair!Sides
  PROVE  /\ status[s] \in {"accept", "running", "ended", "died"}
         /\ spc[s] \in {"loop", "fgets", "send", "done"}
         /\ rpc[s] \in {"recv", "done", "misled"}
         /\ item[s] \in Seq(Pair!Kinds) /\ Len(item[s]) \in Nat
         /\ wire[s] \in Seq(Pair!Kinds) /\ Len(wire[s]) \in Nat
         /\ left[s] \in Int /\ left[s] >= 0
         /\ got[s] \in Nat /\ written[s] \in Nat /\ Answer(s) \in {0, 1}
         /\ size \in Int
<1>1. item[s] \in Seq(Pair!Kinds) /\ wire[s] \in Seq(Pair!Kinds)
  BY DEF Pair!TypeOK
<1>2. Len(item[s]) \in Nat /\ Len(wire[s]) \in Nat
  BY <1>1, LenProperties
<1>3. left[s] \in 0 .. MaxUnits + 3 /\ size \in 0 .. MaxUnits + 1
  BY DEF Pair!TypeOK, Pair!Header
<1>4. left[s] \in Int /\ left[s] >= 0 /\ size \in Int
  BY <1>3
<1> QED
  BY <1>1, <1>2, <1>4 DEF Pair!TypeOK, Answer

\* The first units of a stream, and the others.
LEMMA Cut ==
  ASSUME NEW S, NEW w \in Seq(S), NEW n \in 0 .. Len(w)
  PROVE  /\ SubSeq(w, 1, n) \in Seq(S) /\ Len(SubSeq(w, 1, n)) = n
         /\ \A i \in 1 .. n : SubSeq(w, 1, n)[i] = w[i]
         /\ SubSeq(w, n + 1, Len(w)) \in Seq(S) /\ Len(SubSeq(w, n + 1, Len(w))) = Len(w) - n
         /\ \A i \in 1 .. Len(w) - n : SubSeq(w, n + 1, Len(w))[i] = w[n + i]
<1>1. Len(w) \in Nat
  BY LenProperties
<1>2. \A i \in 1 .. n : w[i] \in S
  BY <1>1, ElementOfSeq
<1>3. \A i \in n + 1 .. Len(w) : w[i] \in S
  BY <1>1, ElementOfSeq
<1>4. SubSeq(w, 1, n) \in Seq(S) /\ Len(SubSeq(w, 1, n)) = n
      /\ \A i \in 1 .. n : SubSeq(w, 1, n)[i] = w[i]
  BY <1>1, <1>2, SubSeqProperties
<1>5. SubSeq(w, n + 1, Len(w)) \in Seq(S) /\ Len(SubSeq(w, n + 1, Len(w))) = Len(w) - n
      /\ \A i \in 1 .. Len(w) - n : SubSeq(w, n + 1, Len(w))[i] = w[n + i]
  BY <1>1, <1>3, SubSeqProperties
<1> QED
  BY <1>4, <1>5

\* The processes start, with whatever they have to send.
LEMMA PairInit ==
  ASSUME PairParameters, Pair!Init PROVE PairInv
<1>1. MaxUnits \in Nat
  BY DEF PairParameters, Pair!PairAssumption
<1>2. PICK n \in 0 .. MaxUnits :
        /\ size \in IF program = "framed" THEN Pair!SizesGiven(n) ELSE {n}
        /\ left = [s \in Pair!Sides |->
             IF ~Pair!Sends(s) THEN 0
             ELSE CASE program = "framed" -> 3 + n
                    [] program \in {"message", "answer"} -> 1
                    [] OTHER -> n]
  BY DEF Pair!Init, Pair!Header
<1>3. size \in 0 .. MaxUnits + 1
  BY <1>1, <1>2 DEF Pair!SizesGiven
<1>4. \A s \in Pair!Sides : left[s] \in 0 .. MaxUnits + 3
  BY <1>1, <1>2
<1>5. left \in [Pair!Sides -> 0 .. MaxUnits + 3]
  BY <1>2, <1>4
<1>6. Pair!TypeOK
  BY <1>3, <1>5 DEF Pair!Init, Pair!TypeOK, Pair!Header
<1>7. PeersGone /\ Stopped /\ OneWay /\ LinesKept
  BY DEF Pair!Init, PeersGone, Stopped, OneWay, LinesKept, Pair!Sides
<1>8. Buffers
  <2> SUFFICES ASSUME NEW s \in Pair!Sides
               PROVE  /\ spc[s] \in {"loop", "done"} /\ item[s] = <<>>
                      /\ item[s] # <<"quit">>
                      /\ spc[s] = "done" \/ ~Pair!Sends(s) => left[s] = 0
                      /\ rpc[s] = IF Pair!Receives(s) THEN "recv" ELSE "done"
    BY DEF Buffers
  <2>1. spc[s] = (IF Pair!Sends(s) THEN "loop" ELSE "done") /\ item[s] = <<>>
        /\ rpc[s] = IF Pair!Receives(s) THEN "recv" ELSE "done"
    BY DEF Pair!Init
  <2>2. ~Pair!Sends(s) => left[s] = 0
    BY <1>2
  <2> QED
    BY <2>1, <2>2
<1>9. Conserved
  <2> SUFFICES ASSUME NEW s \in Pair!Sides, program \in Counted, Pair!Receives(s)
               PROVE  got[s] + Len(wire[Pair!Other(s)]) +
                        (Len(item[Pair!Other(s)]) + left[Pair!Other(s)] + Answer(Pair!Other(s))) = Amount
    BY DEF Conserved
  <2>1. got[s] = 0 /\ Len(wire[Pair!Other(s)]) = 0 /\ Len(item[Pair!Other(s)]) = 0
    BY OtherSide DEF Pair!Init
  <2>2. left[Pair!Other(s)] + Answer(Pair!Other(s)) = Amount
    <3>1. CASE program = "file"
      BY <1>2, <3>1, OtherSide DEF Pair!Receives, Pair!Sends, Answer, Amount, Pair!Sides
    <3>2. CASE program = "message"
      BY <1>2, <3>2, OtherSide DEF Pair!Receives, Pair!Sends, Answer, Amount, Pair!Sides
    <3>3. CASE program = "answer"
      <4>1. CASE s = "server"
        BY <1>2, <3>3, <4>1, OtherSide DEF Pair!Sends, Answer, Amount, Pair!Sides
      <4>2. CASE s = "client"
        <5>1. rpc["server"] = "recv"
          BY <3>3 DEF Pair!Init, Pair!Receives, Pair!Sides
        <5>2. ~Pair!Sends("server") /\ Pair!Other(s) = "server" /\ Pair!Other(s) \in Pair!Sides
          BY <3>3, <4>2, OtherSide DEF Pair!Sends
        <5>3. left["server"] = 0
          BY <1>2, <5>2
        <5> QED
          BY <3>3, <5>1, <5>2, <5>3 DEF Answer, Amount
      <4> QED
        BY <4>1, <4>2 DEF Pair!Sides
    <3> QED
      BY <3>1, <3>2, <3>3 DEF Counted
  <2>3. left[Pair!Other(s)] \in Int /\ Answer(Pair!Other(s)) \in Int
    BY <1>4, OtherSide DEF Answer
  <2> QED
    BY <2>1, <2>2, <2>3
<1>10. Taken
  BY DEF Pair!Init, Taken
<1> QED
  BY <1>6, <1>7, <1>8, <1>9, <1>10 DEF PairInv

\* A process that is over leaves: if it ended, it had received what it waits for, and
\* nothing it has sent is lost by a reset.
LEMMA LeaveInv ==
  ASSUME PairInv, NEW s \in Pair!Sides, NEW how \in {"ended", "died"},
         ~Pair!Over(s), Pair!Leave(s, how),
         UNCHANGED <<program, Pair!threadVars, Pair!inputVars, size, written, got>>,
         how = "ended" => spc[s] = "done" /\ rpc[s] # "recv"
  PROVE  PairInv'
<1> USE DEF PairInv
<1> DEFINE o == Pair!Other(s)
<1>0. UNCHANGED <<program, spc, rpc, running, eof, item, left, size, written, got>>
  BY DEF Pair!threadVars, Pair!inputVars
<1>1. o \in Pair!Sides /\ o # s /\ Pair!Other(o) = s /\ (\A r \in Pair!Sides : r = s \/ r = o)
  BY OtherSide
<1>2. /\ status' = [status EXCEPT ![s] = how]
      /\ peer' = [peer EXCEPT ![o] = IF wire[o] = <<>> THEN "closed" ELSE "reset"]
  BY DEF Pair!Leave
<1>3. PICK n \in 0 .. Len(wire[s]) :
        /\ wire[o] = <<>> => n = Len(wire[s])
        /\ wire' = [wire EXCEPT ![s] = SubSeq(wire[s], 1, n), ![o] = <<>>]
  BY DEF Pair!Leave
<1>4. /\ wire[s] \in Seq(Pair!Kinds) /\ Len(wire[s]) \in Nat
      /\ wire[o] \in Seq(Pair!Kinds) /\ Len(wire[o]) \in Nat
  BY <1>1, PairTypes
<1>5. /\ SubSeq(wire[s], 1, n) \in Seq(Pair!Kinds) /\ Len(SubSeq(wire[s], 1, n)) = n
      /\ \A i \in 1 .. n : SubSeq(wire[s], 1, n)[i] = wire[s][i]
  BY <1>4, Cut
<1>6. /\ wire' \in [Pair!Sides -> Seq(Pair!Kinds)]
      /\ Len(wire'[s]) = n /\ wire'[o] = <<>>
      /\ \A i \in 1 .. n : wire'[s][i] = wire[s][i]
  <2> HIDE DEF o
  <2>1. wire \in [Pair!Sides -> Seq(Pair!Kinds)]
    BY DEF Pair!TypeOK
  <2> DEFINE w == SubSeq(wire[s], 1, n)
  <2>2. w \in Seq(Pair!Kinds) /\ Len(w) = n /\ \A i \in 1 .. n : w[i] = wire[s][i]
    BY <1>5
  <2>3. wire' = [wire EXCEPT ![s] = w, ![o] = <<>>]
    BY <1>3
  <2> HIDE DEF w
  <2>4. wire'[s] = w /\ wire'[o] = <<>> /\ wire' \in [Pair!Sides -> Seq(Pair!Kinds)]
    BY <1>1, <2>1, <2>2, <2>3
  <2> QED
    BY <2>2, <2>4
<1>7. /\ status' \in [Pair!Sides -> {"accept", "running", "ended", "died"}]
      /\ status'[s] = how /\ status'[o] = status[o]
      /\ peer'[s] = peer[s] /\ peer' \in [Pair!Sides -> {"here", "closed", "reset", "broken"}]
  <2> HIDE DEF o
  <2> QED
    BY <1>1, <1>2 DEF Pair!TypeOK
<1>8. status[s] \notin {"ended", "died"}
  BY DEF Pair!Over
<1> HIDE DEF o
<1>9. Pair!TypeOK'
  BY <1>0, <1>6, <1>7 DEF Pair!TypeOK
<1>10. PeersGone'
  BY <1>1, <1>7, <1>8 DEF PeersGone, Pair!Over, Pair!Other, Pair!Sides, o
<1>11. Stopped'
  BY <1>0, <1>1, <1>7 DEF Stopped
<1>12. Buffers'
  BY <1>0 DEF Buffers, Pair!Sends, Pair!Receives, Pair!Interactive
<1>13. wire[s] = <<>> => wire'[s] = <<>>
  BY <1>3, <1>4, <1>6, EmptySeq
<1>14. OneWay'
  <2> SUFFICES ASSUME NEW r \in Pair!Sides, ~Pair!Sends(r), program # "answer" \/ rpc[r] = "recv"
               PROVE  spc[r] = "done" /\ wire'[r] = <<>>
    BY <1>0 DEF OneWay, Pair!Sends
  <2> QED
    BY <1>1, <1>6, <1>13 DEF OneWay
<1>15. Conserved'
  <2> SUFFICES ASSUME program \in Counted, Pair!Receives(o), ~Pair!Over(o), how = "ended"
               PROVE  got[o] + Len(wire'[s]) + (Len(item[s]) + left[s] + Answer(s)) = Amount
    <3>1. \A r \in Pair!Sides : ~Pair!Over(r)' => r = o
      BY <1>1, <1>7 DEF Pair!Over
    <3> QED
      BY <1>0, <1>1, <1>7, <3>1 DEF Conserved, Counted, Pair!Receives, Pair!Sends, Pair!Over, Answer,
           Amount, Pair!Other, o
  <2>1. got[o] + Len(wire[s]) + (Len(item[s]) + left[s] + Answer(s)) = Amount
    BY <1>1, <1>8 DEF Conserved
  <2>2. wire[o] = <<>>
    <3>1. CASE program \in {"file", "message"}
      BY <1>1, <3>1, Directions DEF OneWay
    <3>2. CASE program = "answer"
      <4>1. Pair!Receives(s) /\ status[o] # "died" /\ rpc[s] # "recv"
        BY <3>2 DEF Pair!Receives, Pair!Over
      <4>2. got[s] = Amount
        BY <4>1 DEF Taken, Received, o
      <4>3. got[s] + Len(wire[o]) + (Len(item[o]) + left[o] + Answer(o)) = Amount
        BY <4>1 DEF Conserved, o
      <4>4. /\ Len(item[o]) \in Nat /\ left[o] \in Int /\ left[o] >= 0
            /\ Answer(o) \in {0, 1} /\ got[s] \in Nat
        BY <1>1, PairTypes
      <4>5. Len(wire[o]) = 0
        BY <1>4, <4>2, <4>3, <4>4
      <4> QED
        BY <1>4, <4>5, EmptySeq
    <3> QED
      BY <3>1, <3>2 DEF Counted
  <2> QED
    BY <1>3, <1>6, <2>1, <2>2
<1>16. LinesKept'
  <2> SUFFICES ASSUME program = "lines"
               PROVE  /\ status'["server"] \notin {"ended", "died"} =>
                           written["client"] = got["server"] + Len(wire'["client"])
                      /\ \A i \in 1 .. Len(item["client"]) :
                           item["client"][i] = "quit" => item["client"] = <<"quit">>
                      /\ \A i \in 1 .. Len(wire'["client"]) : wire'["client"][i] = "quit" =>
                           i = Len(wire'["client"]) /\ spc["client"] = "done"
    BY <1>0 DEF LinesKept, Pair!Over
  <2>1. CASE s = "server"
    <3>1. o = "client" /\ Len(wire'["client"]) = 0
      BY <1>6, <2>1, OtherSide DEF o
    <3> QED
      BY <1>7, <2>1, <3>1 DEF LinesKept
  <2>2. CASE s = "client"
    <3>1. o = "server"
      BY <2>2, OtherSide DEF o
    <3>2. wire[o] = <<>>
      BY <1>1, <3>1, Directions DEF OneWay
    <3>3. n = Len(wire[s])
      BY <1>3, <3>2
    <3> QED
      BY <1>6, <1>7, <2>2, <3>1, <3>3 DEF LinesKept, Pair!Over
  <2> QED
    BY <2>1, <2>2 DEF Pair!Sides
<1>17. Taken'
  <2>1. \A r \in Pair!Sides : status'[r] # "died" => status[r] # "died"
    BY <1>1, <1>7, <1>8
  <2> SUFFICES ASSUME NEW r \in Pair!Sides, Pair!Receives(r), rpc[r] # "recv"
               PROVE  Received(r)'
    BY <1>0 DEF Taken, Pair!Receives, Pair!Sends
  <2>2. Received(r) /\ Pair!Other(r) \in Pair!Sides
    BY OtherSide DEF Taken
  <2> QED
    BY <1>0, <2>1, <2>2 DEF Received, Amount, Pair!Whole, Pair!Header, Pair!Other, Counted
<1> QED
  BY <1>9, <1>10, <1>11, <1>12, <1>14, <1>15, <1>16, <1>17

\* The sending loop reads on, or its user ends the input: what was to be sent is now
\* in the buffer, or there is nothing more.
LEMMA ReadInv ==
  ASSUME PairParameters, PairInv, NEW s \in Pair!Sides,
         \/ Pair!Loops(s) \/ Pair!Types(s) \/ Pair!EndsInput(s)
         \/ Pair!ReadsEnd(s) \/ Pair!ReadsFile(s)
  PROVE  PairInv'
<1> USE DEF PairInv
<1>0. UNCHANGED <<program, status, rpc, running, size, peer, wire, written, got>>
  BY DEF Pair!Loops, Pair!Types, Pair!EndsInput, Pair!ReadsEnd, Pair!ReadsFile, Pair!netVars,
       Pair!threadVars, Pair!inputVars
<1>1. /\ spc \in [Pair!Sides -> {"loop", "fgets", "send", "done"}]
      /\ item \in [Pair!Sides -> Seq(Pair!Kinds)] /\ left \in [Pair!Sides -> 0 .. MaxUnits + 3]
      /\ eof \in [Pair!Sides -> BOOLEAN]
  BY DEF Pair!TypeOK, Pair!Header
<1>2. (spc[s] # "send" => item[s] = <<>>) /\ MaxUnits \in Nat
  BY DEF Buffers, PairParameters, Pair!PairAssumption
<1> DEFINE Reads(k, us, m) ==
             /\ spc' = [spc EXCEPT ![s] = k] /\ item' = [item EXCEPT ![s] = us]
             /\ left' = [left EXCEPT ![s] = m] /\ eof' \in [Pair!Sides -> BOOLEAN]
             /\ k # "send" => us = <<>>
             /\ k = "fgets" => program \in Pair!Interactive
             /\ program \notin Pair!Interactive =>
                  /\ k = "done" \/ us = <<"quit">> \/ ~Pair!Sends(s) => m = 0
                  /\ Len(us) + m = Len(item[s]) + left[s]
             /\ program = "lines" => \A i \in 1 .. Len(us) : us[i] = "quit" => us = <<"quit">>
             /\ spc[s] = "done" => k = "done"
<1>3. \E k \in {"loop", "fgets", "send", "done"}, us \in Seq(Pair!Kinds), m \in 0 .. MaxUnits + 3 :
        Reads(k, us, m)
  <2>0. /\ <<>> \in Seq(Pair!Kinds) /\ <<"text">> \in Seq(Pair!Kinds)
        /\ <<"quit">> \in Seq(Pair!Kinds) /\ <<"text", "tail">> \in Seq(Pair!Kinds)
        /\ Len(<<>>) = 0 /\ Len(<<"text">>) = 1 /\ <<"text">> # <<"quit">>
    BY DEF Pair!Kinds
  <2>1. CASE Pair!Loops(s)
    <3>1. item[s] = <<>> /\ spc[s] = "loop" /\ item' = [item EXCEPT ![s] = <<>>]
          /\ left' = [left EXCEPT ![s] = left[s]]
      BY <1>1, <1>2, <2>1 DEF Pair!Loops, Pair!inputVars
    <3>2. /\ spc' = [spc EXCEPT ![s] = IF running[s] THEN "fgets" ELSE "done"]
          /\ program \in Pair!Interactive /\ eof' = eof
      BY <2>1 DEF Pair!Loops, Pair!inputVars
    <3>3. left[s] \in 0 .. MaxUnits + 3
      BY <1>1
    <3> DEFINE k == IF running[s] THEN "fgets" ELSE "done"
    <3>4. Reads(k, <<>>, left[s])
      BY <1>1, <2>0, <3>1, <3>2
    <3> QED
      BY <2>0, <3>3, <3>4
  <2>2. CASE Pair!Types(s)
    <3>1. PICK us \in {<<"text">>} \union
                 IF program = "lines" THEN {<<"quit">>, <<"text", "tail">>} ELSE {} :
            item' = [item EXCEPT ![s] = us]
      BY <2>2 DEF Pair!Types
    <3>2. /\ spc[s] = "fgets" /\ spc' = [spc EXCEPT ![s] = "send"] /\ eof' = eof
          /\ left' = [left EXCEPT ![s] = IF program = "lines" THEN left[s] - 1 ELSE left[s]]
          /\ program = "lines" => left[s] > 0
      BY <2>2 DEF Pair!Types
    <3>3. program \in Pair!Interactive
      BY <3>2 DEF Buffers
    <3>4. left[s] \in 0 .. MaxUnits + 3
          /\ (IF program = "lines" THEN left[s] - 1 ELSE left[s]) \in 0 .. MaxUnits + 3
      <4>1. left[s] \in 0 .. MaxUnits + 3
        BY <1>1
      <4>2. program = "lines" => left[s] - 1 \in 0 .. MaxUnits + 3
        BY <1>2, <3>2, <4>1
      <4> QED
        BY <4>1, <4>2
    <3>5. \A i \in 1 .. Len(us) : us[i] = "quit" => us = <<"quit">>
      <4>1. CASE us = <<"text", "tail">>
        BY <4>1
      <4>2. CASE us = <<"text">>
        BY <4>2
      <4> QED
        BY <3>1, <4>1, <4>2
    <3>6. us \in Seq(Pair!Kinds)
      BY <2>0, <3>1
    <3> DEFINE m == IF program = "lines" THEN left[s] - 1 ELSE left[s]
    <3> HIDE DEF m
    <3>7. m \in 0 .. MaxUnits + 3 /\ left' = [left EXCEPT ![s] = m]
      BY <3>2, <3>4 DEF m
    <3> QED
      BY <1>1, <3>1, <3>2, <3>3, <3>5, <3>6, <3>7
  <2>3. CASE Pair!EndsInput(s)
    <3>1. program \in Pair!Interactive /\ UNCHANGED <<spc, item, left>>
          /\ eof' = [eof EXCEPT ![s] = TRUE]
      BY <2>3 DEF Pair!EndsInput, Pair!threadVars
    <3>2. /\ spc' = [spc EXCEPT ![s] = spc[s]] /\ item' = [item EXCEPT ![s] = item[s]]
          /\ left' = [left EXCEPT ![s] = left[s]] /\ eof' \in [Pair!Sides -> BOOLEAN]
      BY <1>1, <3>1
    <3>3. program = "lines" =>
            \A i \in 1 .. Len(item[s]) : item[s][i] = "quit" => item[s] = <<"quit">>
      <4>1. CASE s = "client"
        BY <4>1 DEF LinesKept
      <4>2. CASE s = "server" /\ program = "lines"
        <5>1. spc[s] = "done"
          BY <4>2, Directions DEF OneWay
        <5>2. Len(item[s]) = 0
          BY <1>2, <5>1
        <5> QED
          BY <5>2
      <4> QED
        BY <4>1, <4>2 DEF Pair!Sides
    <3>4. spc[s] \in {"loop", "fgets", "send", "done"} /\ item[s] \in Seq(Pair!Kinds)
          /\ left[s] \in 0 .. MaxUnits + 3
      BY <1>1
    <3>5. spc[s] = "fgets" => program \in Pair!Interactive
      BY DEF Buffers
    <3> QED
      BY <1>2, <3>1, <3>2, <3>3, <3>4, <3>5
  <2>4. CASE Pair!ReadsEnd(s)
    <3>1. spc[s] = "fgets" /\ UNCHANGED <<left, eof>> /\ item[s] = <<>>
      BY <1>2, <2>4 DEF Pair!ReadsEnd
    <3>2. program \in Pair!Interactive
      BY <3>1 DEF Buffers
    <3>3. left' = [left EXCEPT ![s] = left[s]] /\ left[s] \in 0 .. MaxUnits + 3
      BY <1>1, <3>1
    <3>4. CASE program = "chat"
      <4>1. PICK us \in {<<>>, <<"text">>} : item' = [item EXCEPT ![s] = us]
        BY <2>4, <3>4 DEF Pair!ReadsEnd
      <4>2. spc' = [spc EXCEPT ![s] = "send"]
        BY <2>4, <3>4 DEF Pair!ReadsEnd
      <4>3. us \in Seq(Pair!Kinds) /\ "send" # "done" /\ "send" # "fgets"
        BY <2>0, <4>1
      <4> QED
        BY <1>1, <3>1, <3>2, <3>3, <3>4, <4>1, <4>2, <4>3
    <3>5. CASE program # "chat"
      <4>1. spc' = [spc EXCEPT ![s] = "done"] /\ item' = [item EXCEPT ![s] = <<>>]
        BY <1>1, <2>4, <3>1, <3>5 DEF Pair!ReadsEnd
      <4> QED
        <5>1. Reads("done", <<>>, left[s])
          <6>1. eof' \in [Pair!Sides -> BOOLEAN] /\ left' = [left EXCEPT ![s] = left[s]]
            BY <1>1, <3>1, <3>3
          <6> QED
            BY <2>0, <3>2, <4>1, <6>1
        <5> QED
          BY <2>0, <3>3, <5>1
    <3> QED
      BY <3>4, <3>5
  <2>5. CASE Pair!ReadsFile(s)
    <3>1. spc[s] = "loop" /\ item[s] = <<>> /\ UNCHANGED eof /\ program \notin Pair!Interactive
          /\ left[s] \in 0 .. MaxUnits + 3 /\ Len(item[s]) = 0 /\ program # "lines"
      BY <1>1, <1>2, <2>5 DEF Pair!ReadsFile, Pair!Interactive
    <3>2. CASE left[s] > 0
      <4>1. /\ item' = [item EXCEPT ![s] = <<"text">>] /\ left' = [left EXCEPT ![s] = left[s] - 1]
            /\ spc' = [spc EXCEPT ![s] = "send"]
        BY <2>5, <3>2 DEF Pair!ReadsFile
      <4>2. left[s] - 1 \in 0 .. MaxUnits + 3 /\ Len(<<"text">>) + (left[s] - 1) = Len(item[s]) + left[s]
            /\ <<"text">> # <<"quit">>
        BY <1>2, <3>1, <3>2
      <4>3. Pair!Sends(s)
        BY <3>1, <3>2 DEF Buffers
      <4>4. Reads("send", <<"text">>, left[s] - 1)
        BY <1>1, <2>0, <3>1, <4>1, <4>2, <4>3
      <4> QED
        BY <2>0, <4>2, <4>4
    <3>3. CASE ~(left[s] > 0)
      <4>0. left[s] = 0
        BY <1>2, <3>1, <3>3
      <4>1. /\ item' = [item EXCEPT ![s] = <<>>] /\ left' = [left EXCEPT ![s] = 0]
            /\ spc' = [spc EXCEPT ![s] = "done"]
        BY <1>1, <2>5, <3>1, <3>3, <4>0 DEF Pair!ReadsFile
      <4> QED
        <5>1. Reads("done", <<>>, 0) /\ 0 \in 0 .. MaxUnits + 3
          BY <1>1, <1>2, <2>0, <3>1, <4>0, <4>1
        <5> QED
          BY <2>0, <5>1
    <3> QED
      BY <3>2, <3>3
  <2> QED
    BY <2>1, <2>2, <2>3, <2>4, <2>5
<1>4. PICK k \in {"loop", "fgets", "send", "done"}, us \in Seq(Pair!Kinds), m \in 0 .. MaxUnits + 3 :
        Reads(k, us, m)
  BY <1>3
<1>5. \A r \in Pair!Sides :
        IF r = s THEN spc'[r] = k /\ item'[r] = us /\ left'[r] = m
                 ELSE spc'[r] = spc[r] /\ item'[r] = item[r] /\ left'[r] = left[r]
  BY <1>1, <1>4
<1>6. Pair!TypeOK'
  BY <1>0, <1>1, <1>4 DEF Pair!TypeOK, Pair!Header
<1>7. PeersGone' /\ Stopped'
  BY <1>0, <1>4, <1>5 DEF PeersGone, Stopped, Pair!Over, Pair!Other
<1>8. Buffers'
  BY <1>0, <1>4, <1>5, ZenonT(30) DEF Buffers, Pair!Sends, Pair!Receives, Pair!Interactive
<1>9. OneWay'
  BY <1>0, <1>4, <1>5 DEF OneWay, Pair!Sends
<1>10. Conserved'
  <2> SUFFICES ASSUME NEW r \in Pair!Sides, program \in Counted, Pair!Receives(r),
                      ~Pair!Over(r), status[Pair!Other(r)] # "died"
               PROVE  got[r] + Len(wire[Pair!Other(r)]) + (Len(item'[Pair!Other(r)])
                        + left'[Pair!Other(r)] + Answer(Pair!Other(r))) = Amount
    BY <1>0 DEF Conserved, Counted, Pair!Receives, Pair!Sends, Pair!Over, Answer, Amount, Pair!Other
  <2> DEFINE o == Pair!Other(r)
  <2>1. got[r] + Len(wire[o]) + (Len(item[o]) + left[o] + Answer(o)) = Amount
    BY DEF Conserved
  <2>2. program \notin Pair!Interactive /\ o \in Pair!Sides
    BY Directions, OtherSide
  <2> HIDE DEF o
  <2>3. Len(item'[o]) + left'[o] = Len(item[o]) + left[o]
    BY <1>4, <1>5, <2>2
  <2> QED
    BY <2>1, <2>3 DEF o
<1>11. LinesKept'
  <2> SUFFICES ASSUME program = "lines"
               PROVE  /\ \A i \in 1 .. Len(item'["client"]) :
                           item'["client"][i] = "quit" => item'["client"] = <<"quit">>
                      /\ spc["client"] = "done" => spc'["client"] = "done"
    BY <1>0 DEF LinesKept, Pair!Over
  <2> QED
    BY <1>4, <1>5 DEF LinesKept, Pair!Sides
<1>12. Taken'
  <2> SUFFICES ASSUME NEW r \in Pair!Sides, Pair!Receives(r), rpc[r] # "recv"
               PROVE  Received(r)'
    BY <1>0 DEF Taken, Pair!Receives, Pair!Sends
  <2>1. Received(r) /\ Pair!Other(r) \in Pair!Sides
    BY OtherSide DEF Taken
  <2>2. spc[Pair!Other(r)] = "done" => spc'[Pair!Other(r)] = "done"
    BY <1>4, <1>5, <2>1
  <2> QED
    BY <1>0, <2>1, <2>2 DEF Received, Amount, Pair!Whole, Pair!Header, Pair!Other, Counted
<1> QED
  BY <1>6, <1>7, <1>8, <1>9, <1>10, <1>11, <1>12

\* After send() the buffer is empty: its units are on their way, or the other side is over.
LEMMA SentInv ==
  ASSUME PairInv, NEW s \in Pair!Sides, Pair!Sent(s) \/ Pair!SendFails(s)
  PROVE  PairInv'
<1> USE DEF PairInv
<1> DEFINE o == Pair!Other(s)
           k == Pair!AfterSend(s)
<1>0. /\ UNCHANGED <<program, rpc, running, eof, left, size, got>>
      /\ status[s] = "running" /\ spc[s] = "send"
      /\ spc' = [spc EXCEPT ![s] = k] /\ item' = [item EXCEPT ![s] = <<>>]
  BY DEF Pair!Sent, Pair!SendFails, Pair!Up
<1>1. o \in Pair!Sides /\ o # s /\ Pair!Other(o) = s /\ (\A r \in Pair!Sides : r = s \/ r = o)
  BY OtherSide
<1>2. k \in {"done", "loop"} /\ (k = "done" <=> item[s] = <<"quit">>)
  BY DEF Pair!AfterSend
<1>3. /\ item[s] \in Seq(Pair!Kinds) /\ Len(item[s]) \in Nat
      /\ wire[s] \in Seq(Pair!Kinds) /\ Len(wire[s]) \in Nat /\ written[s] \in Nat
      /\ wire \in [Pair!Sides -> Seq(Pair!Kinds)] /\ written \in [Pair!Sides -> Nat]
      /\ peer \in [Pair!Sides -> {"here", "closed", "reset", "broken"}]
      /\ status \in [Pair!Sides -> {"accept", "running", "ended", "died"}]
      /\ spc \in [Pair!Sides -> {"loop", "fgets", "send", "done"}]
      /\ item \in [Pair!Sides -> Seq(Pair!Kinds)]
  BY PairTypes DEF Pair!TypeOK
<1> DEFINE all == wire[s] \o item[s]
<1>4. all \in Seq(Pair!Kinds) /\ Len(all) = Len(wire[s]) + Len(item[s])
      /\ \A i \in 1 .. Len(all) :
           all[i] = IF i <= Len(wire[s]) THEN wire[s][i] ELSE item[s][i - Len(wire[s])]
  BY <1>3, ConcatProperties
<1>5. /\ status'[s] \in {"running", "died"} /\ status' = [status EXCEPT ![s] = status'[s]]
      /\ peer' \in [Pair!Sides -> {"here", "closed", "reset", "broken"}]
      /\ \A r \in Pair!Sides : peer'[r] # "here" => peer[r] # "here"
      /\ \/ wire' = [wire EXCEPT ![s] = all]
         \/ Pair!Over(o) /\ wire' = wire
      /\ written' \in [Pair!Sides -> Nat] /\ written'[o] = written[o]
      /\ program = "lines" /\ ~Pair!Over(o) => written'[s] = written[s] + Len(item[s])
  <2>1. CASE Pair!Sent(s)
    <3>1. /\ Pair!Transmit(s, item[s]) /\ status' = status
          /\ written' = [written EXCEPT ![s] =
               IF program = "chat" THEN written[s] ELSE written[s] + Len(item[s])]
      BY <2>1 DEF Pair!Sent
    <3>2. \/ peer' = peer /\ wire' = [wire EXCEPT ![s] = all]
          \/ /\ peer[s] = "closed" /\ wire' = wire
             /\ peer' = peer \/ peer' = [peer EXCEPT ![s] = "broken"]
      BY <3>1 DEF Pair!Transmit
    <3>3. peer[s] = "closed" => Pair!Over(o)
      BY DEF PeersGone
    <3> HIDE DEF all, o
    <3> DEFINE m == IF program = "chat" THEN written[s] ELSE written[s] + Len(item[s])
    <3>4. m \in Nat /\ (program = "lines" => m = written[s] + Len(item[s]))
      BY <1>3
    <3>5. written' = [written EXCEPT ![s] = m]
      BY <3>1
    <3> HIDE DEF m
    <3>6. /\ written' \in [Pair!Sides -> Nat] /\ written'[o] = written[o]
          /\ program = "lines" => written'[s] = written[s] + Len(item[s])
      BY <1>1, <1>3, <3>4, <3>5
    <3>7. /\ peer' \in [Pair!Sides -> {"here", "closed", "reset", "broken"}]
          /\ \A r \in Pair!Sides : peer'[r] # "here" => peer[r] # "here"
      BY <1>3, <3>2
    <3>8. status'[s] = "running" /\ status' = [status EXCEPT ![s] = status'[s]]
      BY <1>0, <1>3, <3>1
    <3> QED
      BY <3>2, <3>3, <3>6, <3>7, <3>8
  <2>2. CASE Pair!SendFails(s)
    <3>1. /\ peer[s] = "reset" /\ peer' = [peer EXCEPT ![s] = "broken"]
          /\ status' = [status EXCEPT ![s] = IF program = "framed" THEN "died" ELSE status[s]]
          /\ UNCHANGED <<wire, written>>
      BY <2>2 DEF Pair!SendFails
    <3>2. Pair!Over(o)
      BY <3>1 DEF PeersGone
    <3> HIDE DEF all, o
    <3>3. status'[s] \in {"running", "died"} /\ status' = [status EXCEPT ![s] = status'[s]]
      BY <1>0, <1>3, <3>1
    <3>4. /\ peer' \in [Pair!Sides -> {"here", "closed", "reset", "broken"}]
          /\ \A r \in Pair!Sides : peer'[r] # "here" => peer[r] # "here"
      BY <1>3, <3>1
    <3> QED
      BY <1>3, <3>1, <3>2, <3>3, <3>4
  <2> QED
    BY <2>1, <2>2
<1> HIDE DEF o, k, all
<1>6. /\ status'[o] = status[o] /\ status[o] \in {"accept", "running", "ended", "died"}
      /\ status' \in [Pair!Sides -> {"accept", "running", "ended", "died"}]
      /\ wire' \in [Pair!Sides -> Seq(Pair!Kinds)] /\ wire'[o] = wire[o]
      /\ wire'[s] = all \/ (Pair!Over(o) /\ wire'[s] = wire[s])
  <2>1. /\ status'[o] = status[o] /\ status[o] \in {"accept", "running", "ended", "died"}
        /\ status' \in [Pair!Sides -> {"accept", "running", "ended", "died"}]
    <3> DEFINE a == status'[s]
    <3>1. a \in {"accept", "running", "ended", "died"} /\ status' = [status EXCEPT ![s] = a]
      BY <1>5
    <3> HIDE DEF a
    <3> QED
      BY <1>1, <1>3, <3>1
  <2>2. CASE wire' = [wire EXCEPT ![s] = all]
    BY <1>1, <1>3, <1>4, <2>1, <2>2
  <2>3. CASE Pair!Over(o) /\ wire' = wire
    BY <1>1, <1>3, <2>1, <2>3
  <2> QED
    BY <1>5, <2>2, <2>3
<1>7. /\ spc'[s] = k /\ spc'[o] = spc[o] /\ spc' \in [Pair!Sides -> {"loop", "fgets", "send", "done"}]
      /\ item'[s] = <<>> /\ item'[o] = item[o] /\ item' \in [Pair!Sides -> Seq(Pair!Kinds)]
      /\ <<>> # <<"quit">>
  BY <1>0, <1>1, <1>2, <1>3
<1>8. Pair!TypeOK'
  BY <1>0, <1>5, <1>6, <1>7 DEF Pair!TypeOK
<1>9. PeersGone'
  <2> SUFFICES ASSUME NEW r \in Pair!Sides, peer'[r] # "here"
               PROVE  status'[Pair!Other(r)] \in {"ended", "died"}
    BY DEF PeersGone, Pair!Over, Pair!Other
  <2>1. status[Pair!Other(r)] \in {"ended", "died"} /\ Pair!Other(r) \in Pair!Sides
    BY <1>5, OtherSide DEF PeersGone, Pair!Over
  <2> QED
    BY <1>0, <1>1, <1>6, <2>1
<1>10. Stopped'
  BY <1>0, <1>1, <1>5, <1>6, <1>7 DEF Stopped
<1>11. Buffers'
  <2> SUFFICES ASSUME NEW r \in Pair!Sides
               PROVE  /\ spc'[r] # "send" => item'[r] = <<>>
                      /\ spc'[r] = "fgets" => program \in Pair!Interactive
                      /\ program \notin Pair!Interactive =>
                           (spc'[r] = "done" \/ item'[r] = <<"quit">> \/ ~Pair!Sends(r) => left[r] = 0)
    BY <1>0 DEF Buffers, Pair!Sends, Pair!Receives, Pair!Interactive
  <2> QED
    BY <1>1, <1>2, <1>7 DEF Buffers
<1>12. ASSUME NEW r \in Pair!Sides, ~Pair!Sends(r), program # "answer" \/ rpc[r] = "recv"
       PROVE  r = o /\ spc'[r] = "done" /\ wire'[r] = <<>>
  <2>1. spc[r] = "done" /\ wire[r] = <<>>
    BY <1>12 DEF OneWay
  <2> QED
    BY <1>0, <1>1, <1>6, <1>7, <2>1
<1>13. OneWay'
  BY <1>0, <1>12 DEF OneWay, Pair!Sends
<1>14. Conserved'
  <2> SUFFICES ASSUME NEW r \in Pair!Sides, program \in Counted, Pair!Receives(r),
                      status'[r] \notin {"ended", "died"}, status'[Pair!Other(r)] # "died"
               PROVE  got[r] + Len(wire'[Pair!Other(r)]) + (Len(item'[Pair!Other(r)])
                        + left[Pair!Other(r)] + Answer(Pair!Other(r))) = Amount
    BY <1>0 DEF Conserved, Counted, Pair!Receives, Pair!Sends, Pair!Over, Answer, Amount, Pair!Other
  <2>1. CASE r = s
    <3>1. Pair!Other(r) = o /\ ~Pair!Over(r) /\ status[o] # "died"
      BY <1>0, <1>6, <2>1 DEF o, Pair!Over
    <3> QED
      BY <1>6, <1>7, <2>1, <3>1 DEF Conserved
  <2>2. CASE r = o
    <3>1. Pair!Other(r) = s /\ ~Pair!Over(o) /\ status[s] # "died"
      BY <1>0, <1>1, <1>6, <2>2 DEF Pair!Over
    <3>2. got[o] + Len(wire[s]) + (Len(item[s]) + left[s] + Answer(s)) = Amount
      BY <1>1, <2>2, <3>1 DEF Conserved
    <3>3. Len(wire'[s]) = Len(wire[s]) + Len(item[s]) /\ Len(item'[s]) = 0
      BY <1>4, <1>6, <1>7, <3>1
    <3>4. got[o] \in Nat /\ left[s] \in Int /\ Answer(s) \in {0, 1}
      BY <1>1, PairTypes
    <3>5. got[o] + Len(wire'[s]) + (Len(item'[s]) + left[s] + Answer(s)) = Amount
      BY <1>3, <3>2, <3>3, <3>4
    <3> QED
      BY <2>2, <3>1, <3>5
  <2> QED
    BY <1>1, <2>1, <2>2
<1>15. program = "lines" => s = "client" /\ o = "server" /\ Pair!Sends(s)
  <2>1. program = "lines" => Pair!Sends(s)
    BY <1>1, <1>12
  <2> QED
    BY <2>1, Directions, OtherSide DEF o
<1>16. LinesKept'
  <2> SUFFICES ASSUME program = "lines", s = "client", o = "server"
               PROVE  /\ status'[o] \notin {"ended", "died"} => written'[s] = got[o] + Len(wire'[s])
                      /\ \A i \in 1 .. Len(item'[s]) :
                           item'[s][i] = "quit" => item'[s] = <<"quit">>
                      /\ \A i \in 1 .. Len(wire'[s]) : wire'[s][i] = "quit" =>
                           i = Len(wire'[s]) /\ spc'[s] = "done"
    BY <1>0, <1>15 DEF LinesKept, Pair!Over
  <2>1. ASSUME status'[o] \notin {"ended", "died"} PROVE written'[s] = got[o] + Len(wire'[s])
    <3>1. ~Pair!Over(o) /\ got[o] \in Nat
      BY <1>1, <1>6, <2>1, PairTypes DEF Pair!Over
    <3>2. written[s] = got[o] + Len(wire[s])
      BY <3>1 DEF LinesKept
    <3>3. Len(wire'[s]) = Len(wire[s]) + Len(item[s]) /\ written'[s] = written[s] + Len(item[s])
      BY <1>4, <1>5, <1>6, <3>1
    <3> QED
      BY <1>3, <3>1, <3>2, <3>3
  <2>2. \A i \in 1 .. Len(wire[s]) : wire[s][i] # "quit"
    BY <1>0 DEF LinesKept
  <2>3. ASSUME NEW i \in 1 .. Len(all), all[i] = "quit" PROVE i = Len(all) /\ k = "done"
    <3>1. ~(i <= Len(wire[s])) /\ all[i] = item[s][i - Len(wire[s])]
      BY <1>3, <1>4, <2>2, <2>3
    <3>2. i - Len(wire[s]) \in 1 .. Len(item[s])
      BY <1>3, <1>4, <3>1
    <3>3. item[s] = <<"quit">>
      BY <2>3, <3>1, <3>2 DEF LinesKept
    <3>4. Len(item[s]) = 1
      BY <3>3
    <3> QED
      BY <1>2, <1>3, <1>4, <3>2, <3>3, <3>4
  <2>4. Len(item'[s]) = 0
    BY <1>7
  <2> QED
    BY <1>6, <1>7, <2>1, <2>2, <2>3, <2>4
<1>17. Taken'
  <2> SUFFICES ASSUME NEW r \in Pair!Sides, Pair!Receives(r), rpc[r] # "recv"
               PROVE  Received(r)'
    BY <1>0 DEF Taken, Pair!Receives, Pair!Sends
  <2>1. Received(r) /\ (\A x \in Pair!Sides : status'[x] # "died" => status[x] # "died")
    BY <1>0, <1>1, <1>6 DEF Taken
  <2>2. ASSUME program = "lines", status'[Pair!Other(r)] # "died"
        PROVE  rpc[r] = "misled" \/ (spc'[Pair!Other(r)] = "done" /\ got[r] = written'[Pair!Other(r)])
    <3>1. r = o
      BY <1>1, <1>15, <2>2, Directions
    <3>2. rpc[r] = "misled" \/ spc[s] = "done"
      BY <1>0, <1>1, <2>1, <2>2, <3>1 DEF Received
    <3> QED
      BY <1>0, <3>2
  <2> QED
    BY <1>0, <2>1, <2>2, OtherSide DEF Received, Amount, Pair!Whole, Pair!Header, Pair!Other, Counted
<1> QED
  BY <1>8, <1>9, <1>10, <1>11, <1>13, <1>14, <1>16, <1>17

\* One unit in all: who takes some takes all there is.
LEMMA OnlyOne ==
  ASSUME NEW g \in Nat, NEW w \in Nat, NEW n \in Nat, NEW i \in Nat, NEW l \in Int, NEW a \in Int,
         n >= 1, n <= w, l >= 0, a >= 0, g + w + (i + l + a) = 1
  PROVE  g = 0 /\ n = 1 /\ g + n = 1
OBVIOUS

\* What moves from what is owed to the buffer leaves the sum as it was.
LEMMA SameSum ==
  ASSUME NEW g \in Int, NEW w \in Int, NEW i \in Int, NEW j \in Int, NEW l \in Int,
         NEW a \in Int, NEW b \in Int, i + a = j + b
  PROVE  g + w + (i + l + a) = g + w + (j + l + b)
OBVIOUS

\* recv() takes the next units; they are counted, and sent back where they are answered.
LEMMA ReceiveInv ==
  ASSUME PairParameters, PairInv, NEW s \in Pair!Sides, Pair!Receive(s)
  PROVE  PairInv'
<1> USE DEF PairInv
<1> DEFINE o == Pair!Other(s)
           w == wire[o]
<1>0. /\ UNCHANGED <<program, status, running, eof, left, size, peer, written>>
      /\ status[s] = "running" /\ rpc[s] = "recv"
      /\ spc' = IF Pair!Replies(s) THEN [spc EXCEPT ![s] = "send"] ELSE spc
  BY DEF Pair!Receive, Pair!Up
<1>1. o \in Pair!Sides /\ o # s /\ Pair!Other(o) = s /\ (\A r \in Pair!Sides : r = s \/ r = o)
  BY OtherSide
<1>2. PICK n \in Pair!Takes(s) :
        /\ n <= Len(w)
        /\ wire' = [wire EXCEPT ![o] = SubSeq(w, n + 1, Len(w))]
        /\ rpc' = [rpc EXCEPT ![s] = Pair!NextStep(s, SubSeq(w, 1, n))]
        /\ got' = [got EXCEPT ![s] = IF program = "chat" THEN got[s] ELSE got[s] + n]
        /\ item' = IF Pair!Replies(s) THEN [item EXCEPT ![s] = SubSeq(w, 1, n)] ELSE item
  BY DEF Pair!Receive
<1>3. /\ w \in Seq(Pair!Kinds) /\ Len(w) \in Nat /\ got[s] \in Nat /\ got[o] \in Nat
      /\ wire \in [Pair!Sides -> Seq(Pair!Kinds)] /\ got \in [Pair!Sides -> Nat]
      /\ rpc \in [Pair!Sides -> {"recv", "done", "misled"}]
      /\ spc \in [Pair!Sides -> {"loop", "fgets", "send", "done"}]
      /\ item \in [Pair!Sides -> Seq(Pair!Kinds)]
  BY <1>1, PairTypes DEF Pair!TypeOK
<1>4. n \in Nat /\ n >= 1 /\ n \in 0 .. Len(w) /\ (program = "framed" => n = 1)
  <2>1. RecvMax \in Nat
    BY DEF PairParameters, Pair!PairAssumption
  <2>2. n \in Nat /\ n >= 1 /\ (program = "framed" => n = 1)
    BY <1>2, <2>1 DEF Pair!Takes
  <2> QED
    BY <1>2, <1>3, <2>2
<1> DEFINE us == SubSeq(w, 1, n)
           rest == SubSeq(w, n + 1, Len(w))
           step == Pair!NextStep(s, us)
           m == IF program = "chat" THEN got[s] ELSE got[s] + n
<1>5. /\ us \in Seq(Pair!Kinds) /\ Len(us) = n /\ (\A i \in 1 .. n : us[i] = w[i])
      /\ rest \in Seq(Pair!Kinds) /\ Len(rest) = Len(w) - n
      /\ \A i \in 1 .. Len(w) - n : rest[i] = w[n + i]
  BY <1>3, <1>4, Cut
<1>6. us # <<>> /\ Head(us) = w[1]
  <2> HIDE DEF us, w
  <2>1. us # <<>> /\ Head(us) = us[1]
    BY <1>4, <1>5, EmptySeq, HeadTailProperties
  <2>2. 1 \in 1 .. n
    BY <1>4
  <2> QED
    BY <1>5, <2>1, <2>2
<1>7. Pair!Receives(s)
  BY <1>0 DEF Buffers
<1>8. /\ step \in {"recv", "done", "misled"} /\ (step = "misled" => program = "lines")
      /\ program = "file" => step = "recv"
      /\ program = "framed" /\ step # "recv" => got[s] + 1 = Pair!Whole
      /\ program = "lines" /\ step = "done" => w[1] = "quit"
      /\ program = "answer" => step = "done"
  BY <1>6 DEF Pair!NextStep
<1>9. m \in Nat /\ (program # "chat" => m = got[s] + n)
  BY <1>3, <1>4
<1> HIDE DEF us, rest, step, m, o, w
<1>10. /\ wire' \in [Pair!Sides -> Seq(Pair!Kinds)] /\ wire'[s] = wire[s] /\ wire'[o] = rest
       /\ rpc' \in [Pair!Sides -> {"recv", "done", "misled"}] /\ rpc'[s] = step /\ rpc'[o] = rpc[o]
       /\ got' \in [Pair!Sides -> Nat] /\ got'[s] = m /\ got'[o] = got[o]
  BY <1>1, <1>2, <1>3, <1>5, <1>8, <1>9 DEF us, rest, step, m, o, w
<1>12. /\ spc' \in [Pair!Sides -> {"loop", "fgets", "send", "done"}] /\ spc'[o] = spc[o]
       /\ item' \in [Pair!Sides -> Seq(Pair!Kinds)] /\ item'[o] = item[o]
       /\ IF Pair!Replies(s) THEN spc'[s] = "send" /\ item'[s] = us
                             ELSE spc'[s] = spc[s] /\ item'[s] = item[s]
  <2>1. item' = IF Pair!Replies(s) THEN [item EXCEPT ![s] = us] ELSE item
    BY <1>2 DEF us
  <2> QED
    BY <1>0, <1>1, <1>3, <1>5, <2>1
<1>13. /\ Pair!Replies(s) <=> program = "answer" /\ s = "server"
       /\ Pair!Replies(s) => ~Pair!Sends(s) /\ left[s] = 0 /\ Len(item[s]) = 0
  <2>1. Pair!Replies(s) <=> program = "answer" /\ s = "server"
    BY DEF Pair!Replies
  <2>2. ASSUME Pair!Replies(s) PROVE ~Pair!Sends(s) /\ left[s] = 0 /\ Len(item[s]) = 0
    <3>1. ~Pair!Sends(s) /\ program \notin Pair!Interactive
      BY <2>1, <2>2 DEF Pair!Sends, Pair!Interactive
    <3>2. spc[s] = "done"
      BY <1>0, <3>1 DEF OneWay
    <3>3. item[s] = <<>>
      BY <3>2 DEF Buffers
    <3> QED
      BY <3>1, <3>3 DEF Buffers
  <2> QED
    BY <2>1, <2>2
<1>14. Pair!TypeOK'
  BY <1>0, <1>10, <1>12 DEF Pair!TypeOK
<1>15. PeersGone'
  BY <1>0 DEF PeersGone, Pair!Over, Pair!Other
<1>16. Stopped'
  BY <1>0, <1>1, <1>10, <1>12 DEF Stopped
<1>17. Buffers'
  <2> SUFFICES ASSUME NEW r \in Pair!Sides
               PROVE  /\ spc'[r] # "send" => item'[r] = <<>>
                      /\ spc'[r] = "fgets" => program \in Pair!Interactive
                      /\ program \notin Pair!Interactive =>
                           (spc'[r] = "done" \/ item'[r] = <<"quit">> \/ ~Pair!Sends(r) => left[r] = 0)
                      /\ rpc'[r] = "misled" => program = "lines"
                      /\ ~Pair!Receives(r) => rpc'[r] = "done"
    BY <1>0 DEF Buffers, Pair!Sends, Pair!Receives, Pair!Interactive
  <2>1. CASE r = o
    BY <1>10, <1>12, <2>1 DEF Buffers
  <2>2. CASE r = s /\ Pair!Replies(s)
    BY <1>7, <1>8, <1>10, <1>12, <1>13, <2>2
  <2>3. CASE r = s /\ ~Pair!Replies(s)
    BY <1>7, <1>8, <1>10, <1>12, <2>3 DEF Buffers
  <2> QED
    BY <1>1, <2>1, <2>2, <2>3
<1>18. OneWay'
  <2> SUFFICES ASSUME NEW r \in Pair!Sides, ~Pair!Sends(r), program # "answer" \/ rpc'[r] = "recv"
               PROVE  spc'[r] = "done" /\ wire'[r] = <<>>
    BY <1>0 DEF OneWay, Pair!Sends
  <2>1. CASE r = s
    <3>1. ~Pair!Replies(s)
      BY <1>8, <1>10, <1>13, <2>1
    <3> QED
      BY <1>0, <1>10, <1>12, <2>1, <3>1 DEF OneWay
  <2>2. CASE r = o
    <3>1. wire[o] = <<>>
      BY <1>10, <2>2 DEF OneWay
    <3>2. Len(w) = 0
      BY <3>1 DEF w
    <3> QED
      BY <1>4, <3>2
  <2> QED
    BY <1>1, <2>1, <2>2
<1>19. ASSUME program \in Counted, status[o] # "died"
       PROVE  got[s] + Len(w) + (Len(item[o]) + left[o] + Answer(o)) = Amount
  BY <1>0, <1>7, <1>19 DEF Conserved, Pair!Over, o, w
<1>20. ASSUME program \in {"message", "answer"}, status[o] # "died" PROVE n = 1 /\ m = 1
  <2>1. got[s] + Len(w) + (Len(item[o]) + left[o] + Answer(o)) = 1
    BY <1>19, <1>20 DEF Counted, Amount
  <2>2. /\ Len(item[o]) \in Nat /\ left[o] \in Int /\ left[o] >= 0 /\ Answer(o) \in {0, 1}
    BY <1>1, PairTypes
  <2>3. m = got[s] + n
    BY <1>9, <1>20
  <2>4. n <= Len(w) /\ Answer(o) \in Int /\ Answer(o) >= 0
    BY <1>3, <1>4, <2>2
  <2> HIDE DEF w
  <2>5. n = 1 /\ got[s] + n = 1
    BY <1>3, <1>4, <2>1, <2>2, <2>4, OnlyOne, SMTT(30)
  <2> QED
    BY <2>3, <2>5
<1>21. Conserved'
  <2> SUFFICES ASSUME NEW r \in Pair!Sides, program \in Counted, Pair!Receives(r),
                      ~Pair!Over(r), status[Pair!Other(r)] # "died"
               PROVE  got'[r] + Len(wire'[Pair!Other(r)]) + (Len(item'[Pair!Other(r)])
                        + left[Pair!Other(r)] + Answer(Pair!Other(r))') = Amount
    BY <1>0 DEF Conserved, Counted, Pair!Receives, Pair!Sends, Pair!Over, Amount, Pair!Other, Answer
  <2>1. CASE r = s
    <3>1. Pair!Other(r) = o /\ program # "chat"
      BY <2>1, Directions DEF o, Counted
    <3>2. got[s] + Len(w) + (Len(item[o]) + left[o] + Answer(o)) = Amount
      BY <1>19, <3>1
    <3>3. Answer(o)' = Answer(o)
      BY <1>0, <1>10 DEF Answer
    <3>4. /\ Len(item[o]) \in Nat /\ left[o] \in Int /\ Answer(o) \in {0, 1}
      BY <1>1, PairTypes
    <3>5. m + Len(rest) + (Len(item[o]) + left[o] + Answer(o)) = Amount
      BY <1>3, <1>4, <1>5, <1>9, <3>1, <3>2, <3>4
    <3>6. Answer(Pair!Other(r))' = Answer(o)
      BY <1>0, <1>10, <3>1 DEF Answer, Pair!Other
    <3> QED
      BY <1>10, <1>12, <2>1, <3>1, <3>5, <3>6
  <2>2. CASE r = o
    <3>1. Pair!Other(r) = s /\ status[s] # "died" /\ status[o] # "died"
      BY <1>0, <1>1, <2>2 DEF Pair!Over
    <3>2. got[o] + Len(wire[s]) + (Len(item[s]) + left[s] + Answer(s)) = Amount
      BY <1>1, <2>2, <3>1 DEF Conserved
    <3>3. Len(item'[s]) + Answer(s)' = Len(item[s]) + Answer(s)
      <4>1. CASE Pair!Replies(s)
        <5>1. n = 1
          BY <1>13, <1>20, <3>1, <4>1
        <5>2. Answer(s)' = 0 /\ Answer(s) = 1
          BY <1>0, <1>8, <1>10, <1>13, <4>1 DEF Answer
        <5>3. Len(item'[s]) = 1 /\ Len(item[s]) = 0
          BY <1>5, <1>12, <1>13, <4>1, <5>1
        <5> QED
          BY <5>2, <5>3
      <4>2. CASE ~Pair!Replies(s)
        <5>1. Answer(s)' = Answer(s)
          BY <1>0, <1>13, <4>2 DEF Answer
        <5> QED
          BY <1>12, <4>2, <5>1
      <4> QED
        BY <4>1, <4>2
    <3>4. /\ Len(item[s]) \in Nat /\ left[s] \in Int /\ Answer(s) \in {0, 1}
      BY PairTypes
    <3>5. /\ Len(item'[s]) \in Nat /\ Answer(s)' \in {0, 1}
      <4>1. item'[s] \in Seq(Pair!Kinds)
        BY <1>12
      <4> QED
        BY <4>1, LenProperties DEF Answer
    <3>6. wire'[s] = wire[s] /\ Len(wire[s]) \in Nat
      BY <1>10, PairTypes
    <3> DEFINE a == Answer(s)'
               b == Len(item'[s])
               c == Len(item[s])
               d == Answer(s)
               e == Len(wire[s])
               g == got[o]
               l == left[s]
    <3>7. a \in Int /\ b \in Int /\ c \in Int /\ d \in Int /\ e \in Int /\ l \in Int
          /\ g \in Int /\ b + a = c + d /\ g + e + (c + l + d) = Amount
      BY <1>3, <3>2, <3>3, <3>4, <3>5, <3>6
    <3> HIDE DEF a, b, c, d, e, g, l
    <3>8. g + e + (b + l + a) = Amount
      <4>1. g + e + (b + l + a) = g + e + (c + l + d)
        BY <3>7, SameSum
      <4> QED
        BY <3>7, <4>1
    <3>9. Answer(Pair!Other(r))' = a
      BY <3>1 DEF a, Answer, Pair!Other
    <3> QED
      BY <1>10, <2>2, <3>1, <3>6, <3>8, <3>9 DEF b, e, g, l
  <2> QED
    BY <1>1, <2>1, <2>2
<1>22. program = "lines" => s = "server" /\ o = "client" /\ ~Pair!Replies(s)
  <2>1. program = "lines" => ~Pair!Sends(s)
    BY <1>7, Directions
  <2> QED
    BY <1>13, <2>1, Directions, OtherSide DEF o, Pair!Sides
<1>23. LinesKept'
  <2> SUFFICES ASSUME program = "lines", s = "server", o = "client"
               PROVE  /\ written[o] = got'[s] + Len(wire'[o])
                      /\ \A i \in 1 .. Len(item'[o]) :
                           item'[o][i] = "quit" => item'[o] = <<"quit">>
                      /\ \A i \in 1 .. Len(wire'[o]) : wire'[o][i] = "quit" =>
                           i = Len(wire'[o]) /\ spc'[o] = "done"
    BY <1>0, <1>22 DEF LinesKept, Pair!Over
  <2>1. written[o] = got[s] + Len(w) /\ written[o] \in Nat
    BY <1>0, <1>1, PairTypes DEF LinesKept, Pair!Over, w
  <2>2. written[o] = m + Len(rest)
    BY <1>3, <1>4, <1>5, <1>9, <2>1
  <2>3. ASSUME NEW i \in 1 .. Len(rest), rest[i] = "quit" PROVE i = Len(rest) /\ spc[o] = "done"
    <3>1. n + i \in 1 .. Len(w) /\ w[n + i] = "quit"
      BY <1>3, <1>4, <1>5, <2>3
    <3>2. n + i = Len(w) /\ spc[o] = "done"
      BY <3>1 DEF LinesKept, w
    <3>3. Len(rest) = Len(w) - n /\ n \in Int /\ i \in Int /\ Len(w) \in Int
      BY <1>3, <1>4, <1>5
    <3> QED
      BY <3>2, <3>3
  <2> QED
    BY <1>10, <1>12, <2>2, <2>3 DEF LinesKept
<1>24. Taken'
  <2> SUFFICES ASSUME NEW r \in Pair!Sides, Pair!Receives(r), rpc'[r] # "recv"
               PROVE  Received(r)'
    BY <1>0 DEF Taken, Pair!Receives, Pair!Sends
  <2> SUFFICES /\ program = "framed" => got'[r] = Pair!Whole
               /\ program \in Counted /\ status[Pair!Other(r)] # "died" => got'[r] = Amount
               /\ program = "lines" /\ status[Pair!Other(r)] # "died" =>
                    rpc'[r] = "misled" \/ (spc'[Pair!Other(r)] = "done"
                                             /\ got'[r] = written[Pair!Other(r)])
    BY <1>0 DEF Received, Amount, Pair!Whole, Pair!Header, Pair!Other, Counted
  <2>1. CASE r = s
    <3>1. Pair!Other(r) = o /\ got'[r] = m /\ rpc'[r] = step
      BY <1>10, <2>1 DEF o
    <3>2. program = "framed" => m = Pair!Whole
      BY <1>4, <1>8, <1>9, <1>10, <2>1
    <3>3. program \in Counted /\ status[o] # "died" => m = Amount
      BY <1>8, <1>10, <1>20, <2>1 DEF Counted, Amount
    <3>4. ASSUME program = "lines", step # "misled" PROVE spc'[o] = "done" /\ m = written[o]
      <4>1. w[1] = "quit" /\ 1 \in 1 .. Len(w) /\ s = "server" /\ o = "client"
        BY <1>3, <1>4, <1>8, <1>10, <1>22, <2>1, <3>4
      <4>2. 1 = Len(w) /\ spc[o] = "done" /\ written[o] = got[s] + Len(w)
        BY <1>0, <3>4, <4>1 DEF LinesKept, Pair!Over, w
      <4>3. n = 1
        <5> DEFINE k == Len(w)
        <5>1. 1 = k
          BY <4>2
        <5>2. n \in Nat /\ n >= 1 /\ n \in 0 .. k
          BY <1>4
        <5> HIDE DEF k
        <5> QED
          BY <5>1, <5>2
      <4>4. m = got[s] + 1
        BY <1>9, <3>4, <4>3
      <4>5. written[o] = got[s] + 1
        BY <4>2
      <4> QED
        BY <1>12, <4>2, <4>4, <4>5
    <3> QED
      BY <3>1, <3>2, <3>3, <3>4
  <2>2. CASE r = o
    <3>1. Received(o) /\ Pair!Other(r) = s /\ rpc'[o] = rpc[o] /\ got'[o] = got[o]
      BY <1>1, <1>10, <2>2 DEF Taken
    <3>2. program # "lines"
      BY <1>7, <1>22, <2>2, Directions, <1>1
    <3> QED
      BY <1>1, <2>2, <3>1, <3>2 DEF Received
  <2> QED
    BY <1>1, <2>1, <2>2
<1> QED
  BY <1>14, <1>15, <1>16, <1>17, <1>18, <1>21, <1>23, <1>24

\* recv() reports the end: everything was received, if the other side ended by itself.
LEMMA EndInvariant ==
  ASSUME PairInv, NEW s \in Pair!Sides, Pair!ReceivesEnd(s)
  PROVE  PairInv'
<1> USE DEF PairInv
<1> DEFINE o == Pair!Other(s)
<1>0. /\ UNCHANGED <<program, status, spc, eof, item, left, size, wire, written, got>>
      /\ status[s] = "running" /\ rpc[s] = "recv" /\ wire[o] = <<>> /\ peer[s] # "here"
      /\ program # "framed"
      /\ running' = [running EXCEPT ![s] = program # "chat"]
      /\ rpc' = [rpc EXCEPT ![s] = "done"]
      /\ peer' = [peer EXCEPT ![s] = IF peer[s] = "reset" THEN "broken" ELSE peer[s]]
  BY DEF Pair!ReceivesEnd, Pair!Ended, Pair!Up, Pair!inputVars
<1>1. o \in Pair!Sides /\ o # s /\ Pair!Other(o) = s /\ (\A r \in Pair!Sides : r = s \/ r = o)
  BY OtherSide
<1>2. Pair!Over(o) /\ Pair!Receives(s)
  BY <1>0 DEF PeersGone, Buffers
<1> HIDE DEF o
<1>3. /\ rpc' \in [Pair!Sides -> {"recv", "done", "misled"}] /\ rpc'[s] = "done" /\ rpc'[o] = rpc[o]
      /\ peer' \in [Pair!Sides -> {"here", "closed", "reset", "broken"}] /\ peer'[o] = peer[o]
      /\ running' \in [Pair!Sides -> BOOLEAN]
  BY <1>0, <1>1 DEF Pair!TypeOK
<1>4. Pair!TypeOK'
  BY <1>0, <1>3 DEF Pair!TypeOK
<1>5. PeersGone'
  <2> SUFFICES ASSUME NEW r \in Pair!Sides, peer'[r] # "here"
               PROVE  Pair!Over(Pair!Other(r))
    BY <1>0 DEF PeersGone, Pair!Over, Pair!Other
  <2> QED
    BY <1>1, <1>2, <1>3 DEF PeersGone, o
<1>6. Stopped' /\ Buffers' /\ OneWay'
  BY <1>0, <1>1, <1>2, <1>3 DEF Stopped, Buffers, OneWay, Pair!Sends, Pair!Receives, Pair!Interactive
<1>7. Conserved'
  <2> SUFFICES ASSUME NEW r \in Pair!Sides, program \in Counted, Pair!Receives(r),
                      ~Pair!Over(r), status[Pair!Other(r)] # "died"
               PROVE  got[r] + Len(wire[Pair!Other(r)]) + (Len(item[Pair!Other(r)])
                        + left[Pair!Other(r)] + Answer(Pair!Other(r))') = Amount
    BY <1>0 DEF Conserved, Counted, Pair!Receives, Pair!Sends, Pair!Over, Amount, Pair!Other, Answer
  <2>1. r = s
    BY <1>1, <1>2
  <2>2. Answer(Pair!Other(r))' = Answer(Pair!Other(r))
    BY <1>0, <1>3, <2>1 DEF Answer, o, Pair!Other
  <2> QED
    BY <2>2 DEF Conserved
<1>8. LinesKept'
  BY <1>0 DEF LinesKept, Pair!Over
<1>9. Taken'
  <2> SUFFICES ASSUME NEW r \in Pair!Sides, Pair!Receives(r), rpc'[r] # "recv"
               PROVE  Received(r)'
    BY <1>0 DEF Taken, Pair!Receives, Pair!Sends
  <2> SUFFICES /\ program \in Counted /\ status[Pair!Other(r)] # "died" => got[r] = Amount
               /\ program = "framed" => got[r] = Pair!Whole
               /\ program = "lines" /\ status[Pair!Other(r)] # "died" =>
                    rpc'[r] = "misled" \/ (spc[Pair!Other(r)] = "done"
                                             /\ got[r] = written[Pair!Other(r)])
    BY <1>0 DEF Received, Amount, Pair!Whole, Pair!Header, Pair!Other, Counted
  <2>1. CASE r = s
    <3>0. Pair!Other(r) = o
      BY <2>1 DEF o
    <3> SUFFICES ASSUME status[o] # "died"
                 PROVE  /\ program \in Counted => got[s] = Amount
                        /\ program = "lines" => spc[o] = "done" /\ got[s] = written[o]
      BY <1>0, <2>1, <3>0
    <3>1. spc[o] = "done" /\ rpc[o] # "recv" /\ item[o] = <<>> /\ Len(wire[o]) = 0
      BY <1>0, <1>1, <1>2 DEF Pair!Over, Stopped, Buffers
    <3>2. ASSUME program \in Counted PROVE got[s] = Amount
      <4>1. left[o] = 0 /\ Answer(o) = 0 /\ Len(item[o]) = 0
        BY <1>1, <3>1, <3>2, Directions DEF Buffers, Answer
      <4>2. got[s] + Len(wire[o]) + (Len(item[o]) + left[o] + Answer(o)) = Amount
        BY <1>0, <1>2, <3>2 DEF Conserved, Pair!Over, o
      <4>3. got[s] \in Nat
        BY PairTypes
      <4> QED
        BY <3>1, <4>1, <4>2, <4>3
    <3>3. ASSUME program = "lines" PROVE got[s] = written[o]
      <4>1. s = "server" /\ o = "client"
        BY <1>2, <3>3, Directions, OtherSide DEF Pair!Sides, o
      <4>2. written[o] = got[s] + Len(wire[o]) /\ got[s] \in Nat
        BY <1>0, <3>3, <4>1, PairTypes DEF LinesKept, Pair!Over
      <4> QED
        BY <3>1, <4>2
    <3> QED
      BY <3>1, <3>2, <3>3
  <2>2. CASE r = o
    BY <1>1, <1>3, <2>2 DEF Taken, Received
  <2> QED
    BY <1>1, <2>1, <2>2
<1> QED
  BY <1>4, <1>5, <1>6, <1>7, <1>8, <1>9

\* Every step keeps the invariant.
LEMMA PairNextInv ==
  ASSUME PairParameters, PairInv, [Pair!Next]_Pair!vars PROVE PairInv'
<1>1. CASE Pair!Accept
  <2>0. "server" \in Pair!Sides /\ status["server"] = "accept"
        /\ UNCHANGED <<program, Pair!threadVars, Pair!inputVars, size, written, got>>
    BY <1>1 DEF Pair!Sides, Pair!Accept
  <2>1. CASE Pair!Leave("server", "died")
    BY <2>0, <2>1, LeaveInv DEF Pair!Over
  <2>2. CASE status' = [status EXCEPT !["server"] = "running"] /\ UNCHANGED Pair!netVars
    <3>1. UNCHANGED <<program, spc, rpc, running, eof, item, left, size, peer, wire, written, got>>
      BY <2>0, <2>2 DEF Pair!threadVars, Pair!inputVars, Pair!netVars
    <3>2. /\ status' \in [Pair!Sides -> {"accept", "running", "ended", "died"}]
          /\ \A s \in Pair!Sides : \A x \in {"ended", "died"} : status'[s] = x <=> status[s] = x
      BY <2>0, <2>2 DEF PairInv, Pair!TypeOK
    <3>3. \A s \in Pair!Sides : Pair!Other(s) \in Pair!Sides
      BY OtherSide
    <3>4. Pair!TypeOK' /\ PeersGone' /\ Stopped'
      BY <3>1, <3>2, <3>3 DEF PairInv, Pair!TypeOK, PeersGone, Stopped, Pair!Over, Pair!Other
    <3>5. Buffers' /\ OneWay'
      BY <3>1 DEF PairInv, Buffers, OneWay, Pair!Sends, Pair!Receives, Pair!Interactive
    <3>6. Conserved'
      BY <3>1, <3>2, <3>3 DEF PairInv, Conserved, Counted, Pair!Receives, Pair!Sends, Pair!Over,
           Answer, Amount, Pair!Other
    <3>7. LinesKept'
      BY <2>0, <3>1, <3>2 DEF PairInv, LinesKept, Pair!Over
    <3>8. Taken'
      BY <3>1, <3>2, <3>3 DEF PairInv, Taken, Received, Pair!Receives, Pair!Sends, Pair!Whole,
           Pair!Header, Amount, Pair!Other, Counted
    <3> QED
      BY <3>4, <3>5, <3>6, <3>7, <3>8 DEF PairInv
  <2> QED
    BY <1>1, <2>1, <2>2 DEF Pair!Accept
<1>2. ASSUME NEW s \in Pair!Sides,
             Pair!Killed(s) \/ Pair!SendKills(s) \/ Pair!CannotCreate(s) \/ Pair!EndsEarly(s)
      PROVE  PairInv'
  <2>1. /\ Pair!Leave(s, "died") /\ status[s] = "running"
        /\ UNCHANGED <<program, Pair!threadVars, Pair!inputVars, size, written, got>>
    BY <1>2 DEF Pair!Killed, Pair!SendKills, Pair!CannotCreate, Pair!EndsEarly, Pair!Ended, Pair!Up
  <2> QED
    BY <2>1, LeaveInv DEF Pair!Over
<1>3. ASSUME NEW s \in Pair!Sides, Pair!Exits(s) PROVE PairInv'
  <2>1. /\ Pair!Leave(s, "ended") /\ status[s] = "running" /\ spc[s] = "done" /\ rpc[s] # "recv"
        /\ UNCHANGED <<program, Pair!threadVars, Pair!inputVars, size, written, got>>
    BY <1>3 DEF Pair!Exits, Pair!Up
  <2> QED
    BY <2>1, LeaveInv DEF Pair!Over
<1>4. CASE UNCHANGED Pair!vars
  <2>1. UNCHANGED <<program, status, spc, rpc, running, eof, item, left, size, peer, wire, written, got>>
    BY <1>4 DEF Pair!vars, Pair!threadVars, Pair!inputVars, Pair!netVars
  <2>2. Pair!TypeOK' /\ PeersGone' /\ Stopped'
    BY <2>1 DEF PairInv, Pair!TypeOK, PeersGone, Stopped, Pair!Over, Pair!Other
  <2>3. Buffers' /\ OneWay' /\ LinesKept'
    BY <2>1 DEF PairInv, Buffers, OneWay, LinesKept, Pair!Over, Pair!Sends, Pair!Receives,
         Pair!Interactive
  <2>4. Conserved' /\ Taken'
    BY <2>1 DEF PairInv, Conserved, Taken, Received, Counted, Pair!Receives, Pair!Sends, Pair!Over,
         Answer, Amount, Pair!Other, Pair!Whole, Pair!Header
  <2> QED
    BY <2>2, <2>3, <2>4 DEF PairInv
<1> QED
  BY <1>1, <1>2, <1>3, <1>4, ReadInv, SentInv, ReceiveInv, EndInvariant
     DEF Pair!Next, Pair!Sender, Pair!Receiver

\* The invariant holds of all six pairs, whatever the sizes of files and buffers.
THEOREM StreamPairInv == PairParameters => (Pair!Spec => []PairInv)
<1> SUFFICES ASSUME PairParameters PROVE Pair!Spec => []PairInv
  OBVIOUS
<1>1. Pair!Init => PairInv
  BY PairInit
<1>2. PairInv /\ [Pair!Next]_Pair!vars => PairInv'
  BY PairNextInv
<1> QED
  BY <1>1, <1>2, PTL DEF Pair!Spec

\* Type correctness of the six pairs.
THEOREM PairTypesHold == PairParameters => (Pair!Spec => []Pair!TypeOK)
<1> SUFFICES ASSUME PairParameters PROVE Pair!Spec => []Pair!TypeOK
  OBVIOUS
<1>1. PairInv => Pair!TypeOK
  BY DEF PairInv
<1> QED
  BY <1>1, StreamPairInv, PTL

\* CopyWhole: a receiver that ends by itself has the whole file, message or input of the
\* other side, unless that side died or, with a header, whatever became of it.
THEOREM PairCopyWhole == PairParameters => (Pair!Spec => []Pair!CopyWhole)
<1> SUFFICES ASSUME PairParameters PROVE Pair!Spec => []Pair!CopyWhole
  OBVIOUS
<1>1. PairInv => Pair!CopyWhole
  <2> SUFFICES ASSUME PairInv, NEW s \in Pair!Sides, status[s] = "ended", Pair!Receives(s)
               PROVE  /\ program = "framed" => got[s] = Pair!Whole
                      /\ status[Pair!Other(s)] # "died" =>
                           CASE program = "file" -> got[s] = size
                             [] program \in {"message", "answer"} -> got[s] = 1
                             [] program = "lines" ->
                                  rpc[s] = "misled" \/ (spc[Pair!Other(s)] = "done"
                                                          /\ got[s] = written[Pair!Other(s)])
                             [] OTHER -> TRUE
    BY DEF Pair!CopyWhole
  <2>1. Received(s)
    BY DEF PairInv, Stopped, Taken
  <2>2. CASE program \in Counted
    BY <2>1, <2>2 DEF Received, Counted, Amount
  <2>3. CASE program = "lines"
    BY <2>1, <2>3 DEF Received
  <2>4. CASE program \in {"framed", "chat"}
    BY <2>1, <2>4 DEF Received
  <2> QED
    BY <2>2, <2>3, <2>4 DEF PairInv, Pair!TypeOK, Pair!Programs, Pair!Interactive, Counted
<1> QED
  BY <1>1, StreamPairInv, PTL

===============================================================================
