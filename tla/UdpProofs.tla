------------------------------ MODULE UdpProofs ------------------------------
(***************************************************************************)
(* What the UDP programs guarantee: the file transfer, for a file of any   *)
(* length, any number of clients and of lost datagrams; the servers around *)
(* one recvfrom(), for any numbers of clients, lines and datagrams.        *)
(***************************************************************************)
EXTENDS UdpFile, SequenceTheorems, TLAPS

-----------------------------------------------------------------------------
(* The inductive invariant *)

\* The server has a client once it was asked, has sent something when it waits
\* for an acknowledgment, and a client that was told an end has left its loop.
Phases ==
    /\ spc = "request" => client = NoClient /\ sent = 0
    /\ spc # "request" => client \in Clients
    /\ spc = "ack" => sent > 0
    /\ \A c \in Clients : end[c] # "none" => cpc[c] = "done"

\* Nothing is sent to the other clients.
OneServed == \A c \in Clients \ {client} : inbox[c] = <<>> /\ file[c] = <<>>

\* What is on its way to a client comes from behind what it has written, in
\* the order of the file.
Ascending(c) ==
    /\ \A i \in 1 .. Len(file[c]) : file[c][i] <= sent
    /\ \A j \in 1 .. Len(inbox[c]) : inbox[c][j] <= sent
    /\ \A i \in 1 .. Len(file[c]), j \in 1 .. Len(inbox[c]) :
         inbox[c][j] > 0 => file[c][i] < inbox[c][j]
    /\ \A i, j \in 1 .. Len(inbox[c]) :
         i < j /\ inbox[c][j] > 0 => inbox[c][i] < inbox[c][j]
    /\ \A i, j \in 1 .. Len(file[c]) : i < j => file[c][i] < file[c][j]

\* The end marker comes after the last chunk, and any marker is the last thing
\* the server sends.
MarkerLast(c) ==
    \A j \in 1 .. Len(inbox[c]) : inbox[c][j] <= 0 =>
      /\ spc = "done"
      /\ j = Len(inbox[c])
      /\ inbox[c][j] = EofMark => sent = Chunks

\* Chunks on their way to a client.
InFlight(c) ==
    IF inbox[c] # <<>> /\ inbox[c][Len(inbox[c])] <= 0
    THEN Len(inbox[c]) - 1
    ELSE Len(inbox[c])

\* What was sent to a client that still listens was written, is on its way, or
\* was lost.
Accounted(c) ==
    c = client /\ cpc[c] # "done" => sent <= Len(file[c]) + InFlight(c) + lost

Stream(c) == Ascending(c) /\ MarkerLast(c) /\ Accounted(c)

Inv ==
    /\ TypeOK
    /\ Phases
    /\ OneServed
    /\ \A c \in Clients : Stream(c)
    /\ MissesOnlyLost

Datagrams == ErrorMark .. Chunks

USE DEF EofMark, ErrorMark

-----------------------------------------------------------------------------
(* What the calls do *)

\* What recvfrom() takes from a queue and what it leaves.
LEMMA Received ==
  ASSUME NEW S, NEW s \in Seq(S), s # <<>>
  PROVE  /\ Len(s) > 0
         /\ Head(s) \in S
         /\ Head(s) = s[1]
         /\ Tail(s) \in Seq(S)
         /\ Len(Tail(s)) = Len(s) - 1
         /\ \A i \in 1 .. Len(s) - 1 : Tail(s)[i] = s[i + 1]
<1>1. Len(s) > 0 /\ Head(s) = s[1]
  BY EmptySeq
<1> QED
  BY <1>1, HeadTailProperties

\* Every element of a queue that has grown is an old one or the new one.
LEMMA Appended ==
  ASSUME NEW S, NEW s \in Seq(S), NEW d \in S
  PROVE  /\ Len(Append(s, d)) = Len(s) + 1
         /\ \A j \in 1 .. Len(s) + 1 :
              \/ j \in 1 .. Len(s) /\ Append(s, d)[j] = s[j]
              \/ j = Len(s) + 1 /\ Append(s, d)[j] = d
<1>1. Len(s) \in Nat
  BY LenProperties
<1> QED
  BY <1>1, AppendProperties

\* One more was sent, and one more is on its way or was lost.
LEMMA OneMore ==
  ASSUME NEW s \in Nat, NEW written \in Nat, NEW flying \in Nat, NEW missed \in Nat,
         s <= written + flying + missed
  PROVE  /\ s + 1 <= written + (flying + 1) + missed
         /\ s + 1 <= written + flying + (missed + 1)
OBVIOUS

\* What is written is no longer on its way, and losses do not fall.
LEMMA OneWritten ==
  ASSUME NEW s \in Nat, NEW written \in Nat, NEW flying \in Nat,
         NEW missed \in Nat, NEW missed2 \in Nat, missed2 >= missed,
         s <= written + (flying + 1) + missed
  PROVE  s <= (written + 1) + flying + missed2
OBVIOUS

\* What is accounted for bounds what is missing.
LEMMA Missing ==
  ASSUME NEW s \in Nat, NEW written \in Nat, NEW flying \in Nat, NEW missed \in Nat,
         s <= written + flying + missed, NEW k \in Nat, flying <= k
  PROVE  s - written <= missed + k
OBVIOUS

\* A bound on what is missing stays one when more is lost.
LEMMA MissingStill ==
  ASSUME NEW s \in Nat, NEW written \in Nat, NEW missed \in Nat, NEW missed2 \in Nat,
         NEW k \in Nat, missed2 >= missed, s - written <= missed + k
  PROVE  s - written <= missed2 + k
OBVIOUS

\* A queue and a file hold numbers.
LEMMA StreamTypes ==
  ASSUME TypeOK, NEW c \in Clients
  PROVE  /\ sent \in Nat /\ lost \in Nat
         /\ inbox[c] \in Seq(Datagrams) /\ file[c] \in Seq(1 .. Chunks)
         /\ Len(inbox[c]) \in Nat /\ Len(file[c]) \in Nat
         /\ \A j \in 1 .. Len(inbox[c]) : inbox[c][j] \in Int
         /\ \A j \in 1 .. Len(file[c]) : file[c][j] \in Int
<1>1. inbox[c] \in Seq(Datagrams) /\ file[c] \in Seq(1 .. Chunks)
  BY DEF TypeOK, Datagrams
<1>2. Datagrams \subseteq Int /\ 1 .. Chunks \subseteq Int
  BY ChunksAssumption DEF Datagrams
<1>3. /\ \A j \in 1 .. Len(inbox[c]) : inbox[c][j] \in Datagrams
      /\ \A j \in 1 .. Len(file[c]) : file[c][j] \in 1 .. Chunks
  BY <1>1, ElementOfSeq
<1>4. Len(inbox[c]) \in Nat /\ Len(file[c]) \in Nat
  BY <1>1, LenProperties
<1>5. sent \in Nat /\ lost \in Nat
  BY ChunksAssumption DEF TypeOK
<1> QED
  BY <1>1, <1>2, <1>3, <1>4, <1>5

\* sendto() to a client queues the datagram, drops it at a client that has
\* exited, or loses it.
LEMMA SentToClient ==
  ASSUME TypeOK, NEW c \in Clients, NEW d \in Datagrams, SendToClient(c, d)
  PROVE  /\ inbox' \in [Clients -> Seq(Datagrams)] /\ lost' \in Nat
         /\ \A b \in Clients \ {c} : inbox'[b] = inbox[b]
         /\ \/ inbox'[c] = Append(inbox[c], d) /\ lost' = lost
            \/ inbox'[c] = inbox[c] /\ lost' = lost /\ cpc[c] = "done"
            \/ inbox'[c] = inbox[c] /\ lost' = lost + 1
<1>1. Append(inbox[c], d) \in Seq(Datagrams)
  BY DEF TypeOK, Datagrams
<1>2. CASE /\ inbox' = IF cpc[c] = "done" THEN inbox ELSE [inbox EXCEPT ![c] = Append(@, d)]
           /\ UNCHANGED lost
  BY <1>1, <1>2 DEF TypeOK, Datagrams
<1>3. CASE Loses /\ UNCHANGED inbox
  BY <1>3 DEF TypeOK, Datagrams, Loses
<1> QED
  BY <1>2, <1>3 DEF SendToClient

\* sendto() to the server changes nothing but its mailbox and the count of
\* what was lost, which does not fall.
LEMMA SentToServer ==
  ASSUME TypeOK, NEW c \in Clients, SendToServer(c)
  PROVE  mailbox' \in Seq(Clients) /\ lost' \in Nat /\ lost' >= lost
<1>1. CASE mailbox' = (IF spc = "done" THEN mailbox ELSE Append(mailbox, c)) /\ UNCHANGED lost
  BY <1>1 DEF TypeOK
<1>2. CASE Loses /\ UNCHANGED mailbox
  BY <1>2 DEF TypeOK, Loses
<1> QED
  BY <1>1, <1>2 DEF SendToServer

-----------------------------------------------------------------------------
(* Type correctness *)

\* Both programs start with every variable in its type.
LEMMA InitTypes == Init => TypeOK
<1> SUFFICES ASSUME Init PROVE TypeOK
  OBVIOUS
<1>1. sent \in 0 .. Chunks /\ swait \in 0 .. AckWait
  BY ChunksAssumption DEF Init, AckWait
<1>2. file \in [Clients -> Seq(1 .. Chunks)] /\ inbox \in [Clients -> Seq(ErrorMark .. Chunks)]
  BY DEF Init
<1>3. cwait \in [Clients -> 0 .. RecvWait] /\ mailbox \in Seq(Clients) /\ lost \in Nat
  BY DEF Init, RecvWait
<1> QED
  BY <1>1, <1>2, <1>3 DEF Init, TypeOK

\* The server's steps keep the types: it sends to a client it knows.
LEMMA ServerTypes ==
  ASSUME TypeOK, Phases, Server PROVE TypeOK'
<1> USE DEF TypeOK, clientVars, netVars
<1>1. CASE ServerRequest
  BY <1>1, Received DEF ServerRequest, Server
<1>2. CASE ServerOpen \/ ServerNoAck
  BY <1>2 DEF ServerOpen, ServerNoAck, Server
<1>3. CASE ServerAck
  <2>1. mailbox' \in Seq(Clients)
    BY <1>3, Received DEF ServerAck
  <2>2. sent \in 1 .. Chunks
    BY <1>3, ChunksAssumption DEF ServerAck, Phases
  <2>3. UNCHANGED <<client, sent, swait, clientVars, inbox, lost, lastChunk, slow>>
        /\ spc' = "send"
    BY <1>3 DEF ServerAck, Server
  <2> QED
    BY <2>1, <2>2, <2>3
<1>4. CASE ServerOpenFails \/ ServerEnd
  <2>1. client \in Clients
    BY <1>4 DEF ServerOpenFails, ServerEnd, Phases
  <2>2. inbox' \in [Clients -> Seq(Datagrams)] /\ lost' \in Nat
    <3>1. PICK d \in Datagrams : SendToClient(client, d)
      BY <1>4, ChunksAssumption DEF ServerOpenFails, ServerEnd, Datagrams
    <3> HIDE DEF TypeOK
    <3> QED
      BY <2>1, <3>1, SentToClient
  <2> QED
    BY <1>4, <2>2 DEF ServerOpenFails, ServerEnd, Server, Datagrams
<1>5. CASE ServerSend
  <2>1. client \in Clients /\ sent + 1 \in 1 .. Chunks
    BY <1>5, ChunksAssumption DEF ServerSend, Phases
  <2>2. inbox' \in [Clients -> Seq(Datagrams)] /\ lost' \in Nat
    <3>1. sent + 1 \in Datagrams /\ SendToClient(client, sent + 1)
      BY <1>5, <2>1, ChunksAssumption DEF ServerSend, Datagrams
    <3> HIDE DEF TypeOK
    <3> QED
      BY <2>1, <3>1, SentToClient
  <2> QED
    BY <1>5, <2>1, <2>2 DEF ServerSend, Server, Datagrams, AckWait
<1> QED
  BY <1>1, <1>2, <1>3, <1>4, <1>5 DEF Server

\* A client's steps keep the types: what is no marker is a chunk.
LEMMA ClientTypes ==
  ASSUME TypeOK, NEW c \in Clients, Start(c) \/ Client(c) PROVE TypeOK'
<1> USE DEF TypeOK, serverVars
<1>1. CASE ClientStart(c)
  BY <1>1, SentToServer DEF Start, Client, ClientStart
<1>2. CASE ClientData(c)
  <2>1. Head(inbox[c]) \in Datagrams /\ Tail(inbox[c]) \in Seq(Datagrams)
    <3>1. inbox[c] \in Seq(Datagrams) /\ inbox[c] # <<>>
      BY <1>2 DEF ClientData, Datagrams
    <3> QED
      BY <3>1, Received
  <2>2. Head(inbox[c]) \in 1 .. Chunks
    <3>1. Head(inbox[c]) # EofMark /\ Head(inbox[c]) # ErrorMark
      BY <1>2 DEF ClientData, IsEof, IsError
    <3> HIDE DEF TypeOK
    <3> QED
      BY <2>1, <3>1, ChunksAssumption DEF Datagrams
  <2>3. /\ file' \in [Clients -> Seq(1 .. Chunks)]
        /\ inbox' \in [Clients -> Seq(Datagrams)]
    BY <1>2, <2>1, <2>2 DEF ClientData, Datagrams
  <2>4. mailbox' \in Seq(Clients) /\ lost' \in Nat
    BY <1>2, SentToServer DEF ClientData
  <2>5. cwait' \in [Clients -> 0 .. RecvWait]
    BY <1>2 DEF ClientData, RecvWait
  <2>6. UNCHANGED <<serverVars, cpc, end, lastChunk, slow>>
    BY <1>2 DEF Start, Client, ClientData
  <2> QED
    BY <2>3, <2>4, <2>5, <2>6 DEF Datagrams
<1>3. CASE ClientEof(c) \/ ClientError(c) \/ ClientTimeout(c)
  <2>1. PICK why \in {"eof", "error", "timeout"} : Ends(c, why)
    BY <1>3 DEF ClientEof, ClientError, ClientTimeout
  <2>2. /\ cpc' \in [Clients -> {"start", "recv", "done"}]
        /\ end' \in [Clients -> {"none", "eof", "error", "timeout"}]
        /\ inbox' \in [Clients -> Seq(ErrorMark .. Chunks)]
    BY <2>1 DEF Ends
  <2>3. UNCHANGED <<serverVars, file, cwait, mailbox, lost, lastChunk, slow>>
    BY <1>3 DEF Start, Client, ClientEof, ClientError, ClientTimeout
  <2> QED
    BY <2>2, <2>3
<1> HIDE DEF TypeOK
<1> QED
  BY <1>1, <1>2, <1>3 DEF Start, Client

\* Time passes only while a timer is below its limit.
LEMMA TickTypes == TypeOK /\ Tick => TypeOK'
BY DEF TypeOK, Tick, ServerWaits, ClientWaits, AckWait, RecvWait, netVars

\* Every step keeps the types.
LEMMA NextTypes ==
  ASSUME TypeOK, Phases, [Next]_vars PROVE TypeOK'
<1>1. CASE UNCHANGED vars
  BY <1>1 DEF TypeOK, vars, serverVars, clientVars, netVars
<1> QED
  BY <1>1, ServerTypes, ClientTypes, TickTypes DEF Next

-----------------------------------------------------------------------------
(* The invariant *)

\* Nothing was sent to anybody.
LEMMA InitInv == Init => Inv
<1> SUFFICES ASSUME Init PROVE Inv
  OBVIOUS
<1>1. Phases /\ OneServed /\ MissesOnlyLost
  BY DEF Init, Phases, OneServed, MissesOnlyLost
<1>2. ASSUME NEW c \in Clients PROVE Stream(c)
  <2>1. inbox[c] = <<>> /\ file[c] = <<>> /\ Len(inbox[c]) = 0 /\ Len(file[c]) = 0
        /\ sent = 0 /\ lost = 0
    BY DEF Init
  <2> QED
    BY <2>1 DEF Stream, Ascending, MarkerLast, Accounted, InFlight
<1> QED
  BY <1>1, <1>2, InitTypes DEF Inv

\* The server learns its client with the request and never changes it.
LEMMA NextPhases ==
  ASSUME TypeOK, Phases, [Next]_vars PROVE Phases'
<1> USE DEF Phases
<1>1. CASE ServerRequest
  <2>1. Head(mailbox) \in Clients
    BY <1>1, Received DEF ServerRequest, TypeOK
  <2> QED
    BY <1>1, <2>1 DEF ServerRequest, clientVars
<1>2. CASE ServerOpen \/ ServerOpenFails \/ ServerAck \/ ServerNoAck \/ ServerEnd
  BY <1>2 DEF ServerOpen, ServerOpenFails, ServerAck, ServerNoAck, ServerEnd, clientVars
<1>3. CASE ServerSend
  BY <1>3 DEF ServerSend, clientVars, TypeOK
<1>4. ASSUME NEW c \in Clients, Start(c) PROVE Phases'
  BY <1>4 DEF Start, ClientStart, serverVars, TypeOK
<1>5. ASSUME NEW c \in Clients, Client(c) PROVE Phases'
  BY <1>5 DEF Client, ClientData, ClientEof, ClientError, ClientTimeout, Ends, serverVars, TypeOK
<1>6. CASE Tick \/ UNCHANGED vars
  BY <1>6 DEF Tick, vars, serverVars, clientVars
<1> QED
  BY <1>1, <1>2, <1>3, <1>4, <1>5, <1>6 DEF Next, Server

\* A step that touches neither the stream to a client nor its file keeps them
\* in agreement.
LEMMA Undisturbed ==
  ASSUME TypeOK, TypeOK', NEW c \in Clients, Stream(c),
         inbox'[c] = inbox[c], file'[c] = file[c], sent' = sent, lost' >= lost,
         spc = "done" => spc' = "done", c = client' => c = client,
         cpc[c] = "done" => cpc'[c] = "done"
  PROVE  Stream(c)'
<1>1. Ascending(c)'
  BY DEF Stream, Ascending
<1>2. MarkerLast(c)'
  BY DEF Stream, MarkerLast
<1>3. Accounted(c)'
  <2>1. InFlight(c)' = InFlight(c) /\ InFlight(c) \in Int
    BY DEF InFlight, TypeOK
  <2> QED
    BY <2>1 DEF Stream, Accounted, TypeOK
<1> QED
  BY <1>1, <1>2, <1>3 DEF Stream

\* A client that leaves its loop has nothing more on its way.
LEMMA LeftLoop ==
  ASSUME TypeOK, TypeOK', NEW c \in Clients, Stream(c),
         inbox'[c] = <<>>, file'[c] = file[c], sent' = sent, cpc'[c] = "done"
  PROVE  Stream(c)'
<1>1. Len(inbox'[c]) = 0
  OBVIOUS
<1> QED
  BY <1>1 DEF Stream, Ascending, MarkerLast, Accounted

\* A client that is not served has nothing in its queue and in its file.
LEMMA NotServed ==
  ASSUME TypeOK, TypeOK', OneServed, NEW c \in Clients, c # client',
         inbox'[c] = <<>>, file'[c] = <<>>
  PROVE  Stream(c)'
<1>1. Len(inbox'[c]) = 0 /\ Len(file'[c]) = 0
  OBVIOUS
<1> QED
  BY <1>1 DEF Stream, Ascending, MarkerLast, Accounted

\* A chunk that is sent comes after all that were.
LEMMA ChunkSent ==
  ASSUME Inv, TypeOK', ServerSend, NEW c \in Clients PROVE Stream(c)'
<1>1. /\ client \in Clients /\ client' = client /\ file' = file /\ cpc' = cpc
      /\ spc = "send" /\ spc' = "ack" /\ sent' = sent + 1
      /\ SendToClient(client, sent + 1) /\ sent + 1 \in Datagrams
  BY ChunksAssumption DEF Inv, TypeOK, Phases, ServerSend, clientVars, Datagrams
<1>2. /\ \A b \in Clients \ {client} : inbox'[b] = inbox[b]
      /\ \/ inbox'[client] = Append(inbox[client], sent + 1) /\ lost' = lost
         \/ inbox'[client] = inbox[client] /\ lost' = lost /\ cpc[client] = "done"
         \/ inbox'[client] = inbox[client] /\ lost' = lost + 1
  BY <1>1, SentToClient DEF Inv
<1>3. CASE c # client
  BY <1>1, <1>2, <1>3, NotServed DEF Inv, OneServed
<1>4. CASE c = client
  <2>1. /\ Stream(c) /\ file'[c] = file[c] /\ sent \in Nat /\ lost \in Nat
        /\ inbox[c] \in Seq(Datagrams)
        /\ Len(inbox[c]) \in Nat /\ Len(file[c]) \in Nat
        /\ \A j \in 1 .. Len(inbox[c]) : inbox[c][j] \in Int
        /\ \A j \in 1 .. Len(file[c]) : file[c][j] \in Int
    BY <1>1, StreamTypes DEF Inv
  <2>2. \A j \in 1 .. Len(inbox[c]) : inbox[c][j] > 0
    BY <1>1, <2>1 DEF Stream, MarkerLast, Datagrams
  <2>3. InFlight(c) = Len(inbox[c])
    BY <2>1, <2>2 DEF InFlight, Datagrams
  <2>4. CASE inbox'[c] = Append(inbox[c], sent + 1) /\ lost' = lost
    <3>1. /\ Len(inbox'[c]) = Len(inbox[c]) + 1
          /\ \A j \in 1 .. Len(inbox'[c]) :
               \/ j \in 1 .. Len(inbox[c]) /\ inbox'[c][j] = inbox[c][j]
               \/ j = Len(inbox[c]) + 1 /\ inbox'[c][j] = sent + 1
      BY <1>1, <2>1, <2>4, Appended
    <3>2. \A j \in 1 .. Len(inbox'[c]) : inbox'[c][j] \in Int /\ inbox'[c][j] > 0
      BY <2>1, <2>2, <3>1
    <3>3. InFlight(c)' = Len(inbox[c]) + 1
      BY <2>1, <3>1, <3>2 DEF InFlight
    <3>4. MarkerLast(c)'
      BY <3>2 DEF MarkerLast
    <3>5. Accounted(c)'
      <4>1. cpc[c] # "done" => sent <= Len(file[c]) + Len(inbox[c]) + lost
        BY <1>4, <2>1, <2>3 DEF Stream, Accounted
      <4>2. Len(file'[c]) = Len(file[c]) /\ lost' = lost
        BY <2>1, <2>4
      <4>3. cpc[c] # "done" => sent + 1 <= Len(file[c]) + (Len(inbox[c]) + 1) + lost
        <5>1. sent \in Nat /\ lost \in Nat /\ Len(inbox[c]) \in Nat /\ Len(file[c]) \in Nat
          BY <2>1
        <5> QED
          BY <4>1, <5>1, OneMore
      <4> QED
        BY <1>1, <3>3, <4>2, <4>3 DEF Accounted
    <3>6. Ascending(c)'
      <4> USE DEF Stream, Ascending
      <4>1. \A i \in 1 .. Len(file'[c]) : file'[c][i] <= sent'
        BY <1>1, <2>1
      <4>2. ASSUME NEW j \in 1 .. Len(inbox'[c]) PROVE inbox'[c][j] <= sent'
        <5>1. CASE j \in 1 .. Len(inbox[c]) /\ inbox'[c][j] = inbox[c][j]
          <6>1. inbox[c][j] \in Int /\ inbox[c][j] <= sent
            BY <2>1, <5>1
          <6> QED
            BY <1>1, <2>1, <5>1, <6>1
        <5>2. CASE inbox'[c][j] = sent + 1
          BY <1>1, <2>1, <5>2
        <5> QED
          BY <3>1, <5>1, <5>2
      <4>3. ASSUME NEW i \in 1 .. Len(file'[c]), NEW j \in 1 .. Len(inbox'[c]), inbox'[c][j] > 0
            PROVE  file'[c][i] < inbox'[c][j]
        <5>1. file'[c][i] = file[c][i] /\ file[c][i] \in Int /\ file[c][i] <= sent
          BY <2>1
        <5>2. CASE j \in 1 .. Len(inbox[c]) /\ inbox'[c][j] = inbox[c][j]
          BY <2>1, <4>3, <5>1, <5>2
        <5>3. CASE inbox'[c][j] = sent + 1
          BY <2>1, <5>1, <5>3
        <5> QED
          BY <3>1, <5>2, <5>3
      <4>4. ASSUME NEW i \in 1 .. Len(inbox'[c]), NEW j \in 1 .. Len(inbox'[c]), i < j
            PROVE  inbox'[c][i] < inbox'[c][j]
        <5>1. i \in 1 .. Len(inbox[c]) /\ inbox'[c][i] = inbox[c][i]
          BY <2>1, <3>1, <4>4
        <5>2. inbox[c][i] \in Int /\ inbox[c][i] <= sent
          BY <2>1, <5>1
        <5>3. CASE j \in 1 .. Len(inbox[c]) /\ inbox'[c][j] = inbox[c][j]
          BY <2>1, <2>2, <4>4, <5>1, <5>3
        <5>4. CASE inbox'[c][j] = sent + 1
          BY <2>1, <5>1, <5>2, <5>4
        <5> QED
          BY <3>1, <5>3, <5>4
      <4> QED
        BY <2>1, <4>1, <4>2, <4>3, <4>4
    <3> QED
      BY <3>4, <3>5, <3>6 DEF Stream
  <2>5. CASE inbox'[c] = inbox[c] /\ (lost' = lost + 1 \/ (cpc[c] = "done" /\ lost' = lost))
    <3>1. InFlight(c)' = InFlight(c)
      BY <2>5 DEF InFlight
    <3>2. Accounted(c)'
      <4>1. cpc[c] # "done" => sent <= Len(file[c]) + Len(inbox[c]) + lost /\ lost' = lost + 1
        BY <1>4, <2>1, <2>3, <2>5 DEF Stream, Accounted
      <4>2. sent \in Nat /\ lost \in Nat /\ Len(inbox[c]) \in Nat /\ Len(file[c]) \in Nat
        BY <2>1
      <4>3. cpc[c] # "done" => sent + 1 <= Len(file[c]) + Len(inbox[c]) + (lost + 1)
        BY <4>1, <4>2, OneMore
      <4> QED
        BY <1>1, <2>1, <2>3, <3>1, <4>1, <4>3 DEF Accounted
    <3>3. Ascending(c)' /\ MarkerLast(c)'
      BY <1>1, <2>1, <2>2, <2>5 DEF Stream, Ascending, MarkerLast, Datagrams
    <3> QED
      BY <3>2, <3>3 DEF Stream
  <2>6. \/ inbox'[c] = Append(inbox[c], sent + 1) /\ lost' = lost
        \/ inbox'[c] = inbox[c] /\ (lost' = lost + 1 \/ (cpc[c] = "done" /\ lost' = lost))
    BY <1>2, <1>4
  <2> QED
    BY <2>4, <2>5, <2>6
<1> QED
  BY <1>3, <1>4

\* A marker is the last thing that is sent, and the end of the file is marked
\* after the last chunk.
LEMMA MarkerSent ==
  ASSUME Inv, TypeOK', ServerEnd \/ ServerOpenFails, NEW c \in Clients PROVE Stream(c)'
<1>1. PICK d \in {EofMark, ErrorMark} :
        /\ SendToClient(client, d)
        /\ d = EofMark => sent = Chunks
  BY DEF ServerEnd, ServerOpenFails
<1>2. /\ client \in Clients /\ client' = client /\ file' = file /\ cpc' = cpc
      /\ spc # "done" /\ spc' = "done" /\ sent' = sent /\ d \in Datagrams
  BY ChunksAssumption DEF Inv, TypeOK, Phases, ServerEnd, ServerOpenFails, clientVars, Datagrams
<1>3. /\ \A b \in Clients \ {client} : inbox'[b] = inbox[b]
      /\ \/ inbox'[client] = Append(inbox[client], d) /\ lost' = lost
         \/ inbox'[client] = inbox[client] /\ lost' >= lost
  <2>1. lost \in Nat
    BY DEF Inv, TypeOK
  <2> QED
    BY <1>1, <1>2, <2>1, SentToClient DEF Inv
<1>4. CASE c # client
  BY <1>2, <1>3, <1>4, NotServed DEF Inv, OneServed
<1>5. CASE c = client /\ inbox'[c] = inbox[c] /\ lost' >= lost
  BY <1>2, <1>5, Undisturbed DEF Inv
<1>6. CASE c = client /\ inbox'[c] = Append(inbox[c], d) /\ lost' = lost
  <2>1. /\ Stream(c) /\ file'[c] = file[c] /\ sent \in Nat /\ lost \in Nat
        /\ inbox[c] \in Seq(Datagrams)
        /\ Len(inbox[c]) \in Nat /\ Len(file[c]) \in Nat
        /\ \A j \in 1 .. Len(inbox[c]) : inbox[c][j] \in Int
        /\ \A j \in 1 .. Len(file[c]) : file[c][j] \in Int
    BY <1>2, StreamTypes DEF Inv
  <2>2. \A j \in 1 .. Len(inbox[c]) : inbox[c][j] > 0
    BY <1>2, <2>1 DEF Stream, MarkerLast, Datagrams
  <2>3. /\ Len(inbox'[c]) = Len(inbox[c]) + 1
        /\ \A j \in 1 .. Len(inbox'[c]) :
             \/ j \in 1 .. Len(inbox[c]) /\ inbox'[c][j] = inbox[c][j]
             \/ j = Len(inbox[c]) + 1 /\ inbox'[c][j] = d
    BY <1>2, <1>6, <2>1, Appended
  <2>4. InFlight(c) = Len(inbox[c])
    BY <2>1, <2>2 DEF InFlight, Datagrams
  <2>5. InFlight(c)' = Len(inbox[c])
    BY <2>1, <2>3 DEF InFlight
  <2>6. MarkerLast(c)'
    <3>1. ASSUME NEW j \in 1 .. Len(inbox'[c]), inbox'[c][j] <= 0
          PROVE  j = Len(inbox[c]) + 1
      BY <2>1, <2>2, <2>3, <3>1
    <3> QED
      BY <1>1, <1>2, <2>3, <3>1 DEF MarkerLast
  <2>7. Accounted(c)'
    BY <1>2, <1>6, <2>1, <2>4, <2>5 DEF Stream, Accounted
  <2>8. Ascending(c)'
    <3> USE DEF Stream, Ascending
    <3>1. d \in Int /\ d <= 0
      BY <1>1
    <3>2. \A j \in 1 .. Len(inbox'[c]) : inbox'[c][j] <= sent'
      <4>1. \A j \in 1 .. Len(inbox[c]) : inbox[c][j] <= sent
        BY <2>1
      <4>2. d <= sent /\ sent' = sent
        BY <1>2, <2>1, <3>1
      <4> QED
        BY <2>3, <4>1, <4>2
    <3>3. ASSUME NEW j \in 1 .. Len(inbox'[c]), inbox'[c][j] > 0
          PROVE  j \in 1 .. Len(inbox[c]) /\ inbox'[c][j] = inbox[c][j]
      BY <2>3, <3>1, <3>3
    <3>4. ASSUME NEW i \in 1 .. Len(file'[c]), NEW j \in 1 .. Len(inbox'[c]), inbox'[c][j] > 0
          PROVE  file'[c][i] < inbox'[c][j]
      BY <2>1, <3>3, <3>4
    <3>5. ASSUME NEW i \in 1 .. Len(inbox'[c]), NEW j \in 1 .. Len(inbox'[c]),
                 i < j, inbox'[c][j] > 0
          PROVE  inbox'[c][i] < inbox'[c][j]
      <4>1. j \in 1 .. Len(inbox[c]) /\ inbox'[c][j] = inbox[c][j]
        BY <3>3, <3>5
      <4>2. i \in 1 .. Len(inbox[c]) /\ inbox'[c][i] = inbox[c][i]
        BY <2>1, <2>3, <3>5, <4>1
      <4> QED
        BY <2>1, <3>5, <4>1, <4>2
    <3> QED
      BY <1>2, <2>1, <3>2, <3>4, <3>5
  <2> QED
    BY <2>6, <2>7, <2>8 DEF Stream
<1> QED
  BY <1>3, <1>4, <1>5, <1>6

\* What a client writes comes after what it has written and before what is on
\* its way.
LEMMA ChunkWritten ==
  ASSUME Inv, TypeOK', NEW c \in Clients, ClientData(c), NEW b \in Clients PROVE Stream(b)'
<1>1. /\ spc' = spc /\ sent' = sent /\ client' = client /\ cpc' = cpc
      /\ inbox[c] # <<>>
      /\ inbox' = [inbox EXCEPT ![c] = Tail(@)]
      /\ file' = [file EXCEPT ![c] = Append(@, Head(inbox[c]))]
      /\ Head(inbox[c]) # EofMark /\ Head(inbox[c]) # ErrorMark
      /\ lost' >= lost
  BY SentToServer DEF ClientData, serverVars, IsEof, IsError, Inv
<1>2. CASE b # c
  <2>1. inbox'[b] = inbox[b] /\ file'[b] = file[b]
    BY <1>1, <1>2 DEF Inv, TypeOK
  <2> QED
    BY <1>1, <2>1, Undisturbed DEF Inv
<1>3. CASE b = c
  <2> DEFINE n == Len(inbox[c])
             m == Len(file[c])
             h == inbox[c][1]
  <2>1. /\ Stream(c) /\ sent \in Nat /\ lost \in Nat /\ lost' \in Nat
        /\ inbox[c] \in Seq(Datagrams) /\ file[c] \in Seq(1 .. Chunks)
        /\ n \in Nat /\ m \in Nat
        /\ \A j \in 1 .. n : inbox[c][j] \in Int
        /\ \A j \in 1 .. m : file[c][j] \in Int
    BY StreamTypes DEF Inv, TypeOK
  <2>2. /\ n > 0 /\ Head(inbox[c]) = h
        /\ Len(inbox'[c]) = n - 1
        /\ \A j \in 1 .. n - 1 : inbox'[c][j] = inbox[c][j + 1]
    <3>1. inbox'[c] = Tail(inbox[c])
      BY <1>1 DEF Inv, TypeOK
    <3> QED
      BY <1>1, <2>1, <3>1, Received
  <2>3. h \in 1 .. Chunks
    <3>1. h \in Datagrams
      BY <1>1, <2>1, <2>2, Received
    <3> QED
      BY <1>1, <2>2, <3>1, ChunksAssumption DEF Datagrams
  <2>4. /\ Len(file'[c]) = m + 1
        /\ \A i \in 1 .. m + 1 :
             \/ i \in 1 .. m /\ file'[c][i] = file[c][i]
             \/ i = m + 1 /\ file'[c][i] = h
    <3>1. file'[c] = Append(file[c], h)
      BY <1>1, <2>2 DEF Inv, TypeOK
    <3> QED
      BY <2>1, <2>3, <3>1, Appended
  <2>5. /\ h <= sent /\ 1 \in 1 .. n
        /\ \A i \in 1 .. m : file[c][i] < h
        /\ \A j \in 1 .. n : j > 1 /\ inbox[c][j] > 0 => h < inbox[c][j]
    BY <2>1, <2>2, <2>3 DEF Stream, Ascending
  <2>6. Ascending(c)'
    <3> USE DEF Stream, Ascending
    <3>1. ASSUME NEW i \in 1 .. Len(file'[c]) PROVE file'[c][i] <= sent'
      BY <1>1, <2>1, <2>4, <2>5
    <3>2. ASSUME NEW j \in 1 .. Len(inbox'[c])
          PROVE  j + 1 \in 1 .. n /\ inbox'[c][j] = inbox[c][j + 1]
      BY <2>1, <2>2
    <3>3. ASSUME NEW j \in 1 .. Len(inbox'[c]) PROVE inbox'[c][j] <= sent'
      BY <1>1, <2>1, <3>2
    <3>4. ASSUME NEW i \in 1 .. Len(file'[c]), NEW j \in 1 .. Len(inbox'[c]), inbox'[c][j] > 0
          PROVE  file'[c][i] < inbox'[c][j]
      <4>1. j + 1 \in 1 .. n /\ inbox'[c][j] = inbox[c][j + 1] /\ j + 1 > 1
        BY <2>1, <2>2, <3>2
      <4>2. h < inbox'[c][j]
        BY <2>5, <3>4, <4>1
      <4>3. CASE i \in 1 .. m /\ file'[c][i] = file[c][i]
        BY <2>1, <3>4, <4>1, <4>3
      <4>4. CASE file'[c][i] = h
        BY <4>2, <4>4
      <4> QED
        BY <2>4, <4>3, <4>4
    <3>5. ASSUME NEW i \in 1 .. Len(inbox'[c]), NEW j \in 1 .. Len(inbox'[c]),
                 i < j, inbox'[c][j] > 0
          PROVE  inbox'[c][i] < inbox'[c][j]
      <4>1. i + 1 \in 1 .. n /\ j + 1 \in 1 .. n /\ i + 1 < j + 1
        BY <2>1, <3>2, <3>5
      <4>2. inbox'[c][i] = inbox[c][i + 1] /\ inbox'[c][j] = inbox[c][j + 1]
        BY <3>2
      <4> QED
        BY <2>1, <3>5, <4>1, <4>2
    <3>6. ASSUME NEW i \in 1 .. Len(file'[c]), NEW j \in 1 .. Len(file'[c]), i < j
          PROVE  file'[c][i] < file'[c][j]
      <4>1. i \in 1 .. m /\ file'[c][i] = file[c][i]
        BY <2>1, <2>4, <3>6
      <4>2. CASE j \in 1 .. m /\ file'[c][j] = file[c][j]
        BY <2>1, <3>6, <4>1, <4>2
      <4>3. CASE file'[c][j] = h
        BY <2>5, <4>1, <4>3
      <4> QED
        BY <2>4, <4>2, <4>3
    <3> QED
      BY <3>1, <3>3, <3>4, <3>5, <3>6
  <2>7. MarkerLast(c)'
    <3>1. ASSUME NEW j \in 1 .. Len(inbox'[c]), inbox'[c][j] <= 0
          PROVE  /\ spc = "done" /\ j = n - 1
                 /\ inbox'[c][j] = EofMark => sent = Chunks
      <4>1. j + 1 \in 1 .. n /\ inbox'[c][j] = inbox[c][j + 1] /\ j \in Int
        BY <2>1, <2>2
      <4>2. spc = "done" /\ j + 1 = n /\ (inbox[c][j + 1] = EofMark => sent = Chunks)
        BY <2>1, <3>1, <4>1 DEF Stream, MarkerLast
      <4> QED
        BY <2>1, <4>1, <4>2
    <3> QED
      BY <1>1, <2>2, <3>1 DEF MarkerLast
  <2>8. InFlight(c) = InFlight(c)' + 1 /\ InFlight(c)' \in Nat
    <3>1. CASE n = 1
      <4>1. inbox[c][n] \in Int /\ inbox[c][n] > 0
        BY <2>3, <3>1
      <4>2. inbox'[c] \in Seq(Datagrams) /\ Len(inbox'[c]) = 0
        BY <2>2, <3>1 DEF TypeOK, Datagrams
      <4>3. inbox'[c] = <<>>
        BY <4>2, EmptySeq
      <4> QED
        BY <3>1, <4>1, <4>2, <4>3 DEF InFlight
    <3>2. CASE n > 1
      <4>1. n - 1 \in 1 .. n - 1 /\ (n - 1) + 1 = n
        <5>1. n \in Nat
          BY <2>1
        <5> HIDE DEF n
        <5> QED
          BY <3>2, <5>1
      <4>2. inbox'[c][n - 1] = inbox[c][n]
        BY <2>2, <4>1
      <4>3. inbox'[c] # <<>>
        BY <2>2, <3>2, EmptySeq DEF TypeOK
      <4> QED
        BY <1>1, <2>1, <2>2, <3>2, <4>2, <4>3 DEF InFlight
    <3>3. n = 1 \/ n > 1
      <4>1. n \in Nat /\ n > 0
        BY <2>1, <2>2
      <4> HIDE DEF n
      <4> QED
        BY <4>1
    <3> QED
      BY <3>1, <3>2, <3>3
  <2>9. Accounted(c)'
    <3>1. c = client /\ cpc[c] # "done" => sent <= m + InFlight(c) + lost
      BY <2>1 DEF Stream, Accounted
    <3>2. c = client /\ cpc[c] # "done" => sent <= (m + 1) + InFlight(c)' + lost'
      BY <1>1, <2>1, <2>8, <3>1, OneWritten
    <3> QED
      BY <1>1, <2>4, <3>2 DEF Accounted
  <2> QED
    BY <1>3, <2>6, <2>7, <2>9 DEF Stream
<1> QED
  BY <1>2, <1>3

\* Every step keeps streams and files in agreement.
LEMMA NextStreams ==
  ASSUME Inv, TypeOK', [Next]_vars, NEW c \in Clients PROVE Stream(c)'
<1>1. CASE ServerRequest
  <2>1. Len(file[c]) \in Nat /\ InFlight(c) \in Nat /\ lost \in Nat
    <3>1. inbox[c] \in Seq(Datagrams) /\ (inbox[c] # <<>> => Len(inbox[c]) \in Nat \ {0})
      BY StreamTypes, EmptySeq DEF Inv
    <3> QED
      BY <3>1, StreamTypes DEF Inv, InFlight
  <2>2. sent = 0 /\ UNCHANGED <<sent, file, cpc, inbox, lost>> /\ spc = "request"
    BY <1>1 DEF ServerRequest, Inv, Phases, clientVars
  <2>3. InFlight(c)' = InFlight(c)
    BY <2>2 DEF InFlight
  <2>4. Accounted(c)'
    BY <2>1, <2>2, <2>3 DEF Accounted
  <2>5. Ascending(c)' /\ MarkerLast(c)'
    BY <2>2 DEF Inv, Stream, Ascending, MarkerLast
  <2> QED
    BY <2>4, <2>5 DEF Stream
<1>2. CASE ServerOpen \/ ServerAck \/ ServerNoAck
  <2>1. /\ UNCHANGED <<sent, client, file, cpc, inbox, lost>>
        /\ spc # "done" /\ lost \in Nat
    BY <1>2 DEF ServerOpen, ServerAck, ServerNoAck, clientVars, netVars, Inv, TypeOK
  <2> QED
    BY <2>1, Undisturbed DEF Inv
<1>3. ASSUME NEW b \in Clients, ClientStart(b) PROVE Stream(c)'
  <2>1. /\ UNCHANGED <<spc, sent, client, file, inbox>> /\ lost' >= lost
        /\ (cpc[c] = "done" => cpc'[c] = "done")
    BY <1>3, SentToServer DEF ClientStart, serverVars, Inv, TypeOK
  <2> QED
    BY <2>1, Undisturbed DEF Inv
<1>4. ASSUME NEW b \in Clients, ClientEof(b) \/ ClientError(b) \/ ClientTimeout(b)
      PROVE  Stream(c)'
  <2>1. /\ UNCHANGED <<spc, sent, client, file, lost>> /\ lost \in Nat
        /\ cpc' = [cpc EXCEPT ![b] = "done"]
        /\ inbox' = [inbox EXCEPT ![b] = <<>>]
    BY <1>4 DEF ClientEof, ClientError, ClientTimeout, Ends, serverVars, Inv, TypeOK
  <2>2. CASE b = c
    BY <2>1, <2>2, LeftLoop DEF Inv, TypeOK
  <2>3. CASE b # c
    <3>1. inbox'[c] = inbox[c] /\ cpc'[c] = cpc[c]
      BY <2>1, <2>3 DEF Inv, TypeOK
    <3> QED
      BY <2>1, <3>1, Undisturbed DEF Inv
  <2> QED
    BY <2>2, <2>3
<1>5. CASE Tick \/ UNCHANGED vars
  <2>1. UNCHANGED <<spc, client, sent, cpc, file, inbox, lost>> /\ lost \in Nat
    BY <1>5 DEF Tick, netVars, serverVars, clientVars, vars, Inv, TypeOK
  <2> QED
    BY <2>1, Undisturbed DEF Inv
<1>6. CASE Server
  BY <1>1, <1>2, <1>6, ChunkSent, MarkerSent DEF Server
<1>7. ASSUME NEW b \in Clients, Start(b) \/ Client(b) PROVE Stream(c)'
  BY <1>3, <1>4, <1>7, ChunkWritten DEF Start, Client
<1> QED
  BY <1>5, <1>6, <1>7 DEF Next

\* Nobody but the client that is served gets or writes anything.
LEMMA NextServed ==
  ASSUME Inv, [Next]_vars PROVE OneServed'
<1> SUFFICES ASSUME NEW c \in Clients \ {client'} PROVE inbox'[c] = <<>> /\ file'[c] = <<>>
  BY DEF OneServed
<1> USE DEF Inv
<1>1. CASE ServerRequest
  BY <1>1, NoClientAssumption DEF ServerRequest, clientVars, OneServed, Phases
<1>2. CASE ServerOpen \/ ServerAck \/ ServerNoAck \/ Tick \/ UNCHANGED vars
  BY <1>2 DEF ServerOpen, ServerAck, ServerNoAck, Tick, clientVars, netVars, serverVars, vars,
       OneServed
<1>3. CASE ServerSend \/ ServerEnd \/ ServerOpenFails
  <2>1. client \in Clients /\ client' = client /\ file' = file
    BY <1>3 DEF ServerSend, ServerEnd, ServerOpenFails, Phases, clientVars
  <2>2. PICK d \in Datagrams : SendToClient(client, d)
    BY <1>3, ChunksAssumption
       DEF ServerSend, ServerEnd, ServerOpenFails, TypeOK, Datagrams
  <2> QED
    BY <2>1, <2>2, SentToClient DEF OneServed
<1>4. ASSUME NEW b \in Clients, Start(b) PROVE inbox'[c] = <<>> /\ file'[c] = <<>>
  BY <1>4 DEF Start, ClientStart, serverVars, OneServed
<1>5. ASSUME NEW b \in Clients, ClientData(b) PROVE inbox'[c] = <<>> /\ file'[c] = <<>>
  <2>1. c # b
    BY <1>5 DEF ClientData, serverVars, OneServed
  <2> QED
    BY <1>5, <2>1 DEF ClientData, serverVars, OneServed, TypeOK
<1>6. ASSUME NEW b \in Clients, ClientEof(b) \/ ClientError(b) \/ ClientTimeout(b)
      PROVE  inbox'[c] = <<>> /\ file'[c] = <<>>
  BY <1>6 DEF ClientEof, ClientError, ClientTimeout, Ends, serverVars, OneServed, TypeOK
<1> QED
  BY <1>1, <1>2, <1>3, <1>4, <1>5, <1>6 DEF Next, Server, Client

\* A client that takes what it has received for the end marker has all chunks
\* that were not lost, but for one that reads like the marker.
LEMMA EofTold ==
  ASSUME Inv, NEW c \in Clients, ClientEof(c)
  PROVE  Chunks - Len(file[c]) <= lost + (IF lastChunk = "EOF" THEN 1 ELSE 0)
<1> DEFINE n == Len(inbox[c])
           h == inbox[c][1]
           k == IF lastChunk = "EOF" THEN 1 ELSE 0
<1>1. /\ Stream(c) /\ cpc[c] # "done" /\ inbox[c] # <<>> /\ c = client
      /\ inbox[c] \in Seq(Datagrams) /\ sent \in Nat /\ sent <= Chunks /\ lost \in Nat
      /\ n \in Nat /\ Len(file[c]) \in Nat
      /\ \A j \in 1 .. n : inbox[c][j] \in Int
  <2>1. Stream(c) /\ cpc[c] # "done" /\ inbox[c] # <<>> /\ c = client
    BY DEF Inv, OneServed, ClientEof
  <2>2. sent <= Chunks
    BY ChunksAssumption DEF Inv, TypeOK
  <2> QED
    BY <2>1, <2>2, StreamTypes DEF Inv
<1>2. n > 0 /\ 1 \in 1 .. n /\ (h = EofMark \/ (h > 0 /\ h = Chunks /\ lastChunk = "EOF"))
  <2>1. n > 0 /\ Head(inbox[c]) = h
    BY <1>1, Received
  <2> QED
    BY <1>1, <2>1 DEF ClientEof, IsEof
<1>3. /\ \A j \in 1 .. n : inbox[c][j] <= sent
      /\ \A i, j \in 1 .. n : i < j /\ inbox[c][j] > 0 => inbox[c][i] < inbox[c][j]
      /\ \A j \in 1 .. n : inbox[c][j] <= 0 =>
           j = n /\ (inbox[c][j] = EofMark => sent = Chunks)
  BY <1>1 DEF Stream, Ascending, MarkerLast
<1>4. InFlight(c) = IF inbox[c][n] <= 0 THEN n - 1 ELSE n
  BY <1>1 DEF InFlight
<1> HIDE DEF n
<1>5. sent = Chunks
  BY <1>1, <1>2, <1>3, ChunksAssumption
<1>6. InFlight(c) \in Nat /\ InFlight(c) <= k
  <2>1. CASE h = EofMark
    <3>1. n = 1 /\ inbox[c][n] <= 0
      BY <1>2, <1>3, <2>1
    <3> QED
      BY <1>4, <3>1
  <2>2. CASE h > 0 /\ h = Chunks /\ lastChunk = "EOF"
    <3>1. ASSUME NEW j \in 1 .. n, j > 1 PROVE j = n /\ inbox[c][j] <= 0
      <4>1. ~ (inbox[c][j] > 0)
        BY <1>1, <1>2, <1>3, <1>5, <2>2, <3>1
      <4> QED
        BY <1>1, <1>3, <4>1
    <3>2. n = 1 \/ (n = 2 /\ inbox[c][n] <= 0)
      <4>1. CASE n >= 2
        BY <1>1, <3>1, <4>1
      <4> QED
        BY <1>1, <1>2, <4>1
    <3> QED
      BY <1>2, <1>4, <2>2, <3>2
  <2> QED
    BY <1>2, <2>1, <2>2
<1>7. sent <= Len(file[c]) + InFlight(c) + lost
  BY <1>1 DEF Stream, Accounted
<1>8. k \in Nat
  OBVIOUS
<1> QED
  BY <1>1, <1>5, <1>6, <1>7, <1>8, Missing

\* Who has been told the end of the file writes nothing more, and what was lost
\* stays lost.
LEMMA NextMisses ==
  ASSUME Inv, TypeOK', [Next]_vars PROVE MissesOnlyLost'
<1> SUFFICES ASSUME NEW c \in Clients, end'[c] = "eof"
             PROVE  Chunks - Len(file'[c]) <= lost' + (IF lastChunk' = "EOF" THEN 1 ELSE 0)
  BY DEF MissesOnlyLost
<1> DEFINE k == IF lastChunk = "EOF" THEN 1 ELSE 0
<1>1. Len(file[c]) \in Nat /\ lost \in Nat /\ lost' \in Nat /\ k \in Nat
  BY StreamTypes DEF Inv, TypeOK
<1>2. lastChunk' = lastChunk
  BY DEF Next, Server, Start, Client, Tick, vars
<1>3. CASE end[c] = "eof" /\ file'[c] = file[c] /\ lost' >= lost
  <2>1. Chunks - Len(file[c]) <= lost + k
    BY <1>3 DEF Inv, MissesOnlyLost
  <2>2. Chunks - Len(file[c]) <= lost' + k
    BY <1>1, <1>3, <2>1, ChunksAssumption, MissingStill
  <2> QED
    BY <1>2, <1>3, <2>2
<1>4. CASE Server
  <2>1. end' = end /\ file' = file
    BY <1>4 DEF Server, ServerRequest, ServerOpen, ServerOpenFails, ServerSend, ServerAck,
         ServerNoAck, ServerEnd, clientVars
  <2>2. lost' >= lost
    <3>1. CASE ServerSend \/ ServerEnd \/ ServerOpenFails
      <4>1. PICK d \in Datagrams : SendToClient(client, d) /\ client \in Clients
        BY <3>1, ChunksAssumption
           DEF ServerSend, ServerEnd, ServerOpenFails, Inv, Phases, TypeOK, Datagrams
      <4> QED
        BY <1>1, <4>1, SentToClient DEF Inv
    <3> QED
      BY <1>1, <1>4, <3>1
         DEF Server, ServerRequest, ServerOpen, ServerAck, ServerNoAck, netVars
  <2> QED
    BY <1>3, <2>1, <2>2
<1>5. ASSUME NEW b \in Clients, ClientStart(b)
      PROVE  Chunks - Len(file'[c]) <= lost' + (IF lastChunk' = "EOF" THEN 1 ELSE 0)
  BY <1>3, <1>5, SentToServer DEF ClientStart, Inv
<1>6. ASSUME NEW b \in Clients, ClientData(b)
      PROVE  Chunks - Len(file'[c]) <= lost' + (IF lastChunk' = "EOF" THEN 1 ELSE 0)
  <2>1. end[c] = "eof" /\ c # b
    BY <1>6 DEF ClientData, Inv, Phases
  <2>2. file'[c] = file[c] /\ lost' >= lost
    BY <1>6, <2>1, SentToServer DEF ClientData, Inv, TypeOK
  <2> QED
    BY <1>3, <2>1, <2>2
<1>7. ASSUME NEW b \in Clients, ClientEof(b) \/ ClientError(b) \/ ClientTimeout(b)
      PROVE  Chunks - Len(file'[c]) <= lost' + (IF lastChunk' = "EOF" THEN 1 ELSE 0)
  <2>1. file' = file /\ lost' = lost
    BY <1>7 DEF ClientEof, ClientError, ClientTimeout
  <2>2. CASE ClientEof(b) /\ b = c
    BY <1>2, <2>1, <2>2, EofTold
  <2>3. CASE end[c] = "eof"
    BY <1>1, <1>3, <2>1, <2>3
  <2>4. (ClientEof(b) /\ b = c) \/ end[c] = "eof"
    BY <1>7 DEF ClientEof, ClientError, ClientTimeout, Ends, Inv, TypeOK
  <2> QED
    BY <2>2, <2>3, <2>4
<1>8. CASE Tick \/ UNCHANGED vars
  BY <1>1, <1>3, <1>8 DEF Tick, netVars, vars, clientVars
<1> QED
  BY <1>4, <1>5, <1>6, <1>7, <1>8 DEF Next, Start, Client

\* The inductive invariant holds in every reachable state.
THEOREM InvHolds == Spec => []Inv
<1>1. Inv /\ [Next]_vars => Inv'
  <2> SUFFICES ASSUME Inv, [Next]_vars PROVE Inv'
    OBVIOUS
  <2>1. TypeOK' /\ Phases'
    BY NextTypes, NextPhases DEF Inv
  <2>2. OneServed' /\ MissesOnlyLost'
    BY <2>1, NextServed, NextMisses
  <2>3. \A c \in Clients : Stream(c)'
    BY <2>1, NextStreams
  <2> QED
    BY <2>1, <2>2, <2>3 DEF Inv
<1> QED
  BY InitInv, <1>1, PTL DEF Spec

\* Every variable of both programs keeps its type.
THEOREM TypeCorrect == Spec => []TypeOK
<1>1. Inv => TypeOK
  BY DEF Inv
<1> QED
  BY InvHolds, <1>1, PTL

\* What a client writes is in the order of the file and holds no chunk twice,
\* for any file, any losses and any timing.
THEOREM WritesInOrder == Spec => []InOrder
<1>1. Inv => InOrder
  <2> SUFFICES ASSUME Inv, NEW c \in Clients
               PROVE  \A i, j \in DOMAIN file[c] : i < j => file[c][i] < file[c][j]
    BY DEF InOrder
  <2>1. DOMAIN file[c] = 1 .. Len(file[c])
    BY LenProperties DEF Inv, TypeOK
  <2> QED
    BY <2>1 DEF Inv, Stream, Ascending
<1> QED
  BY InvHolds, <1>1, PTL

\* A client that was told the file has ended misses no more chunks than
\* datagrams were lost, and a last chunk that reads like the marker.
THEOREM MissesNoMore == Spec => []MissesOnlyLost
<1>1. Inv => MissesOnlyLost
  BY DEF Inv
<1> QED
  BY InvHolds, <1>1, PTL

-----------------------------------------------------------------------------
(* How long a client waits *)

\* The server was asked and has more to send.
Afoot == spc \notin {"request", "done"}

\* The chunk the server waits to see acknowledged, and how long it has waited
\* with nothing to take for the acknowledgment.
Owed == IF spc = "ack" THEN 1 ELSE 0
Waited == IF spc = "ack" /\ mailbox = <<>> THEN swait ELSE 0

\* Datagrams that were lost or wait at either side, but for the one the server
\* owes its wait to: each of them stands for at most one of its timeouts.
Spare(c) == lost + Len(mailbox) + Len(inbox[c]) - Owed

Asking(c) == \E i \in 1 .. Len(mailbox) : mailbox[i] = c

\* A client has waited no longer than the timeouts its losses explain.
Unhurried(c) ==
    /\ cpc[c] = "start" => cwait[c] = 0
    /\ spc = "request" /\ Asking(c) => cpc[c] = "recv" /\ cwait[c] = 0
    /\ Afoot /\ c = client =>
         /\ cpc[c] # "start"
         /\ cpc[c] = "recv" => Spare(c) >= 0 /\ cwait[c] <= 2 * Spare(c) + Waited
         /\ cpc[c] = "recv" /\ cwait[c] = RecvWait => lost >= 3
         /\ end[c] = "timeout" => lost >= 3

Patience == ~slow => \A c \in Clients : Unhurried(c)

\* The counters of a wait are small numbers.
LEMMA WaitTypes ==
  ASSUME TypeOK, NEW c \in Clients
  PROVE  /\ lost \in Nat /\ Len(mailbox) \in Nat /\ Len(inbox[c]) \in Nat
         /\ swait \in 0 .. 2 /\ cwait[c] \in 0 .. 5
         /\ Owed \in 0 .. 1 /\ Waited \in 0 .. 2
<1>1. lost \in Nat /\ Len(mailbox) \in Nat /\ swait \in 0 .. 2 /\ cwait[c] \in 0 .. 5
  BY LenProperties DEF TypeOK, AckWait, RecvWait
<1>2. Len(inbox[c]) \in Nat
  BY StreamTypes
<1> QED
  BY <1>1, <1>2 DEF Owed, Waited

\* Sums of what was lost, what waits at the server and what waits at a client.
LEMMA Sums ==
  ASSUME NEW l \in Nat, NEW m \in Nat, NEW i \in Nat, NEW o \in 0 .. 1
  PROVE  /\ l + m + i - o \in Int
         /\ (l + 1) + m + i - o = (l + m + i - o) + 1
         /\ l + (m + 1) + i - o = (l + m + i - o) + 1
         /\ (l + 1) + m + i - 1 = l + m + i - 0
         /\ l + m + (i + 1) - 1 = l + m + i - 0
OBVIOUS

\* One less waits at a client, and one more was lost or waits at the server.
LEMMA Exchanged ==
  ASSUME NEW l \in Nat, NEW l2 \in Nat, NEW m \in Nat, NEW m2 \in Nat,
         NEW i \in Nat, NEW o \in 0 .. 1,
         (l2 = l /\ m2 = m + 1) \/ (l2 = l + 1 /\ m2 = m)
  PROVE  l2 + m2 + i - o = l + m + (i + 1) - o /\ l2 >= l
OBVIOUS

\* The client whose request the server takes has not waited yet.
LEMMA RequestUnhurried ==
  ASSUME Inv, TypeOK', ServerRequest, NEW c \in Clients, Unhurried(c)
  PROVE  Unhurried(c)'
<1>1. /\ cpc' = cpc /\ cwait' = cwait /\ end' = end /\ lost' = lost /\ inbox' = inbox
      /\ spc = "request" /\ spc' = "open" /\ client' = Head(mailbox)
  BY DEF ServerRequest, clientVars
<1>2. CASE c # client'
  BY <1>1, <1>2 DEF Unhurried
<1>3. CASE c = client'
  <2>1. Asking(c)
    <3>1. mailbox \in Seq(Clients) /\ mailbox # <<>>
      BY DEF Inv, TypeOK, ServerRequest
    <3>2. Len(mailbox) > 0 /\ Head(mailbox) = mailbox[1] /\ Len(mailbox) \in Nat
      BY <3>1, Received, LenProperties
    <3> QED
      BY <1>1, <1>3, <3>2 DEF Asking
  <2>2. cpc[c] = "recv" /\ cwait[c] = 0 /\ end[c] # "timeout"
    BY <1>1, <2>1 DEF Unhurried, Inv, Phases
  <2>3. Spare(c)' >= 0 /\ Waited' = 0 /\ Spare(c)' \in Int
    <3>1. lost' \in Nat /\ Len(mailbox') \in Nat /\ Len(inbox'[c]) \in Nat
      BY LenProperties DEF TypeOK
    <3>2. Owed' = 0 /\ Waited' = 0
      BY <1>1 DEF Owed, Waited
    <3> QED
      BY <3>1, <3>2 DEF Spare
  <2> QED
    BY <1>1, <2>2, <2>3 DEF Unhurried, RecvWait
<1> QED
  BY <1>2, <1>3

\* A chunk that is sent is on its way or lost, and the server owes its wait to
\* it; an answer it takes, or a wait that ends with none, pays that back.
LEMMA ServerUnhurried ==
  ASSUME Inv, TypeOK', ServerSend \/ ServerAck \/ ServerNoAck \/ ServerOpen,
         NEW c \in Clients, Unhurried(c)
  PROVE  Unhurried(c)'
<1>1. /\ cpc' = cpc /\ cwait' = cwait /\ end' = end /\ client' = client
      /\ spc # "request" /\ Afoot /\ spc' # "request"
  BY DEF ServerSend, ServerAck, ServerNoAck, ServerOpen, clientVars, Afoot
<1>2. CASE c # client \/ cpc[c] = "start"
  BY <1>1, <1>2 DEF Unhurried
<1>3. CASE c = client /\ cpc[c] # "start"
  <2>1. /\ lost \in Nat /\ Len(mailbox) \in Nat /\ Len(inbox[c]) \in Nat
        /\ swait \in 0 .. 2 /\ cwait[c] \in 0 .. 5 /\ lost' \in Nat
    BY WaitTypes DEF Inv, TypeOK
  <2>2. lost' >= lost /\ (cpc[c] = "recv" => /\ Spare(c)' >= 0
                                             /\ cwait[c] <= 2 * Spare(c)' + Waited')
    <3>1. CASE ServerSend
      <4>1. /\ SendToClient(client, sent + 1) /\ sent + 1 \in Datagrams
            /\ spc = "send" /\ spc' = "ack" /\ mailbox' = mailbox /\ swait' = 0
        <5>1. sent + 1 \in Datagrams
          <6>1. sent < Chunks /\ sent \in 0 .. Chunks
            BY <3>1 DEF ServerSend, Inv, TypeOK
          <6>2. sent + 1 \in ErrorMark .. Chunks
            BY <6>1, ChunksAssumption DEF ErrorMark
          <6> QED
            BY <6>2 DEF Datagrams
        <5> QED
          BY <3>1, <5>1 DEF ServerSend
      <4>2. \/ inbox'[c] = Append(inbox[c], sent + 1) /\ lost' = lost
            \/ inbox'[c] = inbox[c] /\ lost' = lost /\ cpc[c] = "done"
            \/ inbox'[c] = inbox[c] /\ lost' = lost + 1
        BY <1>3, <4>1, SentToClient DEF Inv
      <4>3. inbox'[c] = Append(inbox[c], sent + 1) => Len(inbox'[c]) = Len(inbox[c]) + 1
        BY <4>1, Appended DEF Inv, TypeOK, Datagrams
      <4>4. Owed = 0 /\ Waited = 0 /\ Owed' = 1 /\ Waited' = 0
        BY <4>1 DEF Owed, Waited
      <4>5. cpc[c] = "recv" => Spare(c)' = Spare(c) /\ Spare(c) \in Int
        <5>1. Spare(c)' = lost' + Len(mailbox) + Len(inbox'[c]) - 1
          BY <4>1, <4>4 DEF Spare
        <5>2. Spare(c) = lost + Len(mailbox) + Len(inbox[c]) - 0
          BY <4>4 DEF Spare
        <5>3. 0 \in 0 .. 1
          OBVIOUS
        <5>4. Spare(c) \in Int
          BY <2>1, <5>2, <5>3, Sums
        <5>5. CASE lost' = lost /\ Len(inbox'[c]) = Len(inbox[c]) + 1
          BY <2>1, <5>1, <5>2, <5>4, <5>5, Sums
        <5>6. CASE lost' = lost + 1 /\ inbox'[c] = inbox[c]
          <6>1. Spare(c)' = (lost + 1) + Len(mailbox) + Len(inbox[c]) - 1
            BY <5>1, <5>6
          <6> QED
            BY <2>1, <5>2, <5>3, <5>4, <6>1, Sums
        <5> QED
          BY <4>2, <4>3, <5>5, <5>6
      <4>6. lost' >= lost
        BY <2>1, <4>2
      <4> QED
        BY <1>1, <1>3, <2>1, <4>4, <4>5, <4>6 DEF Unhurried
    <3>2. CASE ServerAck
      <4>1. /\ mailbox # <<>> /\ mailbox' = Tail(mailbox) /\ inbox' = inbox /\ lost' = lost
            /\ spc = "ack" /\ spc' = "send"
        BY <3>2 DEF ServerAck
      <4>2. Len(mailbox') = Len(mailbox) - 1
        BY <4>1, Received DEF Inv, TypeOK
      <4>3. Owed = 1 /\ Waited = 0 /\ Owed' = 0 /\ Waited' = 0
        BY <4>1 DEF Owed, Waited
      <4>4. Spare(c)' = Spare(c) /\ Spare(c) \in Int
        BY <2>1, <4>1, <4>2, <4>3 DEF Spare
      <4> QED
        BY <1>1, <1>3, <2>1, <4>1, <4>3, <4>4 DEF Unhurried
    <3>3. CASE ServerNoAck \/ ServerOpen
      <4>1. /\ mailbox' = mailbox /\ inbox' = inbox /\ lost' = lost
            /\ (spc = "ack" /\ swait = 2) \/ spc = "open"
            /\ spc' = "send"
        BY <3>3 DEF ServerNoAck, ServerOpen, netVars, AckWait
      <4>2. Owed' = 0 /\ Waited' = 0 /\ Waited <= 2 * Owed /\ Owed \in 0 .. 1 /\ Waited \in 0 .. 2
        BY <4>1 DEF Owed, Waited
      <4>3. Spare(c)' = Spare(c) + Owed /\ Spare(c) \in Int
        BY <2>1, <4>1, <4>2 DEF Spare
      <4>4. cpc[c] = "recv" => Spare(c) >= 0 /\ cwait[c] <= 2 * Spare(c) + Waited
        BY <1>1, <1>3 DEF Unhurried
      <4> QED
        BY <2>1, <4>1, <4>2, <4>3, <4>4
    <3> QED
      BY <3>1, <3>2, <3>3
  <2>3. (cpc[c] = "recv" /\ cwait[c] = RecvWait) \/ end[c] = "timeout" => lost' >= 3
    <3>1. (cpc[c] = "recv" /\ cwait[c] = RecvWait) \/ end[c] = "timeout" => lost >= 3
      BY <1>1, <1>3 DEF Unhurried
    <3> QED
      BY <2>1, <2>2, <3>1
  <2> QED
    BY <1>1, <1>3, <2>2, <2>3 DEF Unhurried
<1> QED
  BY <1>2, <1>3

\* A request of another client is in the mailbox or lost, and either can spare
\* the server one wait.
LEMMA StartUnhurried ==
  ASSUME Inv, TypeOK', NEW b \in Clients, ClientStart(b), NEW c \in Clients, Unhurried(c)
  PROVE  Unhurried(c)'
<1>1. /\ UNCHANGED <<spc, client, swait, end, cwait, inbox>>
      /\ cpc[b] = "start" /\ cpc' = [cpc EXCEPT ![b] = "recv"]
      /\ SendToServer(b)
  BY DEF ClientStart, serverVars
<1>2. CASE b = c
  <2>1. cpc[c] = "start" /\ cpc'[c] = "recv" /\ cwait'[c] = 0
    BY <1>1, <1>2 DEF Unhurried, Inv, TypeOK
  <2>2. ~ (Afoot /\ c = client)
    BY <2>1 DEF Unhurried
  <2> QED
    BY <1>1, <2>1, <2>2 DEF Unhurried, Afoot
<1>3. CASE b # c
  <2>1. cpc'[c] = cpc[c] /\ cwait'[c] = cwait[c]
    BY <1>1, <1>3 DEF Inv, TypeOK
  <2>2. /\ lost \in Nat /\ Len(mailbox) \in Nat /\ Len(inbox[c]) \in Nat
        /\ swait \in 0 .. 2 /\ cwait[c] \in 0 .. 5 /\ lost' \in Nat
        /\ Owed \in 0 .. 1 /\ Waited \in 0 .. 2
    BY WaitTypes DEF Inv, TypeOK
  <2>3. CASE lost' = lost + 1 /\ mailbox' = mailbox
    <3>1. Asking(c)' = Asking(c) /\ Afoot' = Afoot /\ Owed' = Owed /\ Waited' = Waited
      BY <1>1, <2>3 DEF Asking, Afoot, Owed, Waited
    <3>2. Spare(c)' = Spare(c) + 1 /\ Spare(c) \in Int
      <4>1. Spare(c)' = lost' + Len(mailbox') + Len(inbox'[c]) - Owed'
        BY DEF Spare
      <4>2. Spare(c)' = (lost + 1) + Len(mailbox) + Len(inbox[c]) - Owed
        BY <1>1, <2>3, <3>1, <4>1
      <4> QED
        BY <2>2, <4>2, Sums DEF Spare
    <3> QED
      BY <1>1, <2>1, <2>2, <2>3, <3>1, <3>2 DEF Unhurried
  <2>4. CASE lost' = lost /\ mailbox' = Append(mailbox, b) /\ spc # "done"
    <3>1. mailbox \in Seq(Clients)
      BY DEF Inv, TypeOK
    <3>2. /\ Len(mailbox') = Len(mailbox) + 1
          /\ \A j \in 1 .. Len(mailbox) + 1 :
               \/ j \in 1 .. Len(mailbox) /\ mailbox'[j] = mailbox[j]
               \/ j = Len(mailbox) + 1 /\ mailbox'[j] = b
      BY <2>4, <3>1, Appended
    <3>3. Asking(c)' => Asking(c)
      BY <1>3, <3>2 DEF Asking
    <3>4. Owed' = Owed /\ Waited' = 0 /\ Afoot' = Afoot
      <4>1. mailbox' # <<>>
        BY <2>2, <3>2
      <4> QED
        BY <1>1, <4>1 DEF Owed, Waited, Afoot
    <3>5. Spare(c)' = Spare(c) + 1 /\ Spare(c) \in Int
      <4>1. Spare(c)' = lost' + Len(mailbox') + Len(inbox'[c]) - Owed'
        BY DEF Spare
      <4>2. Spare(c)' = lost + (Len(mailbox) + 1) + Len(inbox[c]) - Owed
        BY <1>1, <2>4, <3>2, <3>4, <4>1
      <4> QED
        BY <2>2, <4>2, Sums DEF Spare
    <3> QED
      BY <1>1, <2>1, <2>2, <2>4, <3>3, <3>4, <3>5 DEF Unhurried
  <2>5. CASE spc = "done"
    BY <1>1, <2>1, <2>5 DEF Unhurried, Afoot
  <2> QED
    BY <1>1, <2>3, <2>4, <2>5 DEF SendToServer, Loses
<1> QED
  BY <1>2, <1>3

\* A client that writes a chunk starts its wait afresh, and its acknowledgment
\* takes the chunk's place.
LEMMA DataUnhurried ==
  ASSUME Inv, TypeOK', NEW b \in Clients, ClientData(b), NEW c \in Clients, Unhurried(c)
  PROVE  Unhurried(c)'
<1>1. /\ UNCHANGED <<spc, client, swait, end, cpc>>
      /\ b = client /\ spc # "request"
      /\ cwait' = [cwait EXCEPT ![b] = 0]
      /\ inbox' = [inbox EXCEPT ![b] = Tail(@)]
      /\ inbox[b] # <<>> /\ SendToServer(b) /\ cpc[b] = "recv"
  BY NoClientAssumption DEF ClientData, serverVars, Inv, OneServed, Phases
<1>2. CASE c # b
  BY <1>1, <1>2 DEF Unhurried, Inv, TypeOK
<1>3. CASE c = b
  <2>1. cwait'[c] = 0 /\ inbox'[c] = Tail(inbox[c])
    BY <1>1, <1>3 DEF Inv, TypeOK
  <2>2. /\ lost \in Nat /\ Len(mailbox) \in Nat /\ Len(inbox[c]) \in Nat
        /\ lost' \in Nat /\ Owed \in 0 .. 1 /\ Len(mailbox') \in Nat
    BY WaitTypes, LenProperties DEF Inv, TypeOK
  <2>3. Len(inbox'[c]) = Len(inbox[c]) - 1
    BY <1>1, <1>3, <2>1, StreamTypes, Received DEF Inv
  <2>4. Owed' = Owed /\ Waited' \in 0 .. 2
    <3>1. Waited' \in 0 .. 2
      BY DEF Waited, TypeOK, AckWait
    <3> QED
      BY <1>1, <3>1 DEF Owed
  <2>5. CASE Afoot
    <3>1. \/ lost' = lost /\ Len(mailbox') = Len(mailbox) + 1
          \/ lost' = lost + 1 /\ Len(mailbox') = Len(mailbox)
      <4>1. mailbox \in Seq(Clients)
        BY DEF Inv, TypeOK
      <4>2. \/ mailbox' = Append(mailbox, b) /\ lost' = lost
            \/ mailbox' = mailbox /\ lost' = lost + 1
        BY <1>1, <2>5 DEF SendToServer, Loses, Afoot
      <4>3. mailbox' = Append(mailbox, b) => Len(mailbox') = Len(mailbox) + 1
        BY <4>1, Appended
      <4> QED
        BY <4>2, <4>3
    <3>2. Spare(c)' = Spare(c) /\ Spare(c) \in Int /\ lost' >= lost
      <4> DEFINE k == Len(inbox'[c])
      <4>1. k \in Nat /\ Len(inbox[c]) = k + 1
        BY <2>2, <2>3, StreamTypes, LenProperties DEF TypeOK
      <4>2. Spare(c)' = lost' + Len(mailbox') + k - Owed
        BY <2>4 DEF Spare
      <4>3. Spare(c) = lost + Len(mailbox) + (k + 1) - Owed
        BY <4>1 DEF Spare
      <4>4. k + 1 \in Nat
        BY <4>1
      <4> HIDE DEF k
      <4>5. Spare(c) \in Int
        BY <2>2, <4>3, <4>4, Sums
      <4>6. CASE lost' = lost /\ Len(mailbox') = Len(mailbox) + 1
        BY <2>2, <4>1, <4>2, <4>3, <4>5, <4>6, Exchanged
      <4>7. CASE lost' = lost + 1 /\ Len(mailbox') = Len(mailbox)
        BY <2>2, <4>1, <4>2, <4>3, <4>5, <4>7, Exchanged
      <4> QED
        BY <3>1, <4>6, <4>7
    <3>3. /\ Spare(c) >= 0
          /\ end[c] = "timeout" => lost >= 3
      BY <1>1, <1>3, <2>5 DEF Unhurried
    <3> QED
      BY <1>1, <1>3, <2>1, <2>2, <2>4, <3>2, <3>3 DEF Unhurried, RecvWait
  <2>6. CASE ~ Afoot
    BY <1>1, <1>3, <2>1, <2>6 DEF Unhurried, Afoot
  <2> QED
    BY <2>5, <2>6
<1> QED
  BY <1>2, <1>3

\* A client that is served gives up only after the losses that explain it, and
\* none gives up before the server has taken its request.
LEMMA EndUnhurried ==
  ASSUME Inv, TypeOK', NEW b \in Clients, ClientEof(b) \/ ClientError(b) \/ ClientTimeout(b),
         NEW c \in Clients, Unhurried(c)
  PROVE  Unhurried(c)'
<1>1. /\ UNCHANGED <<spc, client, swait, cwait, mailbox, lost>>
      /\ cpc[b] = "recv" /\ cpc' = [cpc EXCEPT ![b] = "done"]
      /\ inbox' = [inbox EXCEPT ![b] = <<>>]
      /\ \/ inbox[b] # <<>> /\ end' \in {[end EXCEPT ![b] = "eof"], [end EXCEPT ![b] = "error"]}
         \/ cwait[b] = RecvWait /\ end' = [end EXCEPT ![b] = "timeout"]
  BY DEF ClientEof, ClientError, ClientTimeout, Ends, serverVars
<1>2. CASE b # c
  <2>1. cpc'[c] = cpc[c] /\ inbox'[c] = inbox[c] /\ end'[c] = end[c]
    BY <1>1, <1>2 DEF Inv, TypeOK
  <2>2. Spare(c)' = Spare(c) /\ Waited' = Waited /\ Asking(c)' = Asking(c) /\ Afoot' = Afoot
    BY <1>1, <2>1 DEF Spare, Owed, Waited, Asking, Afoot
  <2> QED
    BY <1>1, <2>1, <2>2 DEF Unhurried
<1>3. CASE b = c
  <2>1. /\ cpc'[c] = "done"
        /\ \/ inbox[c] # <<>> /\ end'[c] # "timeout"
           \/ cwait[c] = RecvWait
    BY <1>1, <1>3 DEF Inv, TypeOK
  <2>2. ~ (spc = "request" /\ Asking(c))
    <3> SUFFICES ASSUME spc = "request", Asking(c) PROVE FALSE
      OBVIOUS
    <3>1. cwait[c] = 0 /\ inbox[c] = <<>>
      BY NoClientAssumption DEF Unhurried, Inv, Phases, OneServed
    <3> QED
      BY <2>1, <3>1 DEF RecvWait
  <2>3. Asking(c)' = Asking(c) /\ Afoot' = Afoot
    BY <1>1 DEF Asking, Afoot
  <2>4. Afoot /\ c = client /\ end'[c] = "timeout" => lost >= 3
    BY <1>1, <1>3, <2>1 DEF Unhurried
  <2> QED
    BY <1>1, <2>1, <2>2, <2>3, <2>4 DEF Unhurried
<1> QED
  BY <1>2, <1>3

\* While nobody is slow, time passes for a client only while the server waits
\* too.
LEMMA TickUnhurried ==
  ASSUME Inv, TypeOK', Tick, Quiet, NEW c \in Clients, Unhurried(c)
  PROVE  Unhurried(c)'
<1>1. /\ UNCHANGED <<spc, client, cpc, end, mailbox, inbox, lost>>
      /\ swait' = (IF ServerWaits THEN swait + 1 ELSE swait)
      /\ cwait'[c] = (IF ClientWaits(c) THEN cwait[c] + 1 ELSE cwait[c])
  BY DEF Tick, netVars
<1>2. /\ lost \in Nat /\ Len(mailbox) \in Nat /\ Len(inbox[c]) \in Nat
      /\ swait \in 0 .. 2 /\ cwait[c] \in 0 .. 5
  BY WaitTypes DEF Inv
<1>3. cpc[c] = "start" => cwait'[c] = 0
  BY <1>1 DEF Unhurried, ClientWaits
<1>4. spc = "request" => ~ Asking(c)
  <2>1. spc = "request" => mailbox = <<>>
    BY DEF Quiet, ServerWaits
  <2> QED
    BY <2>1 DEF Asking
<1>5. Asking(c)' = Asking(c) /\ Afoot' = Afoot
  BY <1>1 DEF Asking, Afoot
<1>6. CASE ~ (Afoot /\ c = client)
  BY <1>1, <1>3, <1>4, <1>5, <1>6 DEF Unhurried
<1>7. CASE Afoot /\ c = client
  <2>1. spc = "ack" /\ mailbox = <<>> /\ swait < 2 /\ swait' = swait + 1
    BY <1>1, <1>7 DEF Afoot, Quiet, ServerWaits, AckWait
  <2>2. Len(mailbox) = 0 /\ Owed = 1 /\ Owed' = 1 /\ Waited = swait /\ Waited' = swait + 1
    BY <1>1, <2>1 DEF Owed, Waited
  <2>3. Spare(c)' = Spare(c)
    BY <1>1, <2>2 DEF Spare
  <2>4. /\ cpc[c] # "start" /\ (end[c] = "timeout" => lost >= 3)
        /\ cpc[c] = "recv" => Spare(c) >= 0 /\ cwait[c] <= 2 * Spare(c) + Waited
    BY <1>7 DEF Unhurried
  <2>5. ASSUME cpc[c] = "recv"
        PROVE  /\ cwait'[c] <= 2 * Spare(c) + (swait + 1)
               /\ cwait'[c] = RecvWait => lost >= 3
    <3>1. inbox[c] = <<>> /\ cwait'[c] = cwait[c] + 1
      BY <1>1, <2>5 DEF Quiet, ClientWaits
    <3>2. Len(inbox[c]) = 0 /\ Spare(c) = lost - 1
      BY <1>2, <2>2, <3>1 DEF Spare
    <3> QED
      BY <1>2, <2>1, <2>2, <2>4, <2>5, <3>1, <3>2 DEF RecvWait
  <2> QED
    <3>1. cpc[c] = "recv" => Spare(c)' >= 0 /\ cwait'[c] <= 2 * Spare(c)' + Waited'
      BY <2>2, <2>3, <2>4, <2>5
    <3> QED
      BY <1>1, <1>3, <1>4, <1>5, <2>4, <2>5, <3>1 DEF Unhurried
<1> QED
  BY <1>6, <1>7

\* Between processes that are never slow, a client gives up on a server that is
\* still sending only after at least three datagrams were lost.
THEOREM GivesUpLate == Spec => []PatientEnough
<1>1. Init => Patience
  <2> SUFFICES ASSUME Init, NEW c \in Clients PROVE Unhurried(c)
    BY DEF Patience
  <2> QED
    BY DEF Init, Unhurried, Asking, Afoot
<1>2. ASSUME Inv, Inv', Patience, [Next]_vars PROVE Patience'
  <2> SUFFICES ASSUME ~ slow', NEW c \in Clients PROVE Unhurried(c)'
    BY DEF Patience
  <2>1. ~ slow /\ TypeOK' /\ (Tick => Quiet)
    BY <1>2 DEF Next, Server, Start, Client, Tick, vars, Inv, TypeOK
  <2>2. Unhurried(c)
    BY <1>2, <2>1 DEF Patience
  <2>3. CASE Server
    <3>1. CASE ServerOpenFails \/ ServerEnd
      BY <2>2, <3>1 DEF ServerOpenFails, ServerEnd, Unhurried, Afoot, clientVars
    <3> QED
      BY <1>2, <2>1, <2>2, <2>3, <3>1, RequestUnhurried, ServerUnhurried DEF Server
  <2>4. ASSUME NEW b \in Clients, Start(b) \/ Client(b) PROVE Unhurried(c)'
    BY <1>2, <2>1, <2>2, <2>4, StartUnhurried, DataUnhurried, EndUnhurried DEF Start, Client
  <2>5. CASE Tick
    BY <1>2, <2>1, <2>2, <2>5, TickUnhurried
  <2>6. CASE UNCHANGED vars
    BY <2>2, <2>6 DEF vars, serverVars, clientVars, netVars, Unhurried, Spare, Owed, Waited,
         Asking, Afoot
  <2> QED
    BY <1>2, <2>3, <2>4, <2>5, <2>6 DEF Next
<1>3. Inv /\ Patience => PatientEnough
  <2> SUFFICES ASSUME Inv, Patience, ~ slow, NEW c \in Clients,
                      end[c] = "timeout", c = client, spc # "done"
               PROVE  lost >= 3
    BY DEF PatientEnough
  <2>1. Afoot
    BY NoClientAssumption DEF Inv, Phases, Afoot
  <2> QED
    BY <2>1 DEF Patience, Unhurried
<1> QED
  BY InvHolds, <1>1, <1>2, <1>3, PTL DEF Spec

-----------------------------------------------------------------------------
(* The servers around one recvfrom() *)

CONSTANTS Users, AddrOf, ServerAddr, Listeners, MAX_CLIENTS, MaxTexts, QueueCap, Killable, Finite
VARIABLES kind, server, clients, queue, pc, rcv, buffer, typed, eof, socket, answer, told, again,
          dropped

Udp == INSTANCE UdpServers
         WITH Clients <- Users, Server <- ServerAddr, sent <- typed, inbox <- socket,
              lost <- dropped

\* What is known of the servers' parameters.
UdpParameters == Udp!AddrAssumption /\ Udp!UdpAssumption

Messages == [from : Udp!Addrs \union {ServerAddr}, text : Udp!Texts]

USE DEF Udp!Empty, Udp!Junk

\* The list has no address twice.
NoDoubles == \A i, j \in 1 .. Len(clients) : i # j => clients[i] # clients[j]

\* Only what is broadcast comes from the server itself.
FromClients == \A i \in 1 .. Len(queue) : queue[i].from = ServerAddr => kind = "broadcast"

\* A client whose input ended before it had a line to send.
Silent(c) == eof[c] /\ typed[c] = 0

\* Only a chat user's input ends, and only a silent one's buffer may be empty then.
InputsEnd ==
    \A c \in Users : eof[c] => kind = "chat" /\ (buffer[c] = 0 => typed[c] = 0)

\* A text of the chat is under its author's address, and on its way to others; it
\* is empty only if its author is silent.
Spoken(t) == t[2] = 0 => Silent(t[1])
Addressed == kind = "chat" =>
    /\ \A i \in 1 .. Len(queue) :
         queue[i].from = AddrOf[queue[i].text[1]] /\ Spoken(queue[i].text)
    /\ \A a \in Udp!Addrs : \A i \in 1 .. Len(socket[a]) :
         AddrOf[socket[a][i][1]] # a /\ Spoken(socket[a][i])
    /\ \A m \in told : AddrOf[m[2][1]] # m[1]

\* Who is deaf heard a silent client elsewhere.
Deafened ==
    \A c \in Users : rcv[c] = "deaf" =>
      \E d \in Users : AddrOf[d] # AddrOf[c] /\ Silent(d)

\* While its author still types, a text in the server's socket is there once and
\* nobody was sent it.
Fresh == kind = "chat" =>
    /\ \A i \in 1 .. Len(queue) : ~ eof[queue[i].text[1]] =>
         /\ queue[i].text[2] <= typed[queue[i].text[1]]
         /\ \A m \in told : m[2] # queue[i].text
         /\ \A j \in 1 .. Len(queue) : i # j => queue[i].text # queue[j].text
    /\ \A m \in told : ~ eof[m[2][1]] => m[2][2] <= typed[m[2][1]]
    /\ \A m \in again : eof[m[2][1]]

\* A port belongs to one process at a time; one with it may have been killed.
OneUser ==
    \A c, d \in Users : Udp!Up(c) /\ Udp!Up(d) /\ AddrOf[c] = AddrOf[d] => c = d
Buried(a) == \E d \in Users : AddrOf[d] = a /\ pc[d] = "killed"

\* A text asked of an echo server is underway once, from and to its author's port,
\* and its author waits for it unless one on that port was killed.
Asked(d) == pc[d] \notin {"off", "up"} /\ (pc[d] = "waiting" \/ Buried(AddrOf[d]))
Owned == kind \in Udp!Echoes =>
    /\ \A i \in 1 .. Len(queue) :
         /\ queue[i].text = Udp!Text(queue[i].text[1], 1)
         /\ queue[i].from = AddrOf[queue[i].text[1]]
         /\ Asked(queue[i].text[1])
         /\ \A j \in 1 .. Len(queue) : i # j => queue[i].text[1] # queue[j].text[1]
    /\ \A a \in Udp!Addrs : \A j \in 1 .. Len(socket[a]) :
         /\ socket[a][j] = Udp!Reply(Udp!Text(socket[a][j][1], 1))
         /\ AddrOf[socket[a][j][1]] = a
         /\ Asked(socket[a][j][1])
         /\ \A i \in 1 .. Len(queue) : queue[i].text[1] # socket[a][j][1]

\* What an echo client took is its own text, or another on its port was killed.
Answers ==
    \A c \in Users : \A t \in answer[c] :
      \/ t = Udp!Reply(Udp!Text(c, 1))
      \/ \E d \in Users \ {c} : AddrOf[d] = AddrOf[c] /\ pc[d] = "killed"

\* Only clients of echo servers wait.
OthersWait == \A c \in Users : pc[c] = "waiting" => kind \in Udp!Echoes

UdpInv ==
    /\ Udp!TypeOK /\ NoDoubles /\ FromClients /\ InputsEnd
    /\ Addressed /\ Deafened /\ Fresh
    /\ OneUser /\ Owned /\ Answers /\ OthersWait

-----------------------------------------------------------------------------
\* What the parameters are.
LEMMA ParameterTypes ==
  ASSUME UdpParameters
  PROVE  /\ MAX_CLIENTS \in Nat /\ MaxTexts \in Nat /\ MaxTexts > 0
         /\ ServerAddr \notin Udp!Addrs
         /\ Killable \subseteq Users
BY DEF UdpParameters, Udp!AddrAssumption, Udp!UdpAssumption

\* The parts of a text.
LEMMA TextParts ==
  ASSUME NEW t \in Udp!Texts
  PROVE  t[1] \in Users /\ t[2] \in 0 .. MaxTexts + 1
BY DEF Udp!Texts

\* A line, or what a buffer holds for one, is a text of its author.
LEMMA TextTypes ==
  ASSUME NEW c \in Users, NEW k \in 0 .. MaxTexts + 1
  PROVE  /\ Udp!Text(c, k) \in Udp!Texts
         /\ Udp!Text(c, k)[1] = c /\ Udp!Text(c, k)[2] = k
BY DEF Udp!Text, Udp!Texts

\* What is sent for a text is one of the same author.
LEMMA ReplyTypes ==
  ASSUME NEW t \in Udp!Texts
  PROVE  /\ Udp!Reply(t) \in Udp!Texts
         /\ Udp!Reply(t)[1] = t[1]
         /\ kind = "chat" => Udp!Reply(t) = t
<1>1. t[1] \in Users /\ t[2] \in 0 .. MaxTexts + 1
  BY TextParts
<1>2. CASE kind = "uppercase"
  BY <1>1, <1>2 DEF Udp!Reply, Udp!Texts
<1>3. CASE kind # "uppercase"
  BY <1>3 DEF Udp!Reply
<1> QED
  BY <1>2, <1>3

\* Every client has an address.
LEMMA AddrTypes ==
  ASSUME NEW c \in Users PROVE AddrOf[c] \in Udp!Addrs
BY DEF Udp!Addrs

\* What is queued at the server and at the clients.
LEMMA QueueTypes ==
  ASSUME Udp!TypeOK
  PROVE  /\ queue \in Seq(Messages) /\ Len(queue) \in Nat
         /\ \A i \in 1 .. Len(queue) :
              /\ queue[i].from \in Udp!Addrs \union {ServerAddr}
              /\ queue[i].text \in Udp!Texts
              /\ queue[i].text[1] \in Users
              /\ queue[i].text[2] \in 0 .. MaxTexts + 1
<1>1. queue \in Seq(Messages)
  BY DEF Udp!TypeOK, Messages
<1>2. \A i \in 1 .. Len(queue) : queue[i] \in Messages
  BY <1>1, ElementOfSeq
<1>3. \A i \in 1 .. Len(queue) :
         queue[i].from \in Udp!Addrs \union {ServerAddr} /\ queue[i].text \in Udp!Texts
  BY <1>2 DEF Messages
<1> QED
  BY <1>1, <1>3, TextParts, LenProperties

\* What is in the socket of a client's address.
LEMMA SocketTypes ==
  ASSUME Udp!TypeOK, NEW a \in Udp!Addrs
  PROVE  /\ socket[a] \in Seq(Udp!Texts) /\ Len(socket[a]) \in Nat
         /\ \A i \in 1 .. Len(socket[a]) :
              /\ socket[a][i] \in Udp!Texts
              /\ socket[a][i][1] \in Users
              /\ socket[a][i][2] \in 0 .. MaxTexts + 1
<1>1. socket[a] \in Seq(Udp!Texts)
  BY DEF Udp!TypeOK
<1> QED
  BY <1>1, ElementOfSeq, LenProperties, TextParts

\* sendto() to the server appends the text or loses it.
LEMMA Submitted ==
  ASSUME Udp!TypeOK, NEW c \in Users, NEW k \in 0 .. MaxTexts + 1, Udp!Submits(c, k)
  PROVE  /\ queue' \in Seq(Messages) /\ dropped' \subseteq Users
         /\ \A i \in 1 .. Len(queue') :
              \/ i \in 1 .. Len(queue) /\ queue'[i] = queue[i]
              \/ i = Len(queue) + 1 /\ queue'[i] = [from |-> AddrOf[c], text |-> Udp!Text(c, k)]
<1> DEFINE m == [from |-> AddrOf[c], text |-> Udp!Text(c, k)]
<1>1. m \in Messages
  BY TextTypes, AddrTypes DEF Messages
<1>2. queue \in Seq(Messages) /\ dropped \subseteq Users
  BY DEF Udp!TypeOK, Messages
<1>3. CASE queue' = Append(queue, m) /\ UNCHANGED dropped
  <2> HIDE DEF m
  <2>1. Append(queue, m) \in Seq(Messages)
    BY <1>1, <1>2, AppendProperties
  <2>2. /\ Len(queue') = Len(queue) + 1
        /\ \A j \in 1 .. Len(queue) + 1 :
             \/ j \in 1 .. Len(queue) /\ queue'[j] = queue[j]
             \/ j = Len(queue) + 1 /\ queue'[j] = m
    BY <1>1, <1>2, <1>3, Appended
  <2> QED
    BY <1>2, <1>3, <2>1, <2>2 DEF m
<1>4. CASE dropped' = dropped \union {c} /\ UNCHANGED queue
  BY <1>2, <1>4
<1> QED
  BY <1>3, <1>4 DEF Udp!Submits

\* One turn of a server's loop: the first datagram is taken, and what is sent for
\* it goes to the addresses it is meant for, or is dropped there.
LEMMA Handled ==
  ASSUME UdpParameters, Udp!TypeOK, FromClients, Udp!Handles
  PROVE  LET d == Head(queue)
             list == Udp!Registered(d.from)
             ts == Udp!Targets(list, d.from)
             t == Udp!Reply(d.text)
         IN  /\ 1 \in 1 .. Len(queue) /\ d = queue[1]
             /\ queue' \in Seq(Messages)
             /\ \A i \in 1 .. Len(queue') :
                  \/ i + 1 \in 1 .. Len(queue) /\ queue'[i] = queue[i + 1]
                  \/ kind = "broadcast" /\ queue'[i] = [from |-> ServerAddr, text |-> t]
             /\ socket' \in [Udp!Addrs -> Seq(Udp!Texts)]
             /\ \A a \in Udp!Addrs : \A i \in 1 .. Len(socket'[a]) :
                  \/ i \in 1 .. Len(socket[a]) /\ socket'[a][i] = socket[a][i]
                  \/ a \in ts /\ socket'[a][i] = t
             /\ clients' = list
             /\ told' = told \union (ts \X {t})
             /\ \A m \in again' \ again : \E a \in ts :
                  m = <<a, t>> /\ (m \in told \/ a \in Udp!Doubled(list))
             /\ dropped' \subseteq Users
             /\ ts \subseteq Udp!Addrs \union Listeners \union {ServerAddr}
             /\ server' \in {"running", "ended"}
             /\ UNCHANGED <<kind, pc, rcv, buffer, typed, eof, answer>>
<1> DEFINE d == Head(queue)
           list == Udp!Registered(d.from)
           ts == Udp!Targets(list, d.from)
           t == Udp!Reply(d.text)
           extra == [from |-> ServerAddr, text |-> t]
<1>1. queue \in Seq(Messages) /\ Len(queue) \in Nat /\ queue # <<>>
  BY QueueTypes DEF Udp!Handles
<1>2. /\ Len(queue) > 0 /\ d = queue[1] /\ Tail(queue) \in Seq(Messages)
      /\ Len(Tail(queue)) = Len(queue) - 1
      /\ \A i \in 1 .. Len(queue) - 1 : Tail(queue)[i] = queue[i + 1]
  BY <1>1, Received
<1>3. 1 \in 1 .. Len(queue)
  BY <1>1, <1>2
<1>4. d.from \in Udp!Addrs \union {ServerAddr} /\ t \in Udp!Texts /\ t[1] \in Users
      /\ (d.from = ServerAddr => kind = "broadcast")
  BY <1>2, <1>3, QueueTypes, ReplyTypes DEF FromClients
<1>5. PICK D \in SUBSET {a \in ts : Udp!Stores(a)} :
        /\ clients' = list
        /\ queue' = Tail(queue) \o (IF ServerAddr \in D THEN <<extra>> ELSE <<>>)
        /\ socket' = [a \in Udp!Addrs |-> IF a \in D THEN Append(socket[a], t) ELSE socket[a]]
        /\ told' = told \union (ts \X {t})
        /\ again' = again \union
             {<<a, t>> : a \in {b \in ts : <<b, t>> \in told \/ b \in Udp!Doubled(list)}}
        /\ dropped' = IF ts \subseteq D THEN dropped ELSE dropped \union {t[1]}
  BY DEF Udp!Handles
<1>6. /\ server' \in {"running", "ended"}
      /\ UNCHANGED <<kind, pc, rcv, buffer, typed, eof, answer>>
  BY DEF Udp!Handles, Udp!clientVars, Udp!TypeOK
<1>7. list \in Seq(Udp!Addrs)
  <2>1. clients \in Seq(Udp!Addrs)
    BY DEF Udp!TypeOK
  <2>2. CASE kind = "chat"
    <3>1. d.from \in Udp!Addrs
      BY <1>4, <2>2
    <3> HIDE DEF d
    <3> QED
      BY <2>1, <3>1, AppendProperties DEF Udp!Registered
  <2>3. CASE kind # "chat"
    BY <2>1, <2>3 DEF Udp!Registered
  <2> QED
    BY <2>2, <2>3
<1>8. /\ ts \subseteq Udp!Addrs \union Listeners \union {ServerAddr}
      /\ ServerAddr \in ts => kind = "broadcast"
  <2>1. Udp!Range(list) \subseteq Udp!Addrs
    <3> HIDE DEF list
    <3>1. DOMAIN list = 1 .. Len(list) /\ \A i \in 1 .. Len(list) : list[i] \in Udp!Addrs
      BY <1>7, LenProperties, ElementOfSeq
    <3> QED
      BY <3>1 DEF Udp!Range
  <2> HIDE DEF list, d
  <2>2. CASE kind = "chat"
    BY <2>1, <2>2, ParameterTypes DEF Udp!Targets, Udp!Echoes
  <2>3. CASE kind \in Udp!Echoes
    BY <1>4, <2>3 DEF Udp!Targets, Udp!Echoes
  <2>4. CASE kind = "broadcast"
    BY <2>4 DEF Udp!Targets, Udp!Echoes
  <2>5. CASE kind = "once"
    BY <2>5 DEF Udp!Targets, Udp!Echoes
  <2> QED
    BY <2>2, <2>3, <2>4, <2>5 DEF Udp!TypeOK, Udp!Kinds
<1>9. /\ queue' \in Seq(Messages)
      /\ \A i \in 1 .. Len(queue') :
           \/ i + 1 \in 1 .. Len(queue) /\ queue'[i] = queue[i + 1]
           \/ kind = "broadcast" /\ queue'[i] = extra
  <2>1. extra \in Messages
    BY <1>4 DEF Messages
  <2> HIDE DEF extra
  <2>2. CASE ServerAddr \in D
    <3>1. queue' = Append(Tail(queue), extra) /\ kind = "broadcast"
      <4>1. queue' = Tail(queue) \o <<extra>>
        BY <1>5, <2>2
      <4>2. Append(Tail(queue), extra) = Tail(queue) \o <<extra>>
        BY <1>2, <2>1, AppendIsConcat
      <4> QED
        BY <1>5, <1>8, <2>2, <4>1, <4>2
    <3>2. Append(Tail(queue), extra) \in Seq(Messages)
      BY <1>2, <2>1, AppendProperties
    <3>3. /\ Len(queue') = Len(Tail(queue)) + 1
          /\ \A j \in 1 .. Len(Tail(queue)) + 1 :
               \/ j \in 1 .. Len(Tail(queue)) /\ queue'[j] = Tail(queue)[j]
               \/ j = Len(Tail(queue)) + 1 /\ queue'[j] = extra
      BY <1>2, <2>1, <3>1, Appended
    <3> QED
      <4>1. ASSUME NEW i \in 1 .. Len(queue')
            PROVE  \/ i + 1 \in 1 .. Len(queue) /\ queue'[i] = queue[i + 1]
                   \/ queue'[i] = extra
        <5>1. CASE i \in 1 .. Len(Tail(queue)) /\ queue'[i] = Tail(queue)[i]
          BY <1>1, <1>2, <5>1
        <5> QED
          BY <3>3, <5>1
      <4> QED
        BY <3>1, <3>2, <4>1
  <2>3. CASE ServerAddr \notin D
    <3>1. queue' = Tail(queue)
      BY <1>2, <1>5, <2>3
    <3> QED
      BY <1>1, <1>2, <3>1
  <2> QED
    BY <2>2, <2>3
<1>10. ASSUME NEW a \in Udp!Addrs
       PROVE  /\ socket'[a] \in Seq(Udp!Texts)
              /\ \A i \in 1 .. Len(socket'[a]) :
                   \/ i \in 1 .. Len(socket[a]) /\ socket'[a][i] = socket[a][i]
                   \/ a \in ts /\ socket'[a][i] = t
  <2>1. socket[a] \in Seq(Udp!Texts)
    BY SocketTypes
  <2> HIDE DEF t, ts
  <2>2. CASE a \in D
    <3>1. socket'[a] = Append(socket[a], t) /\ a \in ts
      BY <1>5, <2>2
    <3>2. Append(socket[a], t) \in Seq(Udp!Texts)
      BY <1>4, <2>1, AppendProperties
    <3>3. /\ Len(Append(socket[a], t)) = Len(socket[a]) + 1
          /\ \A j \in 1 .. Len(socket[a]) + 1 :
               \/ j \in 1 .. Len(socket[a]) /\ Append(socket[a], t)[j] = socket[a][j]
               \/ j = Len(socket[a]) + 1 /\ Append(socket[a], t)[j] = t
      BY <1>4, <2>1, Appended
    <3> QED
      BY <3>1, <3>2, <3>3
  <2>3. CASE a \notin D
    BY <1>5, <2>1, <2>3
  <2> QED
    BY <2>2, <2>3
<1>11. socket' \in [Udp!Addrs -> Seq(Udp!Texts)]
  BY <1>5, <1>10
<1>12. dropped' \subseteq Users
  BY <1>4, <1>5 DEF Udp!TypeOK
<1>13. \A m \in again' \ again : \E a \in ts :
         m = <<a, t>> /\ (m \in told \/ a \in Udp!Doubled(list))
  <2> HIDE DEF ts, t, list
  <2> QED
    BY <1>5
<1> QED
  BY <1>2, <1>3, <1>13, <1>5, <1>6, <1>8, <1>9, <1>10, <1>11, <1>12

\* What a client takes from its socket, or throws away with it.
LEMMA Drained ==
  ASSUME Udp!TypeOK, NEW c \in Users,
         \/ socket[AddrOf[c]] # <<>> /\ socket' = [socket EXCEPT ![AddrOf[c]] = Tail(@)]
         \/ socket' = [socket EXCEPT ![AddrOf[c]] = <<>>]
  PROVE  /\ socket' \in [Udp!Addrs -> Seq(Udp!Texts)]
         /\ \A a \in Udp!Addrs : \A i \in 1 .. Len(socket'[a]) :
              \E j \in 1 .. Len(socket[a]) : socket'[a][i] = socket[a][j]
<1> DEFINE b == AddrOf[c]
<1>1. b \in Udp!Addrs /\ socket \in [Udp!Addrs -> Seq(Udp!Texts)]
  BY AddrTypes DEF Udp!TypeOK
<1>2. socket[b] \in Seq(Udp!Texts) /\ Len(socket[b]) \in Nat
  BY <1>1, SocketTypes
<1> HIDE DEF b
<1>3. CASE socket[b] # <<>> /\ socket' = [socket EXCEPT ![b] = Tail(@)]
  <2>1. /\ Tail(socket[b]) \in Seq(Udp!Texts) /\ Len(Tail(socket[b])) = Len(socket[b]) - 1
        /\ \A i \in 1 .. Len(socket[b]) - 1 : Tail(socket[b])[i] = socket[b][i + 1]
    BY <1>2, <1>3, Received
  <2>2. ASSUME NEW a \in Udp!Addrs, NEW i \in 1 .. Len(socket'[a])
        PROVE  \E j \in 1 .. Len(socket[a]) : socket'[a][i] = socket[a][j]
    <3>1. CASE a = b
      <4>1. socket'[a] = Tail(socket[b])
        BY <1>1, <1>3, <3>1
      <4>2. i + 1 \in 1 .. Len(socket[b]) /\ socket'[a][i] = socket[b][i + 1]
        BY <1>2, <2>1, <4>1
      <4> QED
        BY <3>1, <4>2
    <3>2. CASE a # b
      BY <1>1, <1>3, <3>2
    <3> QED
      BY <3>1, <3>2
  <2> QED
    BY <1>1, <1>3, <2>1, <2>2
<1>4. CASE socket' = [socket EXCEPT ![b] = <<>>]
  <2>1. ASSUME NEW a \in Udp!Addrs, NEW i \in 1 .. Len(socket'[a])
        PROVE  \E j \in 1 .. Len(socket[a]) : socket'[a][i] = socket[a][j]
    <3>1. CASE a = b
      <4>1. Len(socket'[a]) = 0
        BY <1>1, <1>4, <3>1
      <4> QED
        BY <4>1
    <3>2. CASE a # b
      BY <1>1, <1>4, <3>2
    <3> QED
      BY <3>1, <3>2
  <2> QED
    BY <1>1, <1>4, <2>1
<1> QED
  BY <1>3, <1>4 DEF b

\* The list is changed for the chat only.
LEMMA ListTypes ==
  ASSUME UdpParameters, Udp!TypeOK, FromClients, Udp!Handles
  PROVE  clients' \in Seq(Udp!Addrs) /\ Len(clients') <= MAX_CLIENTS
<1> DEFINE a == Head(queue).from
<1>1. clients' = Udp!Registered(a) /\ (kind = "chat" => a \in Udp!Addrs)
  BY Handled, QueueTypes DEF FromClients
<1>2. clients \in Seq(Udp!Addrs) /\ Len(clients) <= MAX_CLIENTS /\ Len(clients) \in Nat
  BY LenProperties DEF Udp!TypeOK
<1> HIDE DEF a
<1>3. CASE clients' = clients
  BY <1>2, <1>3
<1>4. CASE clients' = Append(clients, a) /\ kind = "chat" /\ Len(clients) < MAX_CLIENTS
  <2>1. clients' \in Seq(Udp!Addrs) /\ Len(clients') = Len(clients) + 1
    BY <1>1, <1>2, <1>4, AppendProperties
  <2> QED
    BY <1>2, <1>4, <2>1, ParameterTypes
<1> QED
  BY <1>1, <1>3, <1>4 DEF Udp!Registered

\* Every program starts with every variable in its type.
LEMMA UdpInitTypes ==
  ASSUME UdpParameters, Udp!Init PROVE Udp!TypeOK
<1>1. MAX_CLIENTS \in Nat /\ MaxTexts \in Nat
  BY ParameterTypes
<1>2. /\ clients \in Seq(Udp!Addrs) /\ Len(clients) <= MAX_CLIENTS
      /\ queue \in Seq([from : Udp!Addrs \union {ServerAddr}, text : Udp!Texts])
      /\ socket \in [Udp!Addrs -> Seq(Udp!Texts)]
  BY <1>1 DEF Udp!Init
<1>3. /\ buffer \in [Users -> 0 .. MaxTexts + 1] /\ typed \in [Users -> 0 .. MaxTexts]
  BY <1>1 DEF Udp!Init
<1> QED
  BY <1>2, <1>3 DEF Udp!Init, Udp!TypeOK

\* Every step keeps the types.
LEMMA UdpNextTypes ==
  ASSUME UdpParameters, Udp!TypeOK, FromClients, [Udp!Next]_Udp!vars
  PROVE  Udp!TypeOK'
<1> DEFINE Rest == UNCHANGED <<kind, server, clients, told, again>>
<1>0. MaxTexts \in Nat /\ MaxTexts > 0
  BY ParameterTypes
<1>1. CASE Udp!Handles
  <2>1. queue' \in Seq(Messages) /\ socket' \in [Udp!Addrs -> Seq(Udp!Texts)]
        /\ dropped' \subseteq Users /\ server' \in {"running", "ended"}
        /\ UNCHANGED <<kind, pc, rcv, buffer, typed, eof, answer>>
    BY <1>1, Handled
  <2>2. clients' \in Seq(Udp!Addrs) /\ Len(clients') <= MAX_CLIENTS
    BY <1>1, ListTypes
  <2>3. /\ told' \subseteq (Udp!Addrs \union Listeners \union {ServerAddr}) \X Udp!Texts
        /\ again' \subseteq told'
    <3> DEFINE list == Udp!Registered(Head(queue).from)
               ts == Udp!Targets(list, Head(queue).from)
               t == Udp!Reply(Head(queue).text)
    <3>1. /\ told' = told \union (ts \X {t})
          /\ \A m \in again' \ again : \E a \in ts : m = <<a, t>>
          /\ ts \subseteq Udp!Addrs \union Listeners \union {ServerAddr}
      BY <1>1, Handled
    <3>2. t \in Udp!Texts
      BY <1>1, Handled, QueueTypes, ReplyTypes
    <3>3. /\ again \subseteq told
          /\ told \subseteq (Udp!Addrs \union Listeners \union {ServerAddr}) \X Udp!Texts
      BY DEF Udp!TypeOK
    <3> HIDE DEF t, ts, list
    <3>4. told' \subseteq (Udp!Addrs \union Listeners \union {ServerAddr}) \X Udp!Texts
      BY <3>1, <3>2, <3>3
    <3>5. again' \subseteq told'
      BY <3>1, <3>3
    <3> QED
      BY <3>4, <3>5
  <2> QED
    BY <2>1, <2>2, <2>3 DEF Udp!TypeOK, Messages
<1>2. ASSUME NEW c \in Users, Udp!Starts(c) PROVE Udp!TypeOK'
  BY <1>2 DEF Udp!TypeOK, Udp!Starts
<1>3. ASSUME NEW c \in Users, Udp!Says(c) PROVE Udp!TypeOK'
  <2>1. typed[c] + 1 \in 0 .. MaxTexts /\ typed[c] + 1 \in 0 .. MaxTexts + 1
    <3>1. typed[c] \in 0 .. MaxTexts /\ typed[c] < MaxTexts
      BY <1>3 DEF Udp!Says, Udp!TypeOK
    <3> QED
      BY <1>0, <3>1
  <2>2. Udp!Submits(c, typed[c] + 1) /\ typed' = [typed EXCEPT ![c] = typed[c] + 1]
        /\ buffer' = [buffer EXCEPT ![c] = typed[c] + 1]
    BY <1>3 DEF Udp!Says, Udp!TypeOK
  <2>3. queue' \in Seq(Messages) /\ dropped' \subseteq Users
    BY <2>1, <2>2, Submitted
  <2> QED
    BY <1>3, <2>1, <2>2, <2>3 DEF Udp!TypeOK, Udp!Says, Messages
<1>4. ASSUME NEW c \in Users, Udp!InputEnds(c) PROVE Udp!TypeOK'
  <2>1. PICK k \in (IF typed[c] = 0 THEN {0, MaxTexts + 1} ELSE {typed[c]}) :
          buffer' = [buffer EXCEPT ![c] = k]
    BY <1>4 DEF Udp!InputEnds
  <2>2. typed[c] \in 0 .. MaxTexts
    BY DEF Udp!TypeOK
  <2>3. k \in 0 .. MaxTexts + 1
    BY <1>0, <2>1, <2>2
  <2> QED
    BY <1>4, <2>1, <2>3 DEF Udp!TypeOK, Udp!InputEnds
<1>5. ASSUME NEW c \in Users, Udp!Repeats(c) PROVE Udp!TypeOK'
  <2>1. buffer[c] \in 0 .. MaxTexts + 1
    BY DEF Udp!TypeOK
  <2>2. queue' \in Seq(Messages) /\ dropped' \subseteq Users
    BY <1>5, <2>1, Submitted DEF Udp!Repeats
  <2> QED
    BY <1>5, <2>2 DEF Udp!TypeOK, Udp!Repeats, Udp!clientVars, Messages
<1>6. ASSUME NEW c \in Users, Udp!Asks(c) PROVE Udp!TypeOK'
  <2>1. 1 \in 0 .. MaxTexts + 1 /\ 1 \in 0 .. MaxTexts
    BY <1>0
  <2>2. queue' \in Seq(Messages) /\ dropped' \subseteq Users
    BY <1>6, <2>1, Submitted DEF Udp!Asks
  <2> QED
    BY <1>6, <2>1, <2>2 DEF Udp!TypeOK, Udp!Asks, Messages
<1>7. ASSUME NEW c \in Users, Udp!Listens(c) \/ Udp!Answered(c) \/ Udp!Killed(c)
      PROVE  Udp!TypeOK'
  <2>1. socket' \in [Udp!Addrs -> Seq(Udp!Texts)]
    BY <1>7, Drained DEF Udp!Listens, Udp!Answered, Udp!Killed
  <2>2. CASE Udp!Listens(c)
    BY <2>1, <2>2 DEF Udp!TypeOK, Udp!Listens
  <2>3. CASE Udp!Answered(c)
    <3>1. Head(socket[AddrOf[c]]) \in Udp!Texts
      <4>1. socket[AddrOf[c]] \in Seq(Udp!Texts) /\ socket[AddrOf[c]] # <<>>
        BY <2>3, AddrTypes, SocketTypes DEF Udp!Answered
      <4> QED
        BY <4>1, Received
    <3> QED
      BY <2>1, <2>3, <3>1 DEF Udp!TypeOK, Udp!Answered
  <2>4. CASE Udp!Killed(c)
    BY <2>1, <2>4 DEF Udp!TypeOK, Udp!Killed
  <2> QED
    BY <1>7, <2>2, <2>3, <2>4
<1>8. CASE UNCHANGED Udp!vars
  BY <1>8 DEF Udp!TypeOK, Udp!vars, Udp!clientVars
<1> QED
  BY <1>1, <1>2, <1>3, <1>4, <1>5, <1>6, <1>7, <1>8 DEF Udp!Next, Udp!Client
-----------------------------------------------------------------------------
\* Nothing has happened yet.
LEMMA UdpInitInv ==
  ASSUME UdpParameters, Udp!Init PROVE UdpInv
<1>1. /\ Len(clients) = 0 /\ Len(queue) = 0 /\ told = {} /\ again = {}
      /\ \A a \in Udp!Addrs : Len(socket[a]) = 0
      /\ \A c \in Users : pc[c] = "off" /\ rcv[c] = "recv" /\ ~ eof[c] /\ answer[c] = {}
  BY DEF Udp!Init
<1>2. NoDoubles /\ FromClients /\ InputsEnd
  BY <1>1 DEF NoDoubles, FromClients, InputsEnd
<1>3. Addressed /\ Deafened /\ Fresh
  BY <1>1 DEF Addressed, Deafened, Fresh
<1>4. OneUser /\ Owned /\ Answers /\ OthersWait
  BY <1>1 DEF OneUser, Owned, Answers, OthersWait, Udp!Up
<1> QED
  BY <1>2, <1>3, <1>4, UdpInitTypes DEF UdpInv

\* What kind of server runs does not change, and only the server changes its list
\* and whom it has sent what.
LEMMA OnlyHandles ==
  ASSUME [Udp!Next]_Udp!vars
  PROVE  kind' = kind /\ (Udp!Handles \/ UNCHANGED <<clients, told, again>>)
<1>1. ASSUME NEW c \in Users,
             Udp!Client(c) \/ Udp!Starts(c) \/ Udp!Says(c) \/ Udp!InputEnds(c) \/ Udp!Killed(c)
      PROVE  UNCHANGED <<kind, clients, told, again>>
  BY <1>1 DEF Udp!Client, Udp!Repeats, Udp!Listens, Udp!Asks, Udp!Answered, Udp!Starts,
       Udp!Says, Udp!InputEnds, Udp!Killed
<1>2. Udp!Handles => kind' = kind
  BY DEF Udp!Handles
<1> QED
  BY <1>1, <1>2 DEF Udp!Next, Udp!vars

\* What has ended stays so, and nothing more is typed then.
LEMMA EofStays ==
  ASSUME Udp!TypeOK, InputsEnd, [Udp!Next]_Udp!vars, NEW c \in Users, eof[c]
  PROVE  eof'[c] /\ typed'[c] = typed[c]
<1>1. CASE Udp!Handles
  BY <1>1 DEF Udp!Handles, Udp!clientVars
<1>2. ASSUME NEW d \in Users, Udp!Says(d) PROVE eof'[c] /\ typed'[c] = typed[c]
  BY <1>2 DEF Udp!Says, Udp!TypeOK
<1>3. ASSUME NEW d \in Users, Udp!Asks(d) PROVE eof'[c] /\ typed'[c] = typed[c]
  BY <1>3 DEF Udp!Asks, Udp!TypeOK, InputsEnd
<1>4. ASSUME NEW d \in Users, Udp!InputEnds(d) PROVE eof'[c] /\ typed'[c] = typed[c]
  BY <1>4 DEF Udp!InputEnds, Udp!TypeOK
<1>5. ASSUME NEW d \in Users,
             Udp!Starts(d) \/ Udp!Repeats(d) \/ Udp!Listens(d) \/ Udp!Answered(d) \/ Udp!Killed(d)
      PROVE  eof'[c] /\ typed'[c] = typed[c]
  BY <1>5 DEF Udp!Starts, Udp!Repeats, Udp!Listens, Udp!Answered, Udp!Killed, Udp!clientVars
<1> QED
  BY <1>1, <1>2, <1>3, <1>4, <1>5 DEF Udp!Next, Udp!Client, Udp!vars, Udp!clientVars

\* What a silent client may have sent it stays the only one to have sent.
LEMMA SpokenStays ==
  ASSUME Udp!TypeOK, InputsEnd, [Udp!Next]_Udp!vars, NEW t, t[1] \in Users, Spoken(t)
  PROVE  t[2] = 0 => eof'[t[1]] /\ typed'[t[1]] = 0
BY EofStays DEF Spoken, Silent

\* The server looks an address up before it appends it.
LEMMA NextDoubles ==
  ASSUME UdpParameters, Udp!TypeOK, NoDoubles, FromClients, [Udp!Next]_Udp!vars
  PROVE  NoDoubles'
<1>1. CASE clients' = clients
  BY <1>1 DEF NoDoubles
<1>2. CASE Udp!Handles
  <2> DEFINE a == Head(queue).from
  <2>1. clients' = Udp!Registered(a) /\ a \in Udp!Addrs \union {ServerAddr}
    BY <1>2, Handled, QueueTypes
  <2> HIDE DEF a
  <2>2. CASE clients' = Append(clients, a) /\ a \notin Udp!Range(clients)
    <3>1. clients \in Seq(Udp!Addrs \union {ServerAddr}) /\ Len(clients) \in Nat
          /\ DOMAIN clients = 1 .. Len(clients)
      BY LenProperties DEF Udp!TypeOK
    <3>2. /\ Len(Append(clients, a)) = Len(clients) + 1
          /\ \A j \in 1 .. Len(clients) + 1 :
               \/ j \in 1 .. Len(clients) /\ Append(clients, a)[j] = clients[j]
               \/ j = Len(clients) + 1 /\ Append(clients, a)[j] = a
      BY <2>1, <3>1, Appended
    <3>3. \A j \in 1 .. Len(clients) : clients[j] # a
      BY <2>2, <3>1 DEF Udp!Range
    <3> QED
      BY <2>2, <3>1, <3>2, <3>3 DEF NoDoubles
  <2> QED
    BY <1>1, <2>1, <2>2 DEF Udp!Registered
<1> QED
  BY <1>1, <1>2, OnlyHandles

\* What a client submits is its next line, what its buffer holds, or its question.
LEMMA Submitters ==
  ASSUME UdpParameters, Udp!TypeOK, NEW c \in Users,
         Udp!Says(c) \/ Udp!Repeats(c) \/ Udp!Asks(c)
  PROVE  \E k \in 0 .. MaxTexts + 1 :
           /\ Udp!Submits(c, k)
           /\ Udp!Says(c) => k = typed[c] + 1
           /\ Udp!Repeats(c) => k = buffer[c]
           /\ Udp!Asks(c) => k = 1
<1>1. /\ MaxTexts \in Nat /\ MaxTexts > 0 /\ buffer[c] \in 0 .. MaxTexts + 1
      /\ typed[c] \in 0 .. MaxTexts
  BY ParameterTypes DEF Udp!TypeOK
<1>2. CASE Udp!Says(c)
  <2>1. Udp!Submits(c, typed[c] + 1) /\ typed[c] + 1 \in 0 .. MaxTexts + 1
    BY <1>1, <1>2 DEF Udp!Says, Udp!TypeOK
  <2>2. ~ Udp!Repeats(c) /\ ~ Udp!Asks(c)
    BY <1>2 DEF Udp!Says, Udp!Repeats, Udp!Asks
  <2> QED
    BY <2>1, <2>2
<1>3. CASE Udp!Repeats(c) /\ ~ Udp!Asks(c)
  <2>1. ~ Udp!Says(c) /\ Udp!Submits(c, buffer[c])
    BY <1>3 DEF Udp!Says, Udp!Repeats
  <2> QED
    BY <1>1, <1>3, <2>1
<1>4. CASE Udp!Asks(c)
  <2>1. Udp!Submits(c, 1) /\ 1 \in 0 .. MaxTexts + 1
    BY <1>1, <1>4 DEF Udp!Asks
  <2>2. ~ Udp!Says(c) /\ ~ Udp!Repeats(c)
    BY <1>4 DEF Udp!Says, Udp!Repeats, Udp!Asks, Udp!clientVars, Udp!TypeOK
  <2> QED
    BY <2>1, <2>2
<1> QED
  BY <1>2, <1>3, <1>4

\* Clients send from their own addresses.
LEMMA NextFrom ==
  ASSUME UdpParameters, Udp!TypeOK, FromClients, [Udp!Next]_Udp!vars PROVE FromClients'
<1>1. kind' = kind /\ Len(queue) \in Nat
  BY OnlyHandles, QueueTypes
<1>2. CASE Udp!Handles
  <2>1. \A i \in 1 .. Len(queue') :
          (i + 1 \in 1 .. Len(queue) /\ queue'[i] = queue[i + 1]) \/ kind = "broadcast"
    BY <1>2, Handled
  <2> QED
    BY <1>1, <2>1 DEF FromClients
<1>3. ASSUME NEW c \in Users, NEW k \in 0 .. MaxTexts + 1, Udp!Submits(c, k) PROVE FromClients'
  <2>1. \A i \in 1 .. Len(queue') :
          (i \in 1 .. Len(queue) /\ queue'[i] = queue[i]) \/ queue'[i].from = AddrOf[c]
    <3>1. \A i \in 1 .. Len(queue') :
            \/ i \in 1 .. Len(queue) /\ queue'[i] = queue[i]
            \/ queue'[i] = [from |-> AddrOf[c], text |-> Udp!Text(c, k)]
      BY <1>3, Submitted
    <3> QED
      BY <3>1
  <2>2. AddrOf[c] # ServerAddr
    BY AddrTypes, ParameterTypes
  <2> QED
    BY <1>1, <2>1, <2>2 DEF FromClients
<1>4. ASSUME NEW c \in Users, Udp!Says(c) \/ Udp!Repeats(c) \/ Udp!Asks(c) PROVE FromClients'
  BY <1>3, <1>4, Submitters
<1>5. CASE UNCHANGED queue
  BY <1>1, <1>5 DEF FromClients
<1>6. \/ Udp!Handles \/ UNCHANGED queue
      \/ \E c \in Users : Udp!Says(c) \/ Udp!Repeats(c) \/ Udp!Asks(c)
  BY DEF Udp!Next, Udp!vars, Udp!Client, Udp!Listens, Udp!Answered, Udp!Starts, Udp!InputEnds,
       Udp!Killed
<1> QED
  BY <1>2, <1>4, <1>5, <1>6

\* An empty buffer at the end of the input is one that no line was read into.
LEMMA NextInputs ==
  ASSUME UdpParameters, Udp!TypeOK, InputsEnd, [Udp!Next]_Udp!vars PROVE InputsEnd'
<1> SUFFICES ASSUME NEW c \in Users, eof'[c]
             PROVE  kind = "chat" /\ (buffer'[c] = 0 => typed'[c] = 0)
  BY OnlyHandles DEF InputsEnd
<1>1. CASE Udp!Handles
  BY <1>1 DEF Udp!Handles, Udp!clientVars, InputsEnd
<1>2. ASSUME NEW d \in Users, Udp!Says(d)
      PROVE  kind = "chat" /\ (buffer'[c] = 0 => typed'[c] = 0)
  BY <1>2 DEF Udp!Says, Udp!TypeOK, InputsEnd
<1>3. ASSUME NEW d \in Users, Udp!Asks(d)
      PROVE  kind = "chat" /\ (buffer'[c] = 0 => typed'[c] = 0)
  BY <1>3 DEF Udp!Asks, InputsEnd
<1>4. ASSUME NEW d \in Users, Udp!InputEnds(d)
      PROVE  kind = "chat" /\ (buffer'[c] = 0 => typed'[c] = 0)
  <2>1. PICK k \in (IF typed[d] = 0 THEN {0, MaxTexts + 1} ELSE {typed[d]}) :
          buffer' = [buffer EXCEPT ![d] = k]
    BY <1>4 DEF Udp!InputEnds
  <2>2. k = 0 => typed[d] = 0
    BY <2>1
  <2> QED
    BY <1>4, <2>1, <2>2 DEF Udp!InputEnds, Udp!TypeOK, InputsEnd
<1>5. ASSUME NEW d \in Users,
             Udp!Starts(d) \/ Udp!Repeats(d) \/ Udp!Listens(d) \/ Udp!Answered(d) \/ Udp!Killed(d)
      PROVE  kind = "chat" /\ (buffer'[c] = 0 => typed'[c] = 0)
  BY <1>5 DEF Udp!Starts, Udp!Repeats, Udp!Listens, Udp!Answered, Udp!Killed, Udp!clientVars,
       InputsEnd
<1> QED
  BY <1>1, <1>2, <1>3, <1>4, <1>5 DEF Udp!Next, Udp!Client, Udp!vars, Udp!clientVars, InputsEnd

\* The chat's texts go to others than their authors.
LEMMA NextAddressed ==
  ASSUME UdpParameters, UdpInv, [Udp!Next]_Udp!vars PROVE Addressed'
<1> USE DEF UdpInv
<1>0. SUFFICES ASSUME kind = "chat"
      PROVE  /\ \A i \in 1 .. Len(queue') :
                  /\ queue'[i].from = AddrOf[queue'[i].text[1]]
                  /\ queue'[i].text[2] = 0 =>
                       eof'[queue'[i].text[1]] /\ typed'[queue'[i].text[1]] = 0
             /\ \A a \in Udp!Addrs : \A i \in 1 .. Len(socket'[a]) :
                  /\ AddrOf[socket'[a][i][1]] # a
                  /\ socket'[a][i][2] = 0 =>
                       eof'[socket'[a][i][1]] /\ typed'[socket'[a][i][1]] = 0
             /\ \A m \in told' : AddrOf[m[2][1]] # m[1]
  BY OnlyHandles DEF Addressed, Spoken, Silent
<1>1. ASSUME NEW i \in 1 .. Len(queue)
      PROVE  /\ queue[i].from = AddrOf[queue[i].text[1]] /\ Spoken(queue[i].text)
             /\ queue[i].text[2] = 0 => eof'[queue[i].text[1]] /\ typed'[queue[i].text[1]] = 0
  <2>1. queue[i].from = AddrOf[queue[i].text[1]] /\ Spoken(queue[i].text)
        /\ queue[i].text[1] \in Users
    BY <1>0, QueueTypes DEF Addressed
  <2> DEFINE t == queue[i].text
  <2>2. t[1] \in Users /\ Spoken(t)
    BY <2>1
  <2> HIDE DEF t
  <2>3. t[2] = 0 => eof'[t[1]] /\ typed'[t[1]] = 0
    BY <2>2, SpokenStays
  <2> QED
    BY <2>1, <2>3 DEF t
<1>2. ASSUME NEW a \in Udp!Addrs, NEW i \in 1 .. Len(socket[a])
      PROVE  /\ AddrOf[socket[a][i][1]] # a
             /\ socket[a][i][2] = 0 => eof'[socket[a][i][1]] /\ typed'[socket[a][i][1]] = 0
  <2> DEFINE t == socket[a][i]
  <2>1. AddrOf[t[1]] # a /\ t[1] \in Users /\ Spoken(t)
    BY <1>0, SocketTypes DEF Addressed
  <2> HIDE DEF t
  <2>2. t[2] = 0 => eof'[t[1]] /\ typed'[t[1]] = 0
    BY <2>1, SpokenStays
  <2> QED
    BY <2>1, <2>2 DEF t
<1>3. \A m \in told : AddrOf[m[2][1]] # m[1]
  BY <1>0 DEF Addressed
<1>4. CASE Udp!Handles
  <2> DEFINE d == Head(queue)
             t == Udp!Reply(d.text)
             ts == Udp!Targets(Udp!Registered(d.from), d.from)
  <2>1. /\ 1 \in 1 .. Len(queue) /\ d = queue[1]
        /\ \A i \in 1 .. Len(queue') : i + 1 \in 1 .. Len(queue) /\ queue'[i] = queue[i + 1]
        /\ \A a \in Udp!Addrs : \A i \in 1 .. Len(socket'[a]) :
             \/ i \in 1 .. Len(socket[a]) /\ socket'[a][i] = socket[a][i]
             \/ a \in ts /\ socket'[a][i] = t
        /\ told' = told \union (ts \X {t})
    BY <1>0, <1>4, Handled
  <2>2. d.text \in Udp!Texts
    BY <2>1, QueueTypes
  <2>3. t = d.text
    BY <1>0, <2>2, ReplyTypes
  <2>4. /\ AddrOf[t[1]] = d.from
        /\ t[2] = 0 => eof'[t[1]] /\ typed'[t[1]] = 0
    BY <1>1, <2>1, <2>3
  <2>5. d.from \notin ts
    BY <1>0 DEF Udp!Targets, Udp!Echoes
  <2> HIDE DEF d, t, ts
  <2>6. \A i \in 1 .. Len(queue') :
                  /\ queue'[i].from = AddrOf[queue'[i].text[1]]
                  /\ queue'[i].text[2] = 0 =>
                       eof'[queue'[i].text[1]] /\ typed'[queue'[i].text[1]] = 0
    BY <1>1, <2>1
  <2>7. \A a \in Udp!Addrs : \A i \in 1 .. Len(socket'[a]) :
                  /\ AddrOf[socket'[a][i][1]] # a
                  /\ socket'[a][i][2] = 0 =>
                       eof'[socket'[a][i][1]] /\ typed'[socket'[a][i][1]] = 0
    <3> SUFFICES ASSUME NEW a \in Udp!Addrs, NEW i \in 1 .. Len(socket'[a])
                 PROVE  /\ AddrOf[socket'[a][i][1]] # a
                        /\ socket'[a][i][2] = 0 =>
                             eof'[socket'[a][i][1]] /\ typed'[socket'[a][i][1]] = 0
      OBVIOUS
    <3>1. CASE i \in 1 .. Len(socket[a]) /\ socket'[a][i] = socket[a][i]
      BY <1>2, <3>1
    <3>2. CASE a \in ts /\ socket'[a][i] = t
      BY <2>4, <2>5, <3>2
    <3> QED
      BY <2>1, <3>1, <3>2
  <2>8. \A m \in told' : AddrOf[m[2][1]] # m[1]
    BY <1>3, <2>1, <2>4, <2>5
  <2> QED
    BY <2>6, <2>7, <2>8
<1>5. ASSUME NEW c \in Users, Udp!Says(c) \/ Udp!Repeats(c)
      PROVE  \A i \in 1 .. Len(queue') :
                  /\ queue'[i].from = AddrOf[queue'[i].text[1]]
                  /\ queue'[i].text[2] = 0 =>
                       eof'[queue'[i].text[1]] /\ typed'[queue'[i].text[1]] = 0
  <2>1. PICK k \in 0 .. MaxTexts + 1 :
          /\ Udp!Submits(c, k)
          /\ Udp!Says(c) => k = typed[c] + 1
          /\ Udp!Repeats(c) => k = buffer[c]
    BY <1>5, Submitters
  <2>2. \A i \in 1 .. Len(queue') :
          \/ i \in 1 .. Len(queue) /\ queue'[i] = queue[i]
          \/ queue'[i] = [from |-> AddrOf[c], text |-> Udp!Text(c, k)]
    BY <2>1, Submitted
  <2>3. k = 0 => eof'[c] /\ typed'[c] = 0
    <3>1. CASE Udp!Says(c)
      BY <2>1, <3>1 DEF Udp!TypeOK
    <3>2. CASE Udp!Repeats(c)
      BY <2>1, <3>2, EofStays DEF Udp!Repeats, InputsEnd
    <3> QED
      BY <1>5, <3>1, <3>2
  <2>4. Udp!Text(c, k)[1] = c /\ Udp!Text(c, k)[2] = k
    BY TextTypes
  <2> QED
    BY <1>1, <2>2, <2>3, <2>4
<1>6. ASSUME NEW c \in Users, Udp!Listens(c) \/ Udp!Answered(c) \/ Udp!Killed(c)
      PROVE  \A a \in Udp!Addrs : \A i \in 1 .. Len(socket'[a]) :
                  /\ AddrOf[socket'[a][i][1]] # a
                  /\ socket'[a][i][2] = 0 =>
                       eof'[socket'[a][i][1]] /\ typed'[socket'[a][i][1]] = 0
  <2>1. \A a \in Udp!Addrs : \A i \in 1 .. Len(socket'[a]) :
          \E j \in 1 .. Len(socket[a]) : socket'[a][i] = socket[a][j]
    BY <1>6, Drained DEF Udp!Listens, Udp!Answered, Udp!Killed
  <2> QED
    BY <1>2, <2>1
<1>7. ~ Udp!Handles => told' = told
  BY OnlyHandles
<1>8. \/ Udp!Handles
      \/ UNCHANGED <<queue, socket>>
      \/ \E c \in Users : (Udp!Says(c) \/ Udp!Repeats(c)) /\ UNCHANGED socket
      \/ \E c \in Users : (Udp!Listens(c) \/ Udp!Answered(c) \/ Udp!Killed(c)) /\ UNCHANGED queue
  BY <1>0 DEF Udp!Next, Udp!vars, Udp!Client, Udp!Says, Udp!Repeats, Udp!Asks, Udp!Listens,
       Udp!Answered, Udp!Starts, Udp!InputEnds, Udp!Killed
<1>9. ASSUME UNCHANGED queue
      PROVE  \A i \in 1 .. Len(queue') :
                  /\ queue'[i].from = AddrOf[queue'[i].text[1]]
                  /\ queue'[i].text[2] = 0 =>
                       eof'[queue'[i].text[1]] /\ typed'[queue'[i].text[1]] = 0
  BY <1>1, <1>9
<1>10. ASSUME UNCHANGED socket
      PROVE  \A a \in Udp!Addrs : \A i \in 1 .. Len(socket'[a]) :
                  /\ AddrOf[socket'[a][i][1]] # a
                  /\ socket'[a][i][2] = 0 =>
                       eof'[socket'[a][i][1]] /\ typed'[socket'[a][i][1]] = 0
  BY <1>2, <1>10
<1> QED
  BY <1>3, <1>4, <1>5, <1>6, <1>7, <1>8, <1>9, <1>10

\* Only a silent client's text can make another deaf.
LEMMA NextDeafened ==
  ASSUME UdpParameters, UdpInv, [Udp!Next]_Udp!vars PROVE Deafened'
<1> USE DEF UdpInv
<1>1. SUFFICES ASSUME NEW c \in Users, rcv'[c] = "deaf"
      PROVE  \E d \in Users : AddrOf[d] # AddrOf[c] /\ eof'[d] /\ typed'[d] = 0
  BY DEF Deafened, Silent
<1>2. CASE rcv[c] = "deaf"
  BY <1>1, <1>2, EofStays DEF Deafened, Silent
<1>3. CASE rcv[c] # "deaf"
  <2>1. Udp!Listens(c)
    <3>1. ASSUME NEW b \in Users, Udp!Listens(b) PROVE b = c
      BY <1>1, <1>3, <3>1 DEF Udp!Listens, Udp!TypeOK
    <3> QED
      BY <1>1, <1>3, <3>1 DEF Udp!Next, Udp!vars, Udp!clientVars, Udp!Client, Udp!Handles, Udp!Says,
           Udp!Repeats, Udp!Asks, Udp!Answered, Udp!Starts, Udp!InputEnds, Udp!Killed
  <2> DEFINE a == AddrOf[c]
             t == Head(socket[a])
  <2>2. kind = "chat" /\ socket[a] # <<>> /\ t[2] = 0
    BY <1>1, <1>3, <2>1 DEF Udp!Listens, Udp!TypeOK
  <2>3. a \in Udp!Addrs /\ socket[a] \in Seq(Udp!Texts) /\ Len(socket[a]) \in Nat
    BY AddrTypes, SocketTypes
  <2>4. 1 \in 1 .. Len(socket[a]) /\ t = socket[a][1]
    BY <2>2, <2>3, Received
  <2>5. AddrOf[t[1]] # a /\ Silent(t[1]) /\ t[1] \in Users
    BY <2>2, <2>3, <2>4, SocketTypes DEF Addressed, Spoken
  <2> HIDE DEF t
  <2> QED
    BY <2>5, EofStays DEF Silent
<1> QED
  BY <1>2, <1>3

\* What a chat user has typed does not become less.
LEMMA TypedGrows ==
  ASSUME Udp!TypeOK, kind = "chat", [Udp!Next]_Udp!vars, NEW c \in Users
  PROVE  typed[c] \in Nat /\ typed'[c] \in Nat /\ typed'[c] >= typed[c]
<1>0. typed[c] \in Nat
  BY DEF Udp!TypeOK
<1>1. CASE Udp!Handles
  BY <1>0, <1>1 DEF Udp!Handles, Udp!clientVars
<1>2. ASSUME NEW d \in Users, Udp!Says(d)
      PROVE  typed'[c] \in Nat /\ typed'[c] >= typed[c]
  BY <1>0, <1>2 DEF Udp!Says, Udp!TypeOK
<1>3. ASSUME NEW d \in Users, ~ Udp!Says(d),
             Udp!Client(d) \/ Udp!Starts(d) \/ Udp!InputEnds(d) \/ Udp!Killed(d)
      PROVE  typed'[c] \in Nat /\ typed'[c] >= typed[c]
  BY <1>0, <1>3 DEF Udp!Client, Udp!Starts, Udp!Repeats, Udp!Listens, Udp!Asks, Udp!Answered,
       Udp!InputEnds, Udp!Killed, Udp!clientVars
<1> QED
  BY <1>0, <1>1, <1>2, <1>3 DEF Udp!Next, Udp!vars, Udp!clientVars

\* The numbers an author's texts carry, while it types, are new to the server when
\* they are sent.
LEMMA NextFresh ==
  ASSUME UdpParameters, UdpInv, NoDoubles', [Udp!Next]_Udp!vars PROVE Fresh'
<1> USE DEF UdpInv
<1>0. SUFFICES ASSUME kind = "chat"
      PROVE  /\ \A i \in 1 .. Len(queue') : ~ eof'[queue'[i].text[1]] =>
                  /\ queue'[i].text[2] <= typed'[queue'[i].text[1]]
                  /\ \A m \in told' : m[2] # queue'[i].text
                  /\ \A j \in 1 .. Len(queue') : i # j => queue'[i].text # queue'[j].text
             /\ \A m \in told' : ~ eof'[m[2][1]] => m[2][2] <= typed'[m[2][1]]
             /\ \A m \in again' : eof'[m[2][1]]
  BY OnlyHandles DEF Fresh
<1>1. Len(queue) \in Nat /\ MaxTexts \in Nat
  BY QueueTypes, ParameterTypes
<1>2. ASSUME NEW i \in 1 .. Len(queue), ~ eof'[queue[i].text[1]]
      PROVE  /\ queue[i].text[2] <= typed[queue[i].text[1]]
             /\ queue[i].text[2] <= typed'[queue[i].text[1]]
             /\ \A m \in told : m[2] # queue[i].text
             /\ \A j \in 1 .. Len(queue) : i # j => queue[i].text # queue[j].text
  <2> DEFINE u == queue[i].text[1]
             k == queue[i].text[2]
  <2>1. u \in Users /\ k \in 0 .. MaxTexts + 1
    BY QueueTypes
  <2>2. ~ eof[u]
    BY <1>2, <2>1, EofStays
  <2>3. /\ k <= typed[u]
        /\ \A m \in told : m[2] # queue[i].text
        /\ \A j \in 1 .. Len(queue) : i # j => queue[i].text # queue[j].text
    BY <1>0, <2>2 DEF Fresh
  <2>4. typed[u] \in Nat /\ typed'[u] \in Nat /\ typed'[u] >= typed[u]
    BY <1>0, <2>1, TypedGrows
  <2> HIDE DEF u, k
  <2>5. k <= typed'[u]
    BY <1>1, <2>1, <2>3, <2>4
  <2> QED
    BY <2>3, <2>5 DEF u, k
<1>3. ASSUME NEW m \in told, ~ eof'[m[2][1]]
      PROVE  /\ m[2][2] <= typed[m[2][1]] /\ m[2][2] <= typed'[m[2][1]]
  <2> DEFINE u == m[2][1]
             k == m[2][2]
  <2>1. u \in Users /\ k \in 0 .. MaxTexts + 1
    <3>1. m[2] \in Udp!Texts
      BY DEF Udp!TypeOK
    <3> QED
      BY <3>1, TextParts
  <2>2. ~ eof[u]
    BY <1>3, <2>1, EofStays
  <2>3. k <= typed[u]
    BY <1>0, <2>2 DEF Fresh
  <2>4. typed[u] \in Nat /\ typed'[u] \in Nat /\ typed'[u] >= typed[u]
    BY <1>0, <2>1, TypedGrows
  <2> HIDE DEF u, k
  <2>5. k <= typed'[u]
    BY <1>1, <2>1, <2>3, <2>4
  <2> QED
    BY <2>3, <2>5 DEF u, k
<1>4. ASSUME NEW m \in again PROVE eof'[m[2][1]]
  <2>1. m \in told /\ eof[m[2][1]]
    BY <1>0 DEF Fresh, Udp!TypeOK
  <2>2. m[2][1] \in Users
    <3>1. m[2] \in Udp!Texts
      BY <2>1 DEF Udp!TypeOK
    <3> QED
      BY <3>1, TextParts
  <2> QED
    BY <2>1, <2>2, EofStays
<1>5. CASE Udp!Handles
  <2> DEFINE d == Head(queue)
             t == Udp!Reply(d.text)
             list == Udp!Registered(d.from)
             ts == Udp!Targets(list, d.from)
  <2>1. /\ 1 \in 1 .. Len(queue) /\ d = queue[1]
        /\ \A i \in 1 .. Len(queue') : i + 1 \in 1 .. Len(queue) /\ queue'[i] = queue[i + 1]
        /\ told' = told \union (ts \X {t})
        /\ \A m \in again' \ again : \E a \in ts :
             m = <<a, t>> /\ (m \in told \/ a \in Udp!Doubled(list))
        /\ clients' = list
    BY <1>0, <1>5, Handled
  <2>2. t = queue[1].text /\ t[1] \in Users
    <3>1. d.text \in Udp!Texts /\ d.text[1] \in Users
      BY <2>1, QueueTypes
    <3>2. t = d.text
      BY <1>0, <3>1, ReplyTypes
    <3> QED
      BY <2>1, <3>1, <3>2
  <2>3. Udp!Doubled(list) = {}
    <3>1. clients' \in Seq(Udp!Addrs)
      BY <1>5, ListTypes
    <3>2. DOMAIN clients' = 1 .. Len(clients')
      BY <3>1, LenProperties
    <3>3. list = clients'
      BY <2>1
    <3> HIDE DEF list
    <3> QED
      BY <3>2, <3>3 DEF Udp!Doubled, NoDoubles
  <2> HIDE DEF d, t, list, ts
  <2>4. \A i \in 1 .. Len(queue') : ~ eof'[queue'[i].text[1]] =>
                  /\ queue'[i].text[2] <= typed'[queue'[i].text[1]]
                  /\ \A m \in told' : m[2] # queue'[i].text
                  /\ \A j \in 1 .. Len(queue') : i # j => queue'[i].text # queue'[j].text
    <3> SUFFICES ASSUME NEW i \in 1 .. Len(queue'), ~ eof'[queue'[i].text[1]]
                 PROVE  /\ queue'[i].text[2] <= typed'[queue'[i].text[1]]
                        /\ \A m \in told' : m[2] # queue'[i].text
                        /\ \A j \in 1 .. Len(queue') : i # j => queue'[i].text # queue'[j].text
      OBVIOUS
    <3>1. i + 1 \in 1 .. Len(queue) /\ queue'[i] = queue[i + 1] /\ i + 1 # 1
      BY <1>1, <2>1
    <3>2. /\ queue'[i].text[2] <= typed'[queue'[i].text[1]]
          /\ \A m \in told : m[2] # queue'[i].text
          /\ \A j \in 1 .. Len(queue) : i + 1 # j => queue'[i].text # queue[j].text
      BY <1>2, <3>1
    <3>3. ASSUME NEW m \in told' PROVE m[2] # queue'[i].text
      BY <2>1, <2>2, <3>1, <3>2
    <3>4. ASSUME NEW j \in 1 .. Len(queue'), i # j PROVE queue'[i].text # queue'[j].text
      <4>1. j + 1 \in 1 .. Len(queue) /\ queue'[j] = queue[j + 1] /\ i + 1 # j + 1
        BY <1>1, <2>1, <3>4
      <4> QED
        BY <3>2, <4>1
    <3> QED
      BY <3>2, <3>3, <3>4
  <2>5. \A m \in told' : ~ eof'[m[2][1]] => m[2][2] <= typed'[m[2][1]]
    <3> SUFFICES ASSUME NEW m \in told', ~ eof'[m[2][1]] PROVE m[2][2] <= typed'[m[2][1]]
      OBVIOUS
    <3>1. CASE m \in told
      BY <1>3, <3>1
    <3>2. CASE m[2] = t
      BY <1>2, <2>1, <2>2, <3>2
    <3> QED
      BY <2>1, <3>1, <3>2
  <2>6. \A m \in again' : eof'[m[2][1]]
    <3>1. ASSUME NEW m \in again' \ again PROVE eof'[m[2][1]]
      <4>1. m \in told /\ m[2] = t
        BY <2>1, <2>3
      <4> QED
        BY <1>2, <2>1, <2>2, <4>1
    <3> QED
      BY <1>4, <3>1
  <2> QED
    BY <2>4, <2>5, <2>6
<1>6. CASE UNCHANGED <<queue, told, again>>
  BY <1>2, <1>3, <1>4, <1>6
<1>7. ASSUME NEW c \in Users, Udp!Says(c) \/ Udp!Repeats(c), ~ Udp!Handles
      PROVE  \A i \in 1 .. Len(queue') : ~ eof'[queue'[i].text[1]] =>
                  /\ queue'[i].text[2] <= typed'[queue'[i].text[1]]
                  /\ \A m \in told' : m[2] # queue'[i].text
                  /\ \A j \in 1 .. Len(queue') : i # j => queue'[i].text # queue'[j].text
  <2>1. PICK k \in 0 .. MaxTexts + 1 :
          Udp!Submits(c, k) /\ (Udp!Says(c) => k = typed[c] + 1)
    BY <1>7, Submitters
  <2> DEFINE t == Udp!Text(c, k)
  <2>2. \A i \in 1 .. Len(queue') :
          \/ i \in 1 .. Len(queue) /\ queue'[i] = queue[i]
          \/ i = Len(queue) + 1 /\ queue'[i] = [from |-> AddrOf[c], text |-> t]
    BY <2>1, Submitted
  <2>3. t[1] = c /\ t[2] = k /\ told' = told
    BY <1>7, OnlyHandles, TextTypes
  <2> HIDE DEF t
  <2>4. ~ eof'[c] => k = typed[c] + 1 /\ k = typed'[c] /\ typed[c] \in Nat
    BY <1>7, <2>1 DEF Udp!Says, Udp!Repeats, Udp!clientVars, Udp!TypeOK
  <2>5. ASSUME NEW i \in 1 .. Len(queue), ~ eof'[queue[i].text[1]] PROVE queue[i].text # t
    <3> SUFFICES ASSUME queue[i].text = t PROVE FALSE
      OBVIOUS
    <3>1. k <= typed[c] /\ ~ eof'[c]
      BY <1>2, <2>3, <2>5
    <3> QED
      BY <2>4, <3>1
  <2>6. ~ eof'[c] => \A m \in told : m[2] # t
    <3> SUFFICES ASSUME ~ eof'[c], NEW m \in told, m[2] = t PROVE FALSE
      OBVIOUS
    <3>1. k <= typed[c]
      BY <1>3, <2>3
    <3> QED
      BY <2>4, <3>1
  <2> SUFFICES ASSUME NEW i \in 1 .. Len(queue'), ~ eof'[queue'[i].text[1]]
               PROVE  /\ queue'[i].text[2] <= typed'[queue'[i].text[1]]
                      /\ \A m \in told : m[2] # queue'[i].text
                      /\ \A j \in 1 .. Len(queue') : i # j => queue'[i].text # queue'[j].text
    BY <2>3
  <2>7. CASE i \in 1 .. Len(queue) /\ queue'[i] = queue[i]
    <3>1. ASSUME NEW j \in 1 .. Len(queue'), i # j PROVE queue'[i].text # queue'[j].text
      <4>1. CASE j \in 1 .. Len(queue) /\ queue'[j] = queue[j]
        BY <1>2, <2>7, <3>1, <4>1
      <4>2. CASE queue'[j] = [from |-> AddrOf[c], text |-> t]
        <5>1. queue'[j].text = t
          BY <4>2
        <5> QED
          BY <2>5, <2>7, <5>1
      <4> QED
        BY <2>2, <4>1, <4>2
    <3> QED
      BY <1>2, <2>7, <3>1
  <2>8. CASE i = Len(queue) + 1 /\ queue'[i] = [from |-> AddrOf[c], text |-> t]
    <3>1. queue'[i].text = t
      BY <2>8
    <3>2. ~ eof'[c] /\ k = typed'[c] /\ k \in Int
      BY <2>3, <2>4, <3>1
    <3>3. ASSUME NEW j \in 1 .. Len(queue'), i # j PROVE queue'[i].text # queue'[j].text
      <4>1. j \in 1 .. Len(queue) /\ queue'[j] = queue[j]
        BY <2>2, <2>8, <3>3
      <4> SUFFICES ASSUME queue[j].text = t PROVE FALSE
        BY <3>1, <4>1
      <4>2. ~ eof'[queue[j].text[1]]
        BY <2>3, <3>2
      <4> QED
        BY <2>5, <4>1, <4>2
    <3> QED
      BY <2>3, <2>6, <3>1, <3>2, <3>3
  <2> QED
    BY <2>2, <2>7, <2>8
<1>8. ASSUME ~ Udp!Handles
      PROVE  UNCHANGED <<told, again>> /\
             (\/ UNCHANGED queue
              \/ \E c \in Users : Udp!Says(c) \/ Udp!Repeats(c))
  BY <1>0, <1>8, OnlyHandles DEF Udp!Next, Udp!vars, Udp!Client, Udp!Asks, Udp!Listens,
       Udp!Answered, Udp!Starts, Udp!InputEnds, Udp!Killed
<1> QED
  BY <1>3, <1>4, <1>5, <1>6, <1>7, <1>8

\* How a process goes on: it starts, asks, is answered, or is killed for good.
LEMMA Moves ==
  ASSUME Udp!TypeOK, [Udp!Next]_Udp!vars, NEW d \in Users
  PROVE  \/ pc'[d] = pc[d]
         \/ Udp!Starts(d) /\ pc[d] = "off" /\ pc'[d] = "up"
         \/ /\ Udp!Asks(d) /\ pc[d] = "up"
            /\ pc'[d] = IF kind \in Udp!Echoes THEN "waiting" ELSE "over"
         \/ Udp!Answered(d) /\ pc[d] = "waiting" /\ pc'[d] = "over"
         \/ Udp!Killed(d) /\ Udp!Up(d) /\ pc'[d] = "killed"
<1>0. pc \in [Users -> {"off", "up", "waiting", "over", "killed"}]
  BY DEF Udp!TypeOK
<1>1. ASSUME NEW c \in Users, c # d,
             Udp!Starts(c) \/ Udp!Asks(c) \/ Udp!Answered(c) \/ Udp!Killed(c)
      PROVE  pc'[d] = pc[d]
  BY <1>0, <1>1 DEF Udp!Starts, Udp!Asks, Udp!Answered, Udp!Killed
<1>2. ASSUME NEW c \in Users,
             Udp!Says(c) \/ Udp!InputEnds(c) \/ Udp!Repeats(c) \/ Udp!Listens(c)
      PROVE  pc'[d] = pc[d]
  BY <1>2 DEF Udp!Says, Udp!InputEnds, Udp!Repeats, Udp!Listens, Udp!clientVars
<1>3. Udp!Starts(d) => pc[d] = "off" /\ pc'[d] = "up"
  BY <1>0 DEF Udp!Starts
<1>4. Udp!Asks(d) =>
        pc[d] = "up" /\ pc'[d] = IF kind \in Udp!Echoes THEN "waiting" ELSE "over"
  BY <1>0 DEF Udp!Asks
<1>5. Udp!Answered(d) => pc[d] = "waiting" /\ pc'[d] = "over"
  BY <1>0 DEF Udp!Answered
<1>6. Udp!Killed(d) => Udp!Up(d) /\ pc'[d] = "killed"
  BY <1>0 DEF Udp!Killed
<1>7. Udp!Handles \/ UNCHANGED Udp!vars => pc'[d] = pc[d]
  BY DEF Udp!Handles, Udp!vars, Udp!clientVars
<1> QED
  BY <1>1, <1>2, <1>3, <1>4, <1>5, <1>6, <1>7 DEF Udp!Next, Udp!Client

\* The killed stay so.
LEMMA BuriedStays ==
  ASSUME Udp!TypeOK, [Udp!Next]_Udp!vars, NEW d \in Users, pc[d] = "killed"
  PROVE  pc'[d] = "killed"
BY Moves DEF Udp!Up

\* A client whose text is underway waits on, until it takes an answer.
LEMMA AskedStays ==
  ASSUME Udp!TypeOK, [Udp!Next]_Udp!vars, NEW d \in Users, Asked(d)
  PROVE  /\ \/ Udp!Answered(d) \/ pc'[d] = "waiting"
            \/ \E e \in Users : AddrOf[e] = AddrOf[d] /\ pc'[e] = "killed"
         /\ pc'[d] \notin {"off", "up"}
<1>1. CASE pc[d] = "waiting"
  BY <1>1, Moves DEF Udp!Up
<1>2. CASE pc[d] # "waiting"
  <2>1. PICK e \in Users : AddrOf[e] = AddrOf[d] /\ pc[e] = "killed"
    BY <1>2 DEF Asked, Buried
  <2>2. pc'[e] = "killed"
    BY <2>1, BuriedStays
  <2>3. pc'[d] \notin {"off", "up"}
    BY <1>2, Moves DEF Asked, Udp!Up
  <2> QED
    BY <2>1, <2>2, <2>3
<1> QED
  BY <1>1, <1>2

\* A client starts on a port that none uses.
LEMMA NextUser ==
  ASSUME Udp!TypeOK, OneUser, [Udp!Next]_Udp!vars PROVE OneUser'
<1> DEFINE Alive(x) == pc'[x] \in {"up", "waiting"}
<1>1. SUFFICES ASSUME NEW c \in Users, NEW d \in Users, Alive(c), Alive(d),
                      AddrOf[c] = AddrOf[d]
               PROVE  c = d
  BY DEF OneUser, Udp!Up
<1>2. ASSUME NEW x \in Users, Alive(x) PROVE Udp!Up(x) \/ Udp!Starts(x)
  BY <1>2, Moves DEF Udp!Up
<1>3. ASSUME NEW x \in Users, NEW y \in Users, x # y, Udp!Starts(x), Alive(y),
             AddrOf[x] = AddrOf[y]
      PROVE  FALSE
  <2>1. pc'[y] = pc[y]
    BY <1>3 DEF Udp!Starts, Udp!TypeOK
  <2> QED
    BY <1>3, <2>1 DEF Udp!Starts, Udp!InUse, Udp!Up
<1> QED
  BY <1>1, <1>2, <1>3 DEF OneUser

\* Only what an echo server is asked makes a client wait.
LEMMA NextWait ==
  ASSUME Udp!TypeOK, OthersWait, [Udp!Next]_Udp!vars PROVE OthersWait'
<1> SUFFICES ASSUME NEW c \in Users, pc'[c] = "waiting" PROVE kind \in Udp!Echoes
  BY OnlyHandles DEF OthersWait, Udp!Echoes
<1> QED
  BY Moves DEF OthersWait

\* What is in a waiting client's socket is its own text, or of one killed there.
LEMMA HeadOwned ==
  ASSUME UdpInv, NEW c \in Users, Udp!Answered(c)
  PROVE  /\ kind \in Udp!Echoes
         /\ \E e \in Users :
              /\ Head(socket[AddrOf[c]]) = Udp!Reply(Udp!Text(e, 1))
              /\ e = c => \A i \in 1 .. Len(queue) : queue[i].text[1] # c
              /\ e # c => \E d \in Users \ {c} : AddrOf[d] = AddrOf[c] /\ pc[d] = "killed"
<1> USE DEF UdpInv
<1> DEFINE a == AddrOf[c]
           t == Head(socket[a])
           e == t[1]
<1>1. pc[c] = "waiting" /\ socket[a] # <<>> /\ kind \in Udp!Echoes
  BY DEF Udp!Answered, OthersWait
<1>2. a \in Udp!Addrs /\ socket[a] \in Seq(Udp!Texts) /\ Len(socket[a]) \in Nat
  BY AddrTypes, SocketTypes
<1>3. 1 \in 1 .. Len(socket[a]) /\ t = socket[a][1]
  BY <1>1, <1>2, Received
<1>4. /\ e \in Users /\ t = Udp!Reply(Udp!Text(e, 1)) /\ AddrOf[e] = a /\ Asked(e)
      /\ \A i \in 1 .. Len(queue) : queue[i].text[1] # e
  BY <1>1, <1>2, <1>3, SocketTypes DEF Owned
<1> HIDE DEF t, e
<1>5. ASSUME e # c PROVE \E d \in Users \ {c} : AddrOf[d] = a /\ pc[d] = "killed"
  <2>1. pc[e] # "waiting"
    BY <1>1, <1>4, <1>5 DEF OneUser, Udp!Up
  <2> QED
    BY <1>1, <1>4, <2>1 DEF Asked, Buried
<1> QED
  BY <1>1, <1>4, <1>5 DEF t

\* What a client takes is its own text, or one that was meant for a client killed
\* on its port.
LEMMA NextAnswers ==
  ASSUME UdpInv, [Udp!Next]_Udp!vars PROVE Answers'
<1> SUFFICES ASSUME NEW c \in Users, NEW t \in answer'[c]
             PROVE  \/ t = Udp!Reply(Udp!Text(c, 1))
                    \/ \E d \in Users \ {c} : AddrOf[d] = AddrOf[c] /\ pc'[d] = "killed"
  BY OnlyHandles DEF Answers, Udp!Reply, Udp!Text
<1>1. CASE t \in answer[c]
  BY <1>1, BuriedStays DEF Answers, UdpInv
<1>2. CASE t \notin answer[c]
  <2>1. Udp!Answered(c) /\ t = Head(socket[AddrOf[c]])
    <3>1. ASSUME NEW d \in Users, Udp!Answered(d)
          PROVE  d = c /\ t = Head(socket[AddrOf[c]])
      BY <1>2, <3>1 DEF Udp!Answered, Udp!TypeOK, UdpInv
    <3> QED
      BY <1>2, <3>1 DEF Udp!Next, Udp!vars, Udp!clientVars, Udp!Client, Udp!Handles, Udp!Says,
           Udp!Repeats, Udp!Asks, Udp!Listens, Udp!Starts, Udp!InputEnds, Udp!Killed
  <2> QED
    BY <2>1, HeadOwned, BuriedStays DEF UdpInv
<1> QED
  BY <1>1, <1>2

\* A text asked of an echo server goes to the server and back, once.
LEMMA NextOwned ==
  ASSUME UdpParameters, UdpInv, [Udp!Next]_Udp!vars PROVE Owned'
<1> USE DEF UdpInv
<1> DEFINE Waits(d) ==
             /\ pc'[d] \notin {"off", "up"}
             /\ pc'[d] = "waiting" \/ \E e \in Users : AddrOf[e] = AddrOf[d] /\ pc'[e] = "killed"
           Q == \A i \in 1 .. Len(queue') :
                  /\ queue'[i].text = Udp!Text(queue'[i].text[1], 1)
                  /\ queue'[i].from = AddrOf[queue'[i].text[1]]
                  /\ Waits(queue'[i].text[1])
                  /\ \A j \in 1 .. Len(queue') : i # j => queue'[i].text[1] # queue'[j].text[1]
           S == \A a \in Udp!Addrs : \A j \in 1 .. Len(socket'[a]) :
                  /\ socket'[a][j] = Udp!Reply(Udp!Text(socket'[a][j][1], 1))
                  /\ AddrOf[socket'[a][j][1]] = a
                  /\ Waits(socket'[a][j][1])
                  /\ \A i \in 1 .. Len(queue') : queue'[i].text[1] # socket'[a][j][1]
<1>0. SUFFICES ASSUME kind \in Udp!Echoes PROVE Q /\ S
  BY OnlyHandles DEF Owned, Asked, Buried, Udp!Echoes, Udp!Reply, Udp!Text
<1>1. kind # "chat" /\ kind # "broadcast" /\ Len(queue) \in Nat
  BY <1>0, QueueTypes DEF Udp!Echoes
<1>2. ASSUME NEW i \in 1 .. Len(queue)
      PROVE  /\ queue[i].text[1] \in Users
             /\ queue[i].text = Udp!Text(queue[i].text[1], 1)
             /\ queue[i].from = AddrOf[queue[i].text[1]]
             /\ pc[queue[i].text[1]] # "up"
             /\ Waits(queue[i].text[1])
             /\ \A j \in 1 .. Len(queue) : i # j => queue[i].text[1] # queue[j].text[1]
  <2> DEFINE x == queue[i].text[1]
  <2>1. x \in Users
    BY QueueTypes
  <2>2. /\ queue[i].text = Udp!Text(x, 1) /\ queue[i].from = AddrOf[x] /\ Asked(x)
        /\ \A j \in 1 .. Len(queue) : i # j => x # queue[j].text[1]
    BY <1>0 DEF Owned
  <2>3. ASSUME Udp!Answered(x)
        PROVE  \E d \in Users \ {x} : AddrOf[d] = AddrOf[x] /\ pc[d] = "killed"
    BY <2>1, <2>3, HeadOwned
  <2> HIDE DEF x
  <2>4. Waits(x)
    BY <2>1, <2>2, <2>3, AskedStays, BuriedStays
  <2> QED
    BY <2>1, <2>2, <2>4 DEF x, Asked
<1>3. ASSUME NEW a \in Udp!Addrs, NEW j \in 1 .. Len(socket[a])
      PROVE  /\ socket[a][j][1] \in Users
             /\ socket[a][j] = Udp!Reply(Udp!Text(socket[a][j][1], 1))
             /\ AddrOf[socket[a][j][1]] = a
             /\ pc[socket[a][j][1]] # "up"
             /\ Waits(socket[a][j][1]) \/ Udp!Answered(socket[a][j][1])
             /\ \A i \in 1 .. Len(queue) : queue[i].text[1] # socket[a][j][1]
  <2> DEFINE x == socket[a][j][1]
  <2>1. x \in Users
    BY SocketTypes
  <2>2. /\ socket[a][j] = Udp!Reply(Udp!Text(x, 1)) /\ AddrOf[x] = a /\ Asked(x)
        /\ \A i \in 1 .. Len(queue) : queue[i].text[1] # x
    BY <1>0 DEF Owned
  <2> HIDE DEF x
  <2>3. Waits(x) \/ Udp!Answered(x)
    BY <2>1, <2>2, AskedStays
  <2> QED
    BY <2>1, <2>2, <2>3 DEF x, Asked
<1>4. ASSUME NEW c \in Users, Udp!Answered(c)
      PROVE  UNCHANGED queue /\ socket' = [socket EXCEPT ![AddrOf[c]] = <<>>]
  BY <1>4 DEF Udp!Answered
<1> HIDE DEF Waits
<1>5. CASE Udp!Handles
  <2> DEFINE d == Head(queue)
             t == Udp!Reply(d.text)
             ts == Udp!Targets(Udp!Registered(d.from), d.from)
             x == d.text[1]
  <2>1. /\ 1 \in 1 .. Len(queue) /\ d = queue[1]
        /\ \A i \in 1 .. Len(queue') : i + 1 \in 1 .. Len(queue) /\ queue'[i] = queue[i + 1]
        /\ \A a \in Udp!Addrs : \A i \in 1 .. Len(socket'[a]) :
             \/ i \in 1 .. Len(socket[a]) /\ socket'[a][i] = socket[a][i]
             \/ a \in ts /\ socket'[a][i] = t
    BY <1>1, <1>5, Handled
  <2>2. ts = {d.from}
    BY <1>0, <1>1 DEF Udp!Targets, Udp!Echoes
  <2>3. d.text \in Udp!Texts
    BY <2>1, QueueTypes
  <2>4. t[1] = x
    BY <2>3, ReplyTypes
  <2>5. /\ x \in Users /\ d.text = Udp!Text(x, 1) /\ d.from = AddrOf[x] /\ Waits(x)
        /\ \A j \in 1 .. Len(queue) : 1 # j => x # queue[j].text[1]
    BY <1>2, <2>1
  <2>6. t = Udp!Reply(Udp!Text(x, 1))
    BY <2>5
  <2>7. \A c \in Users : ~ Udp!Answered(c)
    BY <1>5 DEF Udp!Handles, Udp!Answered, Udp!clientVars, Udp!TypeOK
  <2> HIDE DEF d, t, ts, x
  <2>8. Q
    <3> SUFFICES ASSUME NEW i \in 1 .. Len(queue')
                 PROVE  /\ queue'[i].text = Udp!Text(queue'[i].text[1], 1)
                        /\ queue'[i].from = AddrOf[queue'[i].text[1]]
                        /\ Waits(queue'[i].text[1])
                        /\ \A j \in 1 .. Len(queue') :
                             i # j => queue'[i].text[1] # queue'[j].text[1]
      OBVIOUS
    <3>1. i + 1 \in 1 .. Len(queue) /\ queue'[i] = queue[i + 1]
      BY <2>1
    <3>2. ASSUME NEW j \in 1 .. Len(queue'), i # j PROVE queue'[i].text[1] # queue'[j].text[1]
      <4>1. j + 1 \in 1 .. Len(queue) /\ queue'[j] = queue[j + 1] /\ i + 1 # j + 1
        BY <1>1, <2>1, <3>2
      <4> QED
        BY <1>2, <3>1, <4>1
    <3> QED
      BY <1>2, <3>1, <3>2
  <2>9. S
    <3> SUFFICES ASSUME NEW a \in Udp!Addrs, NEW j \in 1 .. Len(socket'[a])
                 PROVE  /\ socket'[a][j] = Udp!Reply(Udp!Text(socket'[a][j][1], 1))
                        /\ AddrOf[socket'[a][j][1]] = a
                        /\ Waits(socket'[a][j][1])
                        /\ \A i \in 1 .. Len(queue') : queue'[i].text[1] # socket'[a][j][1]
      OBVIOUS
    <3>1. \A i \in 1 .. Len(queue') : i + 1 # 1
      OBVIOUS
    <3>2. CASE j \in 1 .. Len(socket[a]) /\ socket'[a][j] = socket[a][j]
      BY <1>3, <2>1, <2>7, <3>2
    <3>3. CASE a \in ts /\ socket'[a][j] = t
      BY <2>1, <2>2, <2>4, <2>5, <2>6, <3>1, <3>3
    <3> QED
      BY <2>1, <3>2, <3>3
  <2> QED
    BY <2>8, <2>9
<1>6. ASSUME NEW c \in Users, Udp!Asks(c) PROVE Q /\ S
  <2>1. PICK k \in 0 .. MaxTexts + 1 : Udp!Submits(c, k) /\ k = 1
    BY <1>6, Submitters
  <2> DEFINE t == Udp!Text(c, 1)
  <2>2. /\ \A i \in 1 .. Len(queue') :
             \/ i \in 1 .. Len(queue) /\ queue'[i] = queue[i]
             \/ i = Len(queue) + 1 /\ queue'[i] = [from |-> AddrOf[c], text |-> t]
        /\ t[1] = c
    BY <2>1, Submitted, TextTypes
  <2>3. socket' = socket /\ pc[c] = "up" /\ Waits(c) /\ t = Udp!Text(c, 1)
    BY <1>0, <1>6 DEF Udp!Asks, Udp!TypeOK, Waits
  <2>4. \A x \in Users : ~ Udp!Answered(x)
    BY <2>3, <1>6 DEF Udp!Asks, Udp!Answered, Udp!TypeOK
  <2> HIDE DEF t
  <2>5. \A i \in 1 .. Len(queue') :
             \/ i \in 1 .. Len(queue) /\ queue'[i] = queue[i]
             \/ i = Len(queue) + 1 /\ queue'[i].from = AddrOf[c] /\ queue'[i].text = t
    BY <2>2
  <2>6. Q
    <3> SUFFICES ASSUME NEW i \in 1 .. Len(queue')
                 PROVE  /\ queue'[i].text = Udp!Text(queue'[i].text[1], 1)
                        /\ queue'[i].from = AddrOf[queue'[i].text[1]]
                        /\ Waits(queue'[i].text[1])
                        /\ \A j \in 1 .. Len(queue') :
                             i # j => queue'[i].text[1] # queue'[j].text[1]
      OBVIOUS
    <3>1. CASE i \in 1 .. Len(queue) /\ queue'[i] = queue[i]
      BY <1>2, <2>2, <2>3, <2>5, <3>1
    <3>2. CASE i = Len(queue) + 1 /\ queue'[i].from = AddrOf[c] /\ queue'[i].text = t
      BY <1>2, <2>2, <2>3, <2>5, <3>2
    <3> QED
      BY <2>5, <3>1, <3>2
  <2>7. S
    BY <1>3, <2>2, <2>3, <2>4, <2>5
  <2> QED
    BY <2>6, <2>7
<1>7. ASSUME NEW c \in Users, Udp!Answered(c) \/ Udp!Killed(c) PROVE Q /\ S
  <2>1. queue' = queue /\ socket' = [socket EXCEPT ![AddrOf[c]] = <<>>]
    BY <1>7 DEF Udp!Answered, Udp!Killed
  <2>2. AddrOf[c] \in Udp!Addrs /\ Len(socket'[AddrOf[c]]) = 0
    BY <2>1, AddrTypes DEF Udp!TypeOK
  <2>3. ASSUME NEW a \in Udp!Addrs, NEW j \in 1 .. Len(socket'[a])
        PROVE  a # AddrOf[c] /\ socket'[a] = socket[a]
    BY <2>1, <2>2, <2>3 DEF Udp!TypeOK
  <2>4. ASSUME NEW x \in Users, Udp!Answered(x) PROVE AddrOf[x] = AddrOf[c]
    <3>1. AddrOf[x] \in Udp!Addrs /\ socket' = [socket EXCEPT ![AddrOf[x]] = <<>>]
          /\ socket[AddrOf[x]] # <<>>
      BY <2>4, AddrTypes DEF Udp!Answered
    <3>2. socket'[AddrOf[x]] = <<>>
      BY <3>1 DEF Udp!TypeOK
    <3> QED
      BY <2>1, <3>1, <3>2 DEF Udp!TypeOK
  <2>5. Q
    BY <1>2, <2>1
  <2>6. S
    BY <1>3, <2>1, <2>3, <2>4
  <2> QED
    BY <2>5, <2>6
<1>8. ASSUME UNCHANGED <<queue, socket>>, \A x \in Users : ~ Udp!Answered(x) PROVE Q /\ S
  BY <1>2, <1>3, <1>8
<1>9. \/ Udp!Handles
      \/ \E c \in Users : Udp!Asks(c) \/ Udp!Answered(c) \/ Udp!Killed(c)
      \/ UNCHANGED <<queue, socket>> /\ \A x \in Users : ~ Udp!Answered(x)
  <2>1. ASSUME NEW c \in Users, Udp!Starts(c)
        PROVE  UNCHANGED <<queue, socket>>
    BY <2>1 DEF Udp!Starts
  <2>2. \A c \in Users : ~ Udp!Says(c) /\ ~ Udp!InputEnds(c) /\ ~ Udp!Repeats(c) /\ ~ Udp!Listens(c)
    BY <1>1 DEF Udp!Says, Udp!InputEnds, Udp!Repeats, Udp!Listens, InputsEnd
  <2>3. UNCHANGED Udp!vars => UNCHANGED <<queue, socket>>
    BY DEF Udp!vars
  <2> QED
    BY <2>1, <2>2, <2>3 DEF Udp!Next, Udp!Client
<1> QED
  BY <1>5, <1>6, <1>7, <1>8, <1>9

\* Every step keeps the invariant.
LEMMA UdpNextInv ==
  ASSUME UdpParameters, UdpInv, [Udp!Next]_Udp!vars PROVE UdpInv'
<1>1. Udp!TypeOK' /\ NoDoubles' /\ FromClients' /\ InputsEnd'
  BY UdpNextTypes, NextDoubles, NextFrom, NextInputs DEF UdpInv
<1>2. Addressed' /\ Deafened' /\ Fresh'
  BY <1>1, NextAddressed, NextDeafened, NextFresh
<1>3. OneUser' /\ Owned' /\ Answers' /\ OthersWait'
  BY NextUser, NextOwned, NextAnswers, NextWait DEF UdpInv
<1> QED
  BY <1>1, <1>2, <1>3 DEF UdpInv

\* The invariant holds of the UDP servers and their clients, whatever their numbers.
THEOREM UdpServersInv == UdpParameters => (Udp!Spec => []UdpInv)
<1> SUFFICES ASSUME UdpParameters PROVE Udp!Spec => []UdpInv
  OBVIOUS
<1>1. Udp!Init => UdpInv
  BY UdpInitInv
<1>2. UdpInv /\ [Udp!Next]_Udp!vars => UdpInv'
  BY UdpNextInv
<1> QED
  BY <1>1, <1>2, PTL DEF Udp!Spec

\* Type correctness of the five servers and of their clients.
THEOREM UdpTypes == UdpParameters => (Udp!Spec => []Udp!TypeOK)
<1> SUFFICES ASSUME UdpParameters PROVE Udp!Spec => []Udp!TypeOK
  OBVIOUS
<1>1. UdpInv => Udp!TypeOK
  BY DEF UdpInv
<1> QED
  BY <1>1, UdpServersInv, PTL

\* HeardRight: who receives what from which server.  No chat text is sent back to the
\* address it came from or, while its author types, to any address twice; a chat
\* client goes deaf only through a silent client elsewhere; and an echo client takes
\* its own answer, or one left over for a process killed on its port.
THEOREM UdpHeardRight == UdpParameters => (Udp!Spec => []Udp!HeardRight)
<1> SUFFICES ASSUME UdpParameters PROVE Udp!Spec => []Udp!HeardRight
  OBVIOUS
<1>1. UdpInv => Udp!HeardRight
  <2> SUFFICES ASSUME UdpInv PROVE Udp!HeardRight
    OBVIOUS
  <2>1. kind = "chat" =>
          /\ \A m \in told : AddrOf[m[2][1]] # m[1]
          /\ \A m \in again : eof[m[2][1]]
    BY DEF UdpInv, Addressed, Fresh
  <2>2. \A c \in Users : rcv[c] = "deaf" =>
          \E d \in Users : AddrOf[d] # AddrOf[c] /\ eof[d] /\ typed[d] = 0
    BY DEF UdpInv, Deafened, Silent
  <2>3. \A c \in Users : \A t \in answer[c] :
          \/ t = Udp!Reply(Udp!Text(c, 1))
          \/ \E d \in Users \ {c} : AddrOf[d] = AddrOf[c] /\ pc[d] = "killed"
    BY DEF UdpInv, Answers
  <2> QED
    BY <2>1, <2>2, <2>3 DEF Udp!HeardRight
<1> QED
  BY <1>1, UdpServersInv, PTL
=============================================================================
