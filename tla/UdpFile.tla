------------------------------ MODULE UdpFile -------------------------------
(***************************************************************************)
(* MoreLearning/UDP_FILE: a server that sends one file to the first client *)
(* that asks, one datagram per chunk, waiting up to AckWait seconds for    *)
(* any datagram before the next, and a client that writes what it gets     *)
(* until it sees the end marker, an error, or RecvWait seconds of silence. *)
(* Nothing is ever sent twice.                                             *)
(*                                                                         *)
(* Chunk k of the file is the number k.  The two programs run on one host, *)
(* so datagrams are not reordered or duplicated, but one may be lost.      *)
(* Time is counted in seconds by Tick.                                     *)
(***************************************************************************)
EXTENDS Integers, Sequences, SequencesExt

CONSTANTS
    Clients,     \* client processes
    NoClient,    \* the server has not been asked yet
    Chunks,      \* chunks of file.txt
    MaxLost      \* bound: datagrams the network loses

ASSUME ChunksAssumption == Chunks \in Nat
ASSUME NoClientAssumption == NoClient \notin Clients

VARIABLES
    spc,       \* what the server does next
    client,    \* the client it serves
    sent,      \* packet_count: chunks sent so far
    swait,     \* seconds the server has waited in recvfrom
    mailbox,   \* datagrams waiting at the server's socket
    cpc,       \* what each client does
    end,       \* what ended each client's loop
    file,      \* the chunks each client has written to received.txt
    cwait,     \* seconds each client has waited in recvfrom
    inbox,     \* datagrams waiting at each client's socket
    lost,      \* datagrams lost so far
    lastChunk, \* the bytes of the last chunk: "EOF", "ERROR" or other "data"
    slow       \* time has passed while a process had something to do (history)

serverVars == <<spc, client, sent, swait>>
clientVars == <<cpc, end, file, cwait>>
netVars == <<mailbox, inbox, lost>>
vars == <<serverVars, clientVars, netVars, lastChunk, slow>>

EofMark == 0
ErrorMark == -1

Init ==
    /\ spc = "request"
    /\ client = NoClient
    /\ sent = 0
    /\ swait = 0
    /\ mailbox = <<>>
    /\ cpc = [c \in Clients |-> "start"]
    /\ end = [c \in Clients |-> "none"]
    /\ file = [c \in Clients |-> <<>>]
    /\ cwait = [c \in Clients |-> 0]
    /\ inbox = [c \in Clients |-> <<>>]
    /\ lost = 0
    /\ lastChunk \in {"data", "EOF", "ERROR"}
    /\ slow = FALSE

-----------------------------------------------------------------------------
(* sendto(): the datagram is queued at the other socket, or lost.  At a
   process that has exited there is no socket, and nobody is told. *)

Loses == lost < MaxLost /\ lost' = lost + 1

SendToClient(c, d) ==
    \/ /\ inbox' = IF cpc[c] = "done" THEN inbox ELSE [inbox EXCEPT ![c] = Append(@, d)]
       /\ UNCHANGED lost
    \/ Loses /\ UNCHANGED inbox

SendToServer(m) ==
    \/ /\ mailbox' = IF spc = "done" THEN mailbox ELSE Append(mailbox, m)
       /\ UNCHANGED lost
    \/ Loses /\ UNCHANGED mailbox

-----------------------------------------------------------------------------
(* UDP_FILE_SERVER.c *)

\* The seconds of SO_RCVTIMEO (line 66).  Mutant: as long as the client's.
AckWaitTooLong == 5
AckWait == 2

\* The first datagram, whatever it says, is the request.
ServerRequest ==
    /\ spc = "request"
    /\ mailbox # <<>>
    /\ client' = Head(mailbox)
    /\ mailbox' = Tail(mailbox)
    /\ spc' = "open"
    /\ UNCHANGED <<sent, swait, clientVars, inbox, lost>>

ServerOpen ==
    /\ spc = "open"
    /\ spc' = "send"
    /\ UNCHANGED <<client, sent, swait, clientVars, netVars>>

ServerOpenFails ==
    /\ spc = "open"
    /\ SendToClient(client, ErrorMark)
    /\ spc' = "done"
    /\ UNCHANGED <<client, sent, swait, clientVars, mailbox>>

ServerSend ==
    /\ spc = "send"
    /\ sent < Chunks
    /\ sent' = sent + 1
    /\ SendToClient(client, sent + 1)
    /\ swait' = 0
    /\ spc' = "ack"
    /\ UNCHANGED <<client, clientVars, mailbox>>

\* recvfrom() > 0: any datagram from anybody counts as the acknowledgment.
ServerAck ==
    /\ spc = "ack"
    /\ mailbox # <<>>
    /\ mailbox' = Tail(mailbox)
    /\ spc' = "send"
    /\ UNCHANGED <<client, sent, swait, clientVars, inbox, lost>>

\* Mutant: the chunk is sent again after a timeout.
ServerRetransmits ==
    /\ spc = "ack"
    /\ mailbox = <<>>
    /\ swait = AckWait
    /\ SendToClient(client, sent)
    /\ swait' = 0
    /\ UNCHANGED <<spc, client, sent, clientVars, mailbox>>

\* Mutant: without SO_RCVTIMEO the wait never ends.
ServerWaitsForEver == FALSE /\ UNCHANGED vars

ServerNoAck ==
    /\ spc = "ack"
    /\ mailbox = <<>>
    /\ swait = AckWait
    /\ spc' = "send"
    /\ UNCHANGED <<client, sent, swait, clientVars, netVars>>

\* Mutant: a read that fails is taken for the end of the file.
ServerEndEarly ==
    /\ spc = "send"
    /\ SendToClient(client, EofMark)
    /\ spc' = "done"
    /\ UNCHANGED <<client, sent, swait, clientVars, mailbox>>

ServerEnd ==
    /\ spc = "send"
    /\ sent = Chunks
    /\ SendToClient(client, EofMark)
    /\ spc' = "done"
    /\ UNCHANGED <<client, sent, swait, clientVars, mailbox>>

-----------------------------------------------------------------------------
(* UDP_FILE_CLIENT.c *)

RecvWait == 5

\* fopen() and the request.
ClientStart(c) ==
    /\ cpc[c] = "start"
    /\ SendToServer(c)
    /\ cpc' = [cpc EXCEPT ![c] = "recv"]
    /\ UNCHANGED <<serverVars, end, file, cwait, inbox>>

\* The markers are told from data by their bytes: a last chunk of three bytes
\* "EOF", or of five bytes "ERROR", is one.
IsEof(d) == d = EofMark \/ (d > 0 /\ d = Chunks /\ lastChunk = "EOF")
IsError(d) == d = ErrorMark \/ (d > 0 /\ d = Chunks /\ lastChunk = "ERROR")

Ends(c, why) ==
    /\ cpc' = [cpc EXCEPT ![c] = "done"]
    /\ end' = [end EXCEPT ![c] = why]
    /\ inbox' = [inbox EXCEPT ![c] = <<>>]

ClientData(c) ==
    /\ cpc[c] = "recv"
    /\ inbox[c] # <<>>
    /\ ~IsEof(Head(inbox[c])) /\ ~IsError(Head(inbox[c]))
    /\ file' = [file EXCEPT ![c] = Append(@, Head(inbox[c]))]
    /\ inbox' = [inbox EXCEPT ![c] = Tail(@)]
    /\ cwait' = [cwait EXCEPT ![c] = 0]
    /\ SendToServer(c)
    /\ UNCHANGED <<serverVars, cpc, end>>

ClientEof(c) ==
    /\ cpc[c] = "recv"
    /\ inbox[c] # <<>> /\ IsEof(Head(inbox[c]))
    /\ Ends(c, "eof")
    /\ UNCHANGED <<serverVars, file, cwait, mailbox, lost>>

ClientError(c) ==
    /\ cpc[c] = "recv"
    /\ inbox[c] # <<>> /\ IsError(Head(inbox[c]))
    /\ Ends(c, "error")
    /\ UNCHANGED <<serverVars, file, cwait, mailbox, lost>>

ClientTimeout(c) ==
    /\ cpc[c] = "recv"
    /\ inbox[c] = <<>>
    /\ cwait[c] = RecvWait
    /\ Ends(c, "timeout")
    /\ UNCHANGED <<serverVars, file, cwait, mailbox, lost>>

-----------------------------------------------------------------------------
ServerWaits == spc = "ack" /\ mailbox = <<>> /\ swait < AckWait
ClientWaits(c) == cpc[c] = "recv" /\ inbox[c] = <<>> /\ cwait[c] < RecvWait

\* Nobody can do anything but wait.
Quiet ==
    /\ ServerWaits \/ spc = "done" \/ (spc = "request" /\ mailbox = <<>>)
    /\ \A c \in Clients : ClientWaits(c) \/ cpc[c] \in {"start", "done"}

Tick ==
    /\ ServerWaits \/ \E c \in Clients : ClientWaits(c)
    /\ swait' = IF ServerWaits THEN swait + 1 ELSE swait
    /\ cwait' = [c \in Clients |-> IF ClientWaits(c) THEN cwait[c] + 1 ELSE cwait[c]]
    /\ slow' = (slow \/ ~Quiet)
    /\ UNCHANGED <<spc, client, sent, cpc, end, file, netVars, lastChunk>>

Server ==
    /\ \/ ServerRequest
       \/ ServerOpen
       \/ ServerOpenFails
       \/ ServerSend
       \/ ServerAck
       \/ ServerNoAck
       \/ ServerEnd
    /\ UNCHANGED <<lastChunk, slow>>

Start(c) == ClientStart(c) /\ UNCHANGED <<lastChunk, slow>>

Client(c) ==
    /\ \/ ClientData(c)
       \/ ClientEof(c)
       \/ ClientError(c)
       \/ ClientTimeout(c)
    /\ UNCHANGED <<lastChunk, slow>>

Next ==
    \/ Server
    \/ \E c \in Clients : Start(c) \/ Client(c)
    \/ Tick

Spec == Init /\ [][Next]_vars

(***************************************************************************)
(* The processes that can run do, and time passes.  Nobody has to start a  *)
(* client.                                                                 *)
(***************************************************************************)
FairSpec ==
    /\ Spec
    /\ WF_vars(Server)
    /\ WF_vars(Tick)
    /\ \A c \in Clients : WF_vars(Client(c))

-----------------------------------------------------------------------------
TypeOK ==
    /\ spc \in {"request", "open", "send", "ack", "done"}
    /\ client \in Clients \union {NoClient}
    /\ sent \in 0 .. Chunks
    /\ swait \in 0 .. AckWait
    /\ mailbox \in Seq(Clients)
    /\ cpc \in [Clients -> {"start", "recv", "done"}]
    /\ end \in [Clients -> {"none", "eof", "error", "timeout"}]
    /\ file \in [Clients -> Seq(1 .. Chunks)]
    /\ cwait \in [Clients -> 0 .. RecvWait]
    /\ inbox \in [Clients -> Seq(ErrorMark .. Chunks)]
    /\ lost \in Nat
    /\ lastChunk \in {"data", "EOF", "ERROR"}
    /\ slow \in BOOLEAN

\* What a client writes is in the order of the file and holds no chunk twice,
\* whatever is lost and whoever times out: received.txt is the file with, at
\* worst, chunks missing.  It holds because nothing is ever sent again.
InOrder ==
    \A c \in Clients : \A i, j \in DOMAIN file[c] : i < j => file[c][i] < file[c][j]

\* A client that was told the file has ended misses no more chunks than
\* datagrams were lost, and a last chunk that reads like the marker (client
\* line 60): neither late acknowledgments nor timeouts cost any.
MissesOnlyLost ==
    \A c \in Clients : end[c] = "eof" =>
      Chunks - Len(file[c]) <= lost + (IF lastChunk = "EOF" THEN 1 ELSE 0)

\* Between processes that are never slow, the client gives up on a server that
\* is still sending only after at least three datagrams were lost: its five
\* seconds outlast two of the server's waits of two.
PatientEnough ==
    ~slow => \A c \in Clients :
      (end[c] = "timeout" /\ c = client /\ spc # "done") => lost >= 3

\* A client that has started, and a server that was asked, come to an end,
\* whatever is lost: every wait but the server's first has its timeout.
BothEnd ==
    /\ \A c \in Clients : cpc[c] = "recv" ~> cpc[c] = "done"
    /\ (spc # "request") ~> (spc = "done")
=============================================================================
