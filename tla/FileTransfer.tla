---------------------------- MODULE FileTransfer ----------------------------
(***************************************************************************)
(* Test_Code/tcp_file_transfer_{server,client}.c: a server that forks a    *)
(* child for every connection.  The client sends a command, the child asks *)
(* the operator, the client asks its user, and then a file goes one way.   *)
(*                                                                         *)
(* All children read the answers from one terminal and share the files of  *)
(* the server's directory.  The answer "OK" and the file that follows it   *)
(* share a byte stream, whose boundaries TCP does not keep.                *)
(***************************************************************************)
EXTENDS Integers, Sequences, SequencesExt

CONSTANTS
    Clients,     \* client processes, each of which transfers one file
    Names,       \* names of files
    MaxPieces,   \* bound: pieces of a file
    Requests     \* what a client may be started for

ASSUME PiecesAssumption == MaxPieces \in Nat

\* A file is a sequence of pieces that TCP does not divide further: <<c, k>> is
\* piece k of the file of client c, and of the server's own when c is Server.
\* A hole is left where nothing was written.
Server == "server"
Hole == <<"hole", 0>>
ErrorText == <<"error", 0>>
Command == <<"command", 0>>
Ok == <<"OK", 0>>
Cancel == <<"CANCEL", 0>>
Rejected == <<"REJECTED", 0>>
Pieces == ((Clients \union {Server}) \X (1 .. MaxPieces)) \union {Hole, ErrorText}

\* A file to SEND has some pieces, the first of which may begin with a NUL byte,
\* or cannot be read.
Unreadable == -1
AllRequests ==
    [cmd : {"SEND"}, name : Names, pieces : Unreadable .. MaxPieces, nul : BOOLEAN]
      \union [cmd : {"RECV"}, name : Names, pieces : {0}, nul : {FALSE}]

ASSUME RequestsAssumption == Requests \subseteq AllRequests

Nobody == "nobody"

ASSUME NobodyAssumption == Nobody \notin Clients

VARIABLES
    request,    \* the arguments of each client
    cpc,        \* what each client does next
    sent,       \* pieces each client has sent
    local,      \* what each client has written to its local file
    child,      \* what the child that serves the client does next
    offset,     \* of the child in its file
    taken,      \* pieces received in one recv with the answer (history)
    accepted,   \* clients that were sent "OK" (history)
    agreed,     \* clients whose user has said "y" (history)
    disk,       \* contents of the server's files
    present,    \* names of files that exist
    up,         \* on its way from the client to its child
    down,       \* on its way from the child to its client
    terminal,   \* the operator's terminal is open
    server,     \* the server runs
    parent,     \* the client it has just forked a child for, or Nobody
    held        \* clients whose connection the parent has a descriptor of

clientVars == <<request, cpc, sent, local, agreed>>
fileVars == <<offset, disk, present>>
childVars == <<child, fileVars, taken, accepted>>
serverVars == <<server, parent, held>>
vars == <<clientVars, childVars, up, down, terminal, serverVars>>

Old == [k \in 1 .. MaxPieces |-> <<Server, k>>]

Init ==
    /\ request \in [Clients -> Requests]
    /\ cpc = [c \in Clients |-> "start"]
    /\ sent = [c \in Clients |-> 0]
    /\ local = [c \in Clients |-> <<>>]
    /\ child = [c \in Clients |-> "none"]
    /\ offset = [c \in Clients |-> 0]
    /\ taken = [c \in Clients |-> <<>>]
    /\ accepted = {}
    /\ agreed = {}
    /\ present \in SUBSET Names
    /\ disk = [n \in Names |-> IF n \in present THEN Old ELSE <<>>]
    /\ up = [c \in Clients |-> <<>>]
    /\ down = [c \in Clients |-> <<>>]
    /\ terminal = TRUE
    /\ server = TRUE
    /\ parent = Nobody
    /\ held = {}

Name(c) == request[c].name

Gone(c) == cpc[c] \in {"finished", "failed", "quit", "killed"}

\* The server's end of the connection is closed: by the child, and by the parent.
ChildOver(c) == child[c] \in {"received", "sent", "closed", "stopped"}
Closed(c) == ChildOver(c) /\ c \notin held

SendUp(c, p) == up' = IF Closed(c) THEN up ELSE [up EXCEPT ![c] = Append(@, p)]

-----------------------------------------------------------------------------
(* The parent: main() *)

\* accept() and fork().
Fork(c) ==
    /\ server
    /\ parent = Nobody
    /\ cpc[c] # "start"
    /\ child[c] = "none"
    /\ child' = [child EXCEPT ![c] = "command"]
    /\ parent' = c
    /\ held' = held \union {c}
    /\ UNCHANGED <<clientVars, fileVars, taken, accepted, up, down, terminal, server>>

\* Mutant: the parent does not close its copy of the descriptor.
ParentKeeps(c) ==
    /\ parent = c
    /\ parent' = Nobody
    /\ UNCHANGED <<clientVars, childVars, up, down, terminal, server, held>>
ParentCloses(c) ==
    /\ parent = c
    /\ parent' = Nobody
    /\ held' = held \ {c}
    /\ UNCHANGED <<clientVars, childVars, up, down, terminal, server>>

-----------------------------------------------------------------------------
(* The child of client c: HandleTCPClient() *)

\* A step of the child that changes nothing but what it does next.
Goes(c, from, to) ==
    /\ child[c] = from
    /\ child' = [child EXCEPT ![c] = to]
    /\ UNCHANGED <<clientVars, fileVars, taken, accepted, up, down, terminal, serverVars>>

RecvCommand(c) ==
    /\ child[c] = "command"
    /\ up[c] # <<>>
    /\ up' = [up EXCEPT ![c] = <<>>]
    /\ child' = [child EXCEPT ![c] = "prompt"]
    /\ UNCHANGED <<clientVars, fileVars, taken, accepted, down, terminal, serverVars>>

\* getchar() takes the first character of a line and then the rest of it.  Of
\* an empty line it takes the end, and the rest is another line.  Which of the
\* children that wait gets a line is up to the terminal.
ReadLine(c, line) ==
    /\ terminal
    /\ \/ line = "y" /\ Goes(c, "prompt", "accept")
       \/ line = "n" /\ Goes(c, "prompt", "reject")
       \/ line = "" /\ Goes(c, "prompt", "skip")
       \/ Goes(c, "skip", "reject")

\* At the end of the terminal's input getchar() never returns a newline.
ReadEnd(c) == ~terminal /\ (Goes(c, "prompt", "spin") \/ Goes(c, "skip", "spin"))

\* send() to a client that has gone without anything unread succeeds.
Answer(c, from, to, word) ==
    /\ child[c] = from
    /\ child' = [child EXCEPT ![c] = to]
    /\ down' = [down EXCEPT ![c] = Append(@, word)]
    /\ accepted' = IF word = Ok THEN accepted \union {c} ELSE accepted
    /\ UNCHANGED <<clientVars, fileVars, taken, up, terminal, serverVars>>

\* Mutant: the consent is not sent.
AcceptSilently(c) == Goes(c, "accept", "confirm")
Accept(c) == Answer(c, "accept", "confirm", Ok)
Reject(c) == Answer(c, "reject", "closed", Rejected)

\* strcmp() with "OK\n" of what one recv() returned: it must be nothing else, or
\* go on with a NUL byte.  Mutant: any answer will do.
AnyAnswer(c, n) == TRUE
IsOk(c, n) == Head(up[c]) = Ok /\ (n = 1 \/ request[c].nul)

\* recv() returns any prefix of what is there.  open() truncates or creates the
\* file to receive.
RecvConfirm(c) ==
    /\ child[c] = "confirm"
    /\ \E n \in 1 .. Len(up[c]) :
         /\ taken' = [taken EXCEPT ![c] = SubSeq(up[c], 2, n)]
         /\ up' = [up EXCEPT ![c] = SubSeq(@, n + 1, Len(@))]
         /\ IF IsOk(c, n) /\ request[c].cmd = "SEND"
            THEN /\ child' = [child EXCEPT ![c] = "receive"]
                 /\ disk' = [disk EXCEPT ![Name(c)] = <<>>]
                 /\ present' = present \union {Name(c)}
            ELSE /\ child' = [child EXCEPT ![c] = IF IsOk(c, n) THEN "open" ELSE "closed"]
                 /\ UNCHANGED <<disk, present>>
    /\ UNCHANGED <<clientVars, offset, accepted, down, terminal, serverVars>>

\* recv() <= 0: the client has gone and all it sent was received.
StreamEnded(c) == up[c] = <<>> /\ Gone(c)

RecvNothing(c) ==
    StreamEnded(c) /\ (Goes(c, "command", "closed") \/ Goes(c, "confirm", "closed"))

\* write() at the offset of this child, whatever others did to the file.  Mutant:
\* the file is opened for appending.
Appended(f, k, p) == Append(f, p)
Written(f, k, p) ==
    [i \in 1 .. (IF Len(f) > k THEN Len(f) ELSE k) |->
       IF i = k THEN p ELSE IF i <= Len(f) THEN f[i] ELSE Hole]

Stores(c) ==
    /\ child[c] = "receive"
    /\ up[c] # <<>>
    /\ disk' = [disk EXCEPT ![Name(c)] = Written(@, offset[c] + 1, Head(up[c]))]
    /\ offset' = [offset EXCEPT ![c] = @ + 1]
    /\ up' = [up EXCEPT ![c] = Tail(@)]
    /\ UNCHANGED <<clientVars, taken, accepted, present, down, terminal, serverVars>>

\* Mutant: one recv() is taken for the whole file.
ReceiveOnce(c) == Stores(c) /\ child' = [child EXCEPT ![c] = "received"]
Receive(c) == Stores(c) /\ UNCHANGED child

\* The end of the stream and an error of recv() end the loop alike.
ReceiveEnd(c) == StreamEnded(c) /\ Goes(c, "receive", "received")

OpenToSend(c) == Name(c) \in present /\ Goes(c, "open", "send")

\* The client has no way to tell the error text from a file.
OpenFails(c) == Name(c) \notin present /\ Answer(c, "open", "closed", ErrorText)

MoreToSend(c) == offset[c] < Len(disk[Name(c)])

Send(c) ==
    /\ child[c] = "send"
    /\ MoreToSend(c)
    /\ down' = [down EXCEPT ![c] = Append(@, disk[Name(c)][offset[c] + 1])]
    /\ offset' = [offset EXCEPT ![c] = @ + 1]
    /\ UNCHANGED <<clientVars, child, taken, accepted, disk, present, up, terminal, serverVars>>

\* DieWithError or SIGPIPE.
SendDies(c) == MoreToSend(c) /\ Gone(c) /\ Goes(c, "send", "closed")

SendEnd(c) == ~MoreToSend(c) /\ Goes(c, "send", "sent")

-----------------------------------------------------------------------------
(* The client: main(), SendFile(), ReceiveFile() *)

\* A step of the client that changes nothing but what it does next.
ClientGoes(c, from, to) ==
    /\ cpc[c] = from
    /\ cpc' = [cpc EXCEPT ![c] = to]
    /\ UNCHANGED <<request, sent, local, agreed, childVars, up, down, terminal, serverVars>>

ClientConnect(c) == server /\ ClientGoes(c, "start", "connected")

ClientRequest(c) ==
    /\ cpc[c] = "connected"
    /\ cpc' = [cpc EXCEPT ![c] = "waiting"]
    /\ SendUp(c, Command)
    /\ UNCHANGED <<request, sent, local, agreed, childVars, down, terminal, serverVars>>

\* The server was stopped before.
ClientRequestDies(c) == Closed(c) /\ ClientGoes(c, "connected", "failed")

ClientAnswered(c) ==
    /\ cpc[c] = "waiting"
    /\ down[c] # <<>>
    /\ cpc' = [cpc EXCEPT ![c] = IF Head(down[c]) = Ok THEN "asking" ELSE "quit"]
    /\ down' = [down EXCEPT ![c] = Tail(@)]
    /\ UNCHANGED <<request, sent, local, agreed, childVars, up, terminal, serverVars>>

\* The server's end is closed, and all it sent was received.
ServerEnded(c) == down[c] = <<>> /\ Closed(c)

ClientNotAnswered(c) == ServerEnded(c) /\ ClientGoes(c, "waiting", "quit")

\* The user agrees; only then is the file opened, and it may be unreadable.
ClientAgrees(c) ==
    /\ cpc[c] = "asking"
    /\ SendUp(c, Ok)
    /\ agreed' = agreed \union {c}
    /\ cpc' = [cpc EXCEPT ![c] =
                 CASE request[c].cmd = "RECV" -> "download"
                   [] request[c].pieces = Unreadable -> "failed"
                   [] OTHER -> "upload"]
    /\ UNCHANGED <<request, sent, local, childVars, down, terminal, serverVars>>

ClientCancels(c) ==
    /\ cpc[c] = "asking"
    /\ SendUp(c, Cancel)
    /\ cpc' = [cpc EXCEPT ![c] = "quit"]
    /\ UNCHANGED <<request, sent, local, agreed, childVars, down, terminal, serverVars>>

ClientSend(c) ==
    /\ cpc[c] = "upload"
    /\ sent[c] < request[c].pieces
    /\ SendUp(c, <<c, sent[c] + 1>>)
    /\ sent' = [sent EXCEPT ![c] = @ + 1]
    /\ UNCHANGED <<request, cpc, local, agreed, childVars, down, terminal, serverVars>>

\* Once the server's end is closed a send() fails, if not the first one.
ClientSendDies(c) ==
    sent[c] < request[c].pieces /\ Closed(c) /\ ClientGoes(c, "upload", "failed")

ClientSendEnd(c) ==
    sent[c] = request[c].pieces /\ ClientGoes(c, "upload", "finished")

ClientReceive(c) ==
    /\ cpc[c] = "download"
    /\ down[c] # <<>>
    /\ local' = [local EXCEPT ![c] = Append(@, Head(down[c]))]
    /\ down' = [down EXCEPT ![c] = Tail(@)]
    /\ UNCHANGED <<request, cpc, sent, agreed, childVars, up, terminal, serverVars>>

\* The end of the stream is the end of the file; the server's death may be an
\* error of recv() instead.
ClientReceiveEnd(c) ==
    /\ ServerEnded(c)
    /\ \/ ClientGoes(c, "download", "finished")
       \/ child[c] = "stopped" /\ ClientGoes(c, "download", "failed")

ClientKilled(c) ==
    \E pc \in {"connected", "waiting", "asking", "upload", "download"} : ClientGoes(c, pc, "killed")

-----------------------------------------------------------------------------
(* The operator *)

\* The operator's input ends.
OperatorEnds ==
    /\ terminal
    /\ terminal' = FALSE
    /\ UNCHANGED <<clientVars, childVars, up, down, serverVars>>

\* An interrupt from the terminal ends the server and all its children.
OperatorStops ==
    /\ server
    /\ server' = FALSE
    /\ parent' = Nobody
    /\ held' = {}
    /\ child' = [c \in Clients |-> IF ChildOver(c) \/ cpc[c] = "start" THEN child[c] ELSE "stopped"]
    /\ UNCHANGED <<clientVars, fileVars, taken, accepted, up, down, terminal>>

-----------------------------------------------------------------------------
Parent(c) == Fork(c) \/ ParentCloses(c)

Child(c) ==
    \/ RecvCommand(c)
    \/ ReadEnd(c)
    \/ Accept(c)
    \/ Reject(c)
    \/ RecvConfirm(c)
    \/ RecvNothing(c)
    \/ Receive(c)
    \/ ReceiveEnd(c)
    \/ OpenToSend(c)
    \/ OpenFails(c)
    \/ Send(c)
    \/ SendDies(c)
    \/ SendEnd(c)

Client(c) ==
    \/ ClientRequest(c)
    \/ ClientRequestDies(c)
    \/ ClientAnswered(c)
    \/ ClientNotAnswered(c)
    \/ ClientSend(c)
    \/ ClientSendDies(c)
    \/ ClientSendEnd(c)
    \/ ClientReceive(c)
    \/ ClientReceiveEnd(c)

User(c) ==
    \/ ClientConnect(c)
    \/ ClientAgrees(c)
    \/ ClientCancels(c)
    \/ ClientKilled(c)

Operator ==
    \/ OperatorEnds
    \/ OperatorStops
    \/ \E c \in Clients, line \in {"y", "n", ""} : ReadLine(c, line)

Next == Operator \/ \E c \in Clients : Parent(c) \/ Child(c) \/ Client(c) \/ User(c)

Spec == Init /\ [][Next]_vars

\* Processes that can run do.  Nothing makes the operator or a user answer.
FairSpec ==
    /\ Spec
    /\ WF_vars(\E c \in Clients : Parent(c))
    /\ \A c \in Clients : WF_vars(Child(c)) /\ WF_vars(Client(c))

-----------------------------------------------------------------------------
TypeOK ==
    /\ request \in [Clients -> Requests]
    /\ cpc \in [Clients -> {"start", "connected", "waiting", "asking", "upload", "download",
                            "finished", "failed", "quit", "killed"}]
    /\ sent \in [Clients -> 0 .. MaxPieces]
    /\ local \in [Clients -> Seq(Pieces)]
    /\ child \in [Clients -> {"none", "command", "prompt", "skip", "spin", "accept", "reject",
                              "confirm", "receive", "received", "open", "send", "sent",
                              "closed", "stopped"}]
    /\ offset \in [Clients -> 0 .. MaxPieces]
    /\ taken \in [Clients -> Seq(Pieces)]
    /\ accepted \subseteq Clients
    /\ agreed \subseteq Clients
    /\ disk \in [Names -> Seq(Pieces)]
    /\ \A n \in Names : Len(disk[n]) <= MaxPieces
    /\ present \subseteq Names
    /\ up \in [Clients -> Seq(Pieces \union {Command, Ok, Cancel})]
    /\ down \in [Clients -> Seq(Pieces \union {Ok, Rejected})]
    /\ terminal \in BOOLEAN
    /\ server \in BOOLEAN
    /\ parent \in Clients \union {Nobody}
    /\ held \subseteq Clients

Content(c) == [k \in 1 .. request[c].pieces |-> <<c, k>>]

\* No other child has opened the file of c's child for writing.
Alone(c) ==
    \A d \in Clients \ {c} :
      Name(d) = Name(c) /\ request[d].cmd = "SEND" =>
        child[d] \notin {"receive", "received", "stopped"}

\* A file is only written or sent after this client's child has read "y" and
\* answered "OK", and the client's user has agreed, in this order: neither a
\* cancelled nor an unanswered request touches the server's files.
ConsentFirst ==
    \A c \in Clients :
      /\ cpc[c] \in {"upload", "download", "finished"} => c \in accepted
      /\ child[c] \in {"receive", "received", "open", "send", "sent"} =>
           c \in accepted /\ c \in agreed

\* What the server has written of an upload is the beginning of the client's
\* file at any time, so also when the client is killed or the server stopped,
\* unless two uploads share a name, or the file begins with a NUL byte.
UploadIsPrefix ==
    \A c \in Clients :
      child[c] \in {"receive", "received"} /\ ~request[c].nul /\ Alone(c) =>
        IsPrefix(disk[Name(c)], Content(c))

\* When both sides say that they have finished, the copy is the file: whatever
\* the pieces were that TCP made of it.
TransferComplete ==
    \A c \in Clients : cpc[c] = "finished" /\ Alone(c) =>
      /\ child[c] = "received" /\ ~request[c].nul => disk[Name(c)] = Content(c)
      /\ child[c] = "sent" => local[c] = disk[Name(c)]

\* A client that has sent its whole file to a child that did not store it is one
\* whose answer arrived together with the beginning of the file: nothing else
\* makes the child close the connection.  (Such a client reports "Finished sending
\* file." all the same.)
RefusedOnlyWhenMerged ==
    \A c \in Clients :
      cpc[c] = "finished" /\ child[c] = "closed" /\ request[c].cmd = "SEND" => taken[c] # <<>>

\* What becomes of a file on its way: at no time something else, at the end all of
\* it, and nothing only for that reason.
CopyFaithful == UploadIsPrefix /\ TransferComplete /\ RefusedOnlyWhenMerged

\* Either side is in a recv() to which nothing has come and of which nothing is on
\* its way, with the other end of the connection still open.
ChildWaits(c) ==
    child[c] \in {"command", "confirm", "receive"} /\ up[c] = <<>> /\ ~Gone(c)
ClientWaits(c) ==
    cpc[c] \in {"waiting", "download"} /\ down[c] = <<>> /\ ~Closed(c)

\* The two sides never wait for each other, whichever answers were joined with
\* what follows, refused or lost with a process: each recv() of one side is met by
\* a send() or the close() of the other.  A client whose connection was not accepted
\* before the server was stopped does not wait for a child, and one whose child is
\* over waits only until the parent closes its copy of the descriptor, which it does
\* before it accepts another (line 72).
NeverBothWait ==
    \A c \in Clients : ClientWaits(c) =>
      /\ ~ChildWaits(c)
      /\ child[c] = "none" => server
      /\ ChildOver(c) => parent = c

\* A transfer that has begun at either side ends at both, however the other one ends:
\* somebody closes every copy of every descriptor.
TransferEnds ==
    \A c \in Clients :
      (child[c] \in {"receive", "open", "send"} \/ cpc[c] \in {"upload", "download"})
        ~> (Closed(c) /\ Gone(c))
=============================================================================
