----------------------------- MODULE StreamPair ------------------------------
(***************************************************************************)
(* The programs that come in pairs and have one TCP connection, or one at  *)
(* a time:                                                                 *)
(*                                                                         *)
(*   chat     TCP_CHAT/Arbitary: on each side a thread sends what the user *)
(*            types and another prints what arrives                        *)
(*   file     TCP_FILE: the server sends a file and closes                 *)
(*   framed   tcpFTclient.c, tcpFTserver.c: the client sends the name, the *)
(*            size and the bytes of a file                                 *)
(*   lines    TCP_ONE_WAY: the client sends lines until exit, quit or the  *)
(*            end of its input                                             *)
(*   message  tcp_oneway_client.c, tcp_oneway_server.c: one message        *)
(*   answer   tcp_echo_uppercase_client.c, tcp_echo_uppercase_server.c:    *)
(*            one message, which the server sends back in capitals; it     *)
(*            then turns to the next connection                            *)
(*                                                                         *)
(* A unit is what TCP keeps together: a line, a buffer of a file, a field  *)
(* of the header; or the tail of a long line, where that tail happens to   *)
(* begin with exit or quit.                                                *)
(***************************************************************************)
EXTENDS Integers, Sequences

CONSTANTS
    MaxUnits,   \* bound: lines typed, and buffers in a file
    Cap,        \* units the socket buffers of one direction hold
    RecvMax,    \* units one recv() takes at most
    Killable    \* bound: the sides that may be killed

Sides == {"server", "client"}
Other(s) == IF s = "server" THEN "client" ELSE "server"

ASSUME PairAssumption ==
    /\ MaxUnits \in Nat
    /\ Cap \in Nat /\ Cap >= 2
    /\ RecvMax \in Nat \ {0}
    /\ Killable \subseteq Sides

VARIABLES
    program,    \* which of the pairs this is
    status,     \* of each process: "accept", "running", "ended" or "died"
    spc,        \* what each side's sending loop does next
    rpc,        \* the same for its receiving loop
    running,    \* the global both loops of a chat test
    eof,        \* the user has ended the input
    item,       \* the units in the sending loop's buffer
    left,       \* lines, or buffers of the file, still to be read
    size,       \* the file's size as the header gives it
    peer,       \* the other end of the connection, as each side's kernel knows it
    wire,       \* units on the way from each side to the other
    written,    \* units each side has sent, where they are finitely many (history)
    got         \* units each side has received (history)

threadVars == <<spc, rpc, running>>
inputVars == <<eof, item, left>>
netVars == <<peer, wire>>
vars == <<program, status, threadVars, inputVars, size, netVars, written, got>>

Interactive == {"chat", "lines"}
Programs == Interactive \union {"file", "framed", "message", "answer"}

\* The sides that begin by sending, or that receive.
Sends(s) ==
    \/ program = "chat"
    \/ program = "file" /\ s = "server"
    \/ program \in {"framed", "lines", "message", "answer"} /\ s = "client"
Receives(s) == program \in {"chat", "answer"} \/ ~Sends(s)

\* name_len, name and filesize; the size is taken before the bytes are read, and
\* the file may be written to in between.
Header == 3
SizesGiven(n) == {n - 1, n, n + 1} \intersect Nat

Init ==
    /\ program \in Programs
    /\ status = [s \in Sides |-> IF s = "server" THEN "accept" ELSE "running"]
    /\ spc = [s \in Sides |-> IF Sends(s) THEN "loop" ELSE "done"]
    /\ rpc = [s \in Sides |-> IF Receives(s) THEN "recv" ELSE "done"]
    /\ running = [s \in Sides |-> TRUE]
    /\ eof = [s \in Sides |-> FALSE]
    /\ item = [s \in Sides |-> <<>>]
    /\ \E n \in 0 .. MaxUnits :
         /\ size \in IF program = "framed" THEN SizesGiven(n) ELSE {n}
         /\ left = [s \in Sides |->
              IF ~Sends(s) THEN 0
              ELSE CASE program = "framed" -> Header + n
                     [] program \in {"message", "answer"} -> 1
                     [] OTHER -> n]
    /\ peer = [s \in Sides |-> "here"]
    /\ wire = [s \in Sides |-> <<>>]
    /\ written = [s \in Sides |-> 0]
    /\ got = [s \in Sides |-> 0]

Up(s) == status[s] = "running"

-----------------------------------------------------------------------------
(* The connection *)

\* The process of s is over and its kernel closes the connection: with units not
\* read by a reset, which may overtake what s has sent.
Leave(s, how) ==
    LET o == Other(s)
    IN  /\ status' = [status EXCEPT ![s] = how]
        /\ peer' = [peer EXCEPT ![o] = IF wire[o] = <<>> THEN "closed" ELSE "reset"]
        /\ \E n \in 0 .. Len(wire[s]) :
             /\ wire[o] = <<>> => n = Len(wire[s])
             /\ wire' = [wire EXCEPT ![s] = SubSeq(@, 1, n), ![o] = <<>>]

\* send() takes us.  It succeeds once more after the other end was closed: the RST
\* it provokes may arrive before or after the next call.
Transmit(s, us) ==
    \/ /\ peer[s] = "here"
       /\ Len(wire[s]) + Len(us) <= Cap
       /\ wire' = [wire EXCEPT ![s] = @ \o us]
       /\ UNCHANGED peer
    \/ /\ peer[s] = "closed"
       /\ peer' = peer \/ (us # <<>> /\ peer' = [peer EXCEPT ![s] = "broken"])
       /\ UNCHANGED wire

-----------------------------------------------------------------------------
(* Both ends as processes *)

\* The file to send may not exist: the server reads through a null pointer.
Accept ==
    /\ status["server"] = "accept"
    /\ \/ status' = [status EXCEPT !["server"] = "running"] /\ UNCHANGED netVars
       \/ program = "file" /\ Leave("server", "died")
    /\ UNCHANGED <<program, threadVars, inputVars, size, written, got>>

\* Both threads are joined, or the loop was left: close() and return.
Exits(s) ==
    /\ Up(s)
    /\ spc[s] = "done"
    /\ rpc[s] # "recv"
    /\ Leave(s, "ended")
    /\ UNCHANGED <<program, threadVars, inputVars, size, written, got>>

Killed(s) ==
    /\ s \in Killable
    /\ Up(s)
    /\ Leave(s, "died")
    /\ UNCHANGED <<program, threadVars, inputVars, size, written, got>>

-----------------------------------------------------------------------------
(* The sending loops *)

\* while (running), and while (1).
Loops(s) ==
    /\ Up(s)
    /\ spc[s] = "loop"
    /\ program \in Interactive
    /\ spc' = [spc EXCEPT ![s] = IF running[s] THEN "fgets" ELSE "done"]
    /\ UNCHANGED <<program, status, rpc, running, inputVars, size, netVars, written, got>>

\* A line is typed: one that begins with exit or quit, or another, of which some
\* tail may look like one.
Types(s) ==
    /\ Up(s)
    /\ spc[s] = "fgets"
    /\ ~eof[s]
    /\ program = "lines" => left[s] > 0
    /\ item' \in {[item EXCEPT ![s] = us] :
                    us \in {<<"text">>} \union
                           IF program = "lines" THEN {<<"quit">>, <<"text", "tail">>} ELSE {}}
    /\ left' = [left EXCEPT ![s] = IF program = "lines" THEN @ - 1 ELSE @]
    /\ spc' = [spc EXCEPT ![s] = "send"]
    /\ UNCHANGED <<program, status, rpc, running, eof, size, netVars, written, got>>

EndsInput(s) ==
    /\ Up(s)
    /\ program \in Interactive
    /\ ~eof[s]
    /\ eof' = [eof EXCEPT ![s] = TRUE]
    /\ UNCHANGED <<program, status, threadVars, item, left, size, netVars, written, got>>

\* fgets() fails.  The chat does not notice and sends what its buffer holds, which
\* may be nothing if no line was read into it.
ReadsEnd(s) ==
    /\ Up(s)
    /\ spc[s] = "fgets"
    /\ eof[s]
    /\ IF program = "chat"
       THEN /\ spc' = [spc EXCEPT ![s] = "send"]
            /\ item' \in {[item EXCEPT ![s] = us] : us \in {<<>>, <<"text">>}}
       ELSE spc' = [spc EXCEPT ![s] = "done"] /\ UNCHANGED item
    /\ UNCHANGED <<program, status, rpc, running, eof, left, size, netVars, written, got>>

\* The next field or buffer of the file, or its end.
ReadsFile(s) ==
    /\ Up(s)
    /\ spc[s] = "loop"
    /\ program \notin Interactive
    /\ IF left[s] > 0
       THEN /\ item' = [item EXCEPT ![s] = <<"text">>]
            /\ left' = [left EXCEPT ![s] = @ - 1]
            /\ spc' = [spc EXCEPT ![s] = "send"]
       ELSE spc' = [spc EXCEPT ![s] = "done"] /\ UNCHANGED <<item, left>>
    /\ UNCHANGED <<program, status, rpc, running, eof, size, netVars, written, got>>

\* After send(): the loop goes on unless the line was the last.
AfterSend(s) == IF item[s] = <<"quit">> THEN "done" ELSE "loop"

Sent(s) ==
    /\ Up(s)
    /\ spc[s] = "send"
    /\ Transmit(s, item[s])
    /\ written' = [written EXCEPT ![s] = IF program = "chat" THEN @ ELSE @ + Len(item[s])]
    /\ spc' = [spc EXCEPT ![s] = AfterSend(s)]
    /\ item' = [item EXCEPT ![s] = <<>>]
    /\ UNCHANGED <<program, status, rpc, running, eof, left, size, got>>

\* send() returns the reset.  Only the framed client looks, and dies.
SendFails(s) ==
    /\ Up(s)
    /\ spc[s] = "send"
    /\ peer[s] = "reset"
    /\ peer' = [peer EXCEPT ![s] = "broken"]
    /\ spc' = [spc EXCEPT ![s] = AfterSend(s)]
    /\ item' = [item EXCEPT ![s] = <<>>]
    /\ status' = [status EXCEPT ![s] = IF program = "framed" THEN "died" ELSE @]
    /\ UNCHANGED <<program, rpc, running, eof, left, size, wire, written, got>>

\* SIGPIPE.
SendKills(s) ==
    /\ Up(s)
    /\ spc[s] = "send"
    /\ peer[s] = "broken"
    /\ Leave(s, "died")
    /\ UNCHANGED <<program, threadVars, inputVars, size, written, got>>

-----------------------------------------------------------------------------
(* The receiving loops *)

\* How many units a recv() may take: recv_all() asks for one field or buffer.
Takes(s) == 1 .. IF program = "framed" THEN 1 ELSE RecvMax

Whole == Header + size

\* What becomes of the loop after a recv() of us.  Mutant: a short chunk is taken
\* for the last one.
NextShort(s, us) ==
    IF program = "file" /\ Len(us) < RecvMax THEN "done" ELSE "recv"
NextStep(s, us) ==
    CASE program = "lines" /\ Head(us) = "quit" -> "done"
      [] program = "lines" /\ Head(us) = "tail" -> "misled"
      [] program \in {"message", "answer"} -> "done"
      [] program = "framed" /\ got[s] + 1 = Whole -> "done"
      [] OTHER -> "recv"

\* The server of "answer" goes on to send back what it has received.
Replies(s) == program = "answer" /\ s = "server"

Receive(s) ==
    /\ Up(s)
    /\ rpc[s] = "recv"
    /\ \E n \in Takes(s) :
         LET w == wire[Other(s)]
         IN  /\ n <= Len(w)
             /\ wire' = [wire EXCEPT ![Other(s)] = SubSeq(w, n + 1, Len(w))]
             /\ rpc' = [rpc EXCEPT ![s] = NextStep(s, SubSeq(w, 1, n))]
             /\ got' = [got EXCEPT ![s] = IF program = "chat" THEN @ ELSE @ + n]
             /\ item' = IF Replies(s) THEN [item EXCEPT ![s] = SubSeq(w, 1, n)] ELSE item
    /\ spc' = IF Replies(s) THEN [spc EXCEPT ![s] = "send"] ELSE spc
    /\ UNCHANGED <<program, status, running, eof, left, size, peer, written>>

\* The server cannot create the file.
CannotCreate(s) ==
    /\ Up(s)
    /\ program = "framed"
    /\ got[s] = Header
    /\ Leave(s, "died")
    /\ UNCHANGED <<program, threadVars, inputVars, size, written, got>>

\* recv() <= 0.
Ended(s) ==
    /\ Up(s)
    /\ rpc[s] = "recv"
    /\ wire[Other(s)] = <<>>
    /\ peer[s] # "here"

\* Mutant: the other thread is not told.
ReceivesEndAlone(s) ==
    /\ Ended(s)
    /\ program # "framed"
    /\ rpc' = [rpc EXCEPT ![s] = "done"]
    /\ peer' = [peer EXCEPT ![s] = IF @ = "reset" THEN "broken" ELSE @]
    /\ UNCHANGED <<program, status, spc, running, inputVars, size, wire, written, got>>

ReceivesEnd(s) ==
    /\ Ended(s)
    /\ program # "framed"
    /\ running' = [running EXCEPT ![s] = program # "chat"]
    /\ rpc' = [rpc EXCEPT ![s] = "done"]
    /\ peer' = [peer EXCEPT ![s] = IF @ = "reset" THEN "broken" ELSE @]
    /\ UNCHANGED <<program, status, spc, inputVars, size, wire, written, got>>

\* die("recv ...").
EndsEarly(s) ==
    /\ Ended(s)
    /\ program = "framed"
    /\ Leave(s, "died")
    /\ UNCHANGED <<program, threadVars, inputVars, size, written, got>>

-----------------------------------------------------------------------------
Sender(s) ==
    \/ Loops(s)
    \/ ReadsEnd(s)
    \/ ReadsFile(s)
    \/ Sent(s)
    \/ SendFails(s)
    \/ SendKills(s)

Receiver(s) ==
    \/ Receive(s)
    \/ CannotCreate(s)
    \/ ReceivesEnd(s)
    \/ EndsEarly(s)

Next ==
    \/ Accept
    \/ \E s \in Sides :
         \/ Sender(s)
         \/ Receiver(s)
         \/ Exits(s)
         \/ Types(s)
         \/ EndsInput(s)
         \/ Killed(s)

Spec == Init /\ [][Next]_vars

\* Every thread runs when it can; users need not type, nor end their input.
FairSpec ==
    /\ Spec
    /\ WF_vars(Accept)
    /\ \A s \in Sides : WF_vars(Sender(s)) /\ WF_vars(Receiver(s)) /\ WF_vars(Exits(s))

-----------------------------------------------------------------------------
Kinds == {"text", "tail", "quit"}

TypeOK ==
    /\ program \in Programs
    /\ status \in [Sides -> {"accept", "running", "ended", "died"}]
    /\ spc \in [Sides -> {"loop", "fgets", "send", "done"}]
    /\ rpc \in [Sides -> {"recv", "done", "misled"}]
    /\ running \in [Sides -> BOOLEAN]
    /\ eof \in [Sides -> BOOLEAN]
    /\ item \in [Sides -> Seq(Kinds)]
    /\ left \in [Sides -> 0 .. MaxUnits + Header]
    /\ size \in 0 .. MaxUnits + 1
    /\ peer \in [Sides -> {"here", "closed", "reset", "broken"}]
    /\ wire \in [Sides -> Seq(Kinds)]
    /\ written \in [Sides -> Nat]
    /\ got \in [Sides -> Nat]

Over(s) == status[s] \in {"ended", "died"}

\* A receiver that ends and reports nothing has all of it.  The framed server has
\* just the size it was given, whatever became of the client or of its file; the
\* others cannot tell a sender that died from one that was done, so they have it
\* unless that happened.  The line server stops with the user's last line, however
\* the lines were cut and joined on their way, or is misled by the tail of one.
CopyWhole ==
    \A s \in Sides : status[s] = "ended" /\ Receives(s) =>
      LET o == Other(s)
      IN  /\ program = "framed" => got[s] = Whole
          /\ status[o] # "died" =>
               CASE program = "file" -> got[s] = size
                 [] program \in {"message", "answer"} -> got[s] = 1
                 [] program = "lines" ->
                      rpc[s] = "misled" \/ (spc[o] = "done" /\ got[s] = written[o])
                 [] OTHER -> TRUE

\* A transfer comes to its end.  When one side of a pair is over, so is the other before
\* long, unless it waits for its user, who neither types nor ends the input.  A chat has
\* then received the end, and its user's next line is its last; without a user it ends,
\* though it repeats its last line at the end of the input.  The line client is not told:
\* its send() is not looked at (TCP_CLIENT_ONE_WAY.c:38), and its user may type further
\* lines, which nobody receives, until one of them meets the reset.
PairEnds ==
    /\ (program \notin Interactive) ~> (\A s \in Sides : Over(s))
    /\ \A s \in Sides : Over(Other(s)) ~>
         \/ Over(s)
         \/ /\ spc[s] = "fgets" /\ ~eof[s]
            /\ \/ program = "lines"
               \/ program = "chat" /\ rpc[s] = "done" /\ ~running[s]
=============================================================================
