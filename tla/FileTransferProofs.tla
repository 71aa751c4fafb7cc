------------------------- MODULE FileTransferProofs -------------------------
(***************************************************************************)
(* What FileTransfer guarantees for any number of clients, files and       *)
(* pieces: that nothing is written or sent before both sides have agreed,  *)
(* and what the copies contain.                                            *)
(***************************************************************************)
EXTENDS FileTransfer, TLAPS

(***************************************************************************)
(* The inductive invariant.  Talk(c) is about client c and its child alone *)
(* and ties what either does next to what is on its way between them;      *)
(* Stored and Fetched are about the files, which others may write too.     *)
(***************************************************************************)

\* What the child does next, grouped by what it has done.
Asked == {"none", "command"}
Deciding == {"prompt", "skip", "spin", "accept", "reject"}
Uploading == {"receive", "received"}
Downloading == {"open", "send", "sent"}

\* What the client has sent and written goes with its request and its user's consent.
ClientSide(c) ==
    /\ sent[c] = 0 \/ sent[c] <= request[c].pieces
    /\ c \notin agreed => sent[c] = 0 /\ local[c] = <<>>
    /\ cpc[c] \in {"start", "connected", "waiting", "asking"} => c \notin agreed
    /\ cpc[c] \in {"upload", "download", "finished"} => c \in agreed
    /\ cpc[c] = "upload" => request[c].cmd = "SEND"
    /\ cpc[c] = "download" => request[c].cmd = "RECV"
    /\ cpc[c] = "finished" /\ request[c].cmd = "SEND" => sent[c] = request[c].pieces

\* "OK" is sent by a child whose operator agreed, and files follow both consents.
Consent(c) ==
    /\ cpc[c] \in {"asking", "upload", "download", "finished"} => c \in accepted
    /\ \A k \in 1 .. Len(down[c]) : down[c][k] = Ok => c \in accepted
    /\ child[c] \in Uploading \union Downloading => c \in accepted /\ c \in agreed

\* Until the operator has decided nothing but the command was sent.
Before(c) ==
    /\ cpc[c] = "start" => child[c] = "none"
    /\ cpc[c] \in {"start", "connected"} =>
         up[c] = <<>> /\ down[c] = <<>> /\ child[c] \in Asked \union {"stopped"}
    /\ child[c] \in Asked =>
         /\ cpc[c] \in {"start", "connected", "waiting", "killed"}
         /\ up[c] \in {<<>>, <<Command>>}
    /\ child[c] \in Deciding => cpc[c] \in {"waiting", "killed"} /\ up[c] = <<>>
    /\ child[c] \in Asked \union Deciding => down[c] = <<>>
    /\ child[c] \in Asked \union Deciding \union {"confirm", "open"} => offset[c] = 0
    /\ child[c] \in Asked \union Deciding \union {"confirm"} => taken[c] = <<>>

\* The child waits for an answer, behind which the file may already be on its way.
Pending(c) ==
    child[c] = "confirm" =>
      /\ c \in accepted
      /\ cpc[c] = "waiting" => down[c] = <<Ok>>
      /\ cpc[c] = "download" => down[c] = <<>> /\ local[c] = <<>>
      /\ cpc[c] = "finished" => request[c].cmd = "SEND"
      /\ \/ up[c] = <<>> /\ cpc[c] \in {"waiting", "asking", "killed"}
         \/ up[c] = <<Cancel>> /\ cpc[c] = "quit"
         \/ /\ c \in agreed
            /\ Len(up[c]) = sent[c] + 1
            /\ up[c][1] = Ok
            /\ \A k \in 1 .. sent[c] : up[c][k + 1] = <<c, k>>

\* The pieces the client has sent are written, came with the answer or are on their
\* way, in this order.
Upload(c) ==
    child[c] \in Uploading =>
      /\ request[c].cmd = "SEND"
      /\ ~request[c].nul => taken[c] = <<>>
      /\ offset[c] + Len(taken[c]) + Len(up[c]) = sent[c]
      /\ \A k \in 1 .. Len(up[c]) : up[c][k] = <<c, offset[c] + Len(taken[c]) + k>>
      /\ child[c] = "received" => Gone(c) /\ up[c] = <<>>

\* What is on its way to the client, and that its end follows all of it.
Download(c) ==
    /\ child[c] \in Downloading => request[c].cmd = "RECV"
    /\ cpc[c] = "waiting" => down[c] \in {<<>>, <<Ok>>, <<Rejected>>}
    /\ cpc[c] = "asking" => down[c] = <<>>
    /\ cpc[c] = "download" => \A k \in 1 .. Len(down[c]) : down[c][k] \in Pieces
    /\ cpc[c] = "finished" /\ child[c] \in Downloading => child[c] = "sent" /\ down[c] = <<>>

\* A child that closed without having taken a file has a client that knows, or data
\* that came with the answer.
Refused(c) ==
    child[c] = "closed" =>
      /\ cpc[c] = "waiting" => down[c] \in {<<>>, <<Rejected>>}
      /\ request[c].cmd = "SEND" /\ taken[c] = <<>> => cpc[c] \in {"waiting", "quit", "killed"}

\* A file that only c's child writes holds what that child has written.
Stored(c) ==
    child[c] \in Uploading /\ ~request[c].nul /\ Alone(c) =>
      /\ Len(disk[Name(c)]) = offset[c]
      /\ \A k \in 1 .. offset[c] : disk[Name(c)][k] = <<c, k>>

\* What was sent of a file nobody writes is in the client's copy or on its way.
Fetched(c) ==
    child[c] \in Downloading /\ Alone(c) =>
      /\ offset[c] <= Len(disk[Name(c)])
      /\ child[c] = "sent" => offset[c] = Len(disk[Name(c)])
      /\ cpc[c] \in {"download", "finished"} =>
           /\ Len(local[c]) + Len(down[c]) = offset[c]
           /\ \A k \in 1 .. Len(local[c]) : local[c][k] = disk[Name(c)][k]
           /\ \A k \in 1 .. Len(down[c]) : down[c][k] = disk[Name(c)][Len(local[c]) + k]

\* All of it.
Talk(c) ==
    /\ ClientSide(c) /\ Consent(c) /\ Before(c) /\ Pending(c)
    /\ Upload(c) /\ Download(c) /\ Refused(c)
TalkInv == \A c \in Clients : Talk(c)
FilesInv == \A c \in Clients : Stored(c) /\ Fetched(c)

Inv == TypeOK /\ TalkInv /\ FilesInv

-----------------------------------------------------------------------------
(* What is sent, and what a request is *)

\* What may be on its way to either side.
UpItems == Pieces \union {Command, Ok, Cancel}
DownItems == Pieces \union {Ok, Rejected}

\* The words of the protocol are told apart, and "OK" is no piece of a file.
LEMMA ItemsDiffer ==
  Ok # Cancel /\ Ok # Rejected /\ Ok # ErrorText /\ Ok \notin Pieces
<1>1. Ok # Cancel /\ Ok # Rejected /\ Ok # ErrorText
  BY DEF Ok, Rejected, Cancel, ErrorText
<1>2. Ok \notin Pieces
  BY DEF Ok, Pieces, Hole, ErrorText
<1> QED
  BY <1>1, <1>2

\* Who has not reached a bound may go one further.
LEMMA NextNumber ==
  ASSUME NEW s \in 0 .. MaxPieces, NEW r \in Int, s < r, r <= MaxPieces
  PROVE  s + 1 \in 1 .. MaxPieces /\ s + 1 \in 0 .. MaxPieces
BY PiecesAssumption

\* The fields of a client's arguments.
LEMMA RequestFields ==
  ASSUME TypeOK, NEW c \in Clients
  PROVE  /\ request[c].cmd \in {"SEND", "RECV"} /\ Name(c) \in Names
         /\ request[c].nul \in BOOLEAN
         /\ request[c].pieces \in Int /\ request[c].pieces <= MaxPieces
         /\ request[c].cmd = "RECV" => request[c].pieces = 0
<1>1. request[c] \in AllRequests
  BY RequestsAssumption DEF TypeOK
<1>2. CASE request[c] \in [cmd : {"SEND"}, name : Names, pieces : Unreadable .. MaxPieces, nul : BOOLEAN]
  <2>1. request[c].nul \in BOOLEAN /\ request[c].name \in Names /\ request[c].cmd = "SEND"
    BY <1>2
  <2>2. request[c].pieces \in -1 .. MaxPieces
    BY <1>2 DEF Unreadable
  <2> QED
    BY <2>1, <2>2, PiecesAssumption DEF Name
<1>3. CASE request[c] \in [cmd : {"RECV"}, name : Names, pieces : {0}, nul : {FALSE}]
  <2>1. /\ request[c].name \in Names
        /\ request[c].cmd = "RECV" /\ request[c].pieces = 0
    BY <1>3
  <2>2. request[c].nul \in BOOLEAN
    BY <1>3, Zenon
  <2> QED
    BY <2>1, <2>2, PiecesAssumption DEF Name
<1> QED
  BY <1>1, <1>2, <1>3 DEF AllRequests

\* The pieces of a client's file are pieces.
LEMMA PieceOf ==
  ASSUME NEW c \in Clients, NEW k \in 1 .. MaxPieces
  PROVE  <<c, k>> \in Pieces
BY DEF Pieces

-----------------------------------------------------------------------------
(* Type correctness *)

\* The invariant holds when the server starts.
LEMMA InitInv == Init => Inv
<1> SUFFICES ASSUME Init PROVE Inv
  OBVIOUS
<1>1. \A n \in Names : disk[n] \in Seq(Pieces) /\ Len(disk[n]) <= MaxPieces
  <2>1. Old \in Seq(Pieces) /\ Len(Old) = MaxPieces
    BY PiecesAssumption DEF Old, Pieces
  <2>2. <<>> \in Seq(Pieces) /\ Len(<<>>) = 0
    OBVIOUS
  <2> HIDE DEF Old
  <2> TAKE n \in Names
  <2>3. disk[n] = Old \/ disk[n] = <<>>
    BY DEF Init
  <2> QED
    <3>1. CASE disk[n] = Old
      BY <2>1, <3>1, PiecesAssumption
    <3>2. CASE disk[n] = <<>>
      BY <2>2, <3>2, PiecesAssumption
    <3> QED
      BY <2>3, <3>1, <3>2
<1>2. disk \in [Names -> Seq(Pieces)]
  BY <1>1 DEF Init
<1>3. TypeOK
  BY <1>1, <1>2, PiecesAssumption DEF Init, TypeOK
<1>4. TalkInv
  BY DEF Init, TalkInv, Talk, ClientSide, Consent, Before, Pending, Upload, Download, Refused,
         Asked, Deciding, Uploading, Downloading
<1>5. FilesInv
  BY DEF Init, FilesInv, Stored, Fetched, Uploading, Downloading
<1> QED
  BY <1>3, <1>4, <1>5 DEF Inv

\* The child receives only if something is left to receive, at most what the client
\* has sent of its file.
LEMMA NextPiece ==
  ASSUME TypeOK, NEW c \in Clients, Talk(c), child[c] = "receive", up[c] # <<>>
  PROVE  /\ offset[c] + 1 \in 1 .. MaxPieces
         /\ Head(up[c]) = <<c, offset[c] + Len(taken[c]) + 1>>
         /\ Head(up[c]) \in Pieces
         /\ Tail(up[c]) \in Seq(UpItems)
         /\ Len(Tail(up[c])) = Len(up[c]) - 1
         /\ \A k \in 1 .. Len(Tail(up[c])) : Tail(up[c])[k] = up[c][k + 1]
<1>1. /\ up[c] \in Seq(UpItems) /\ taken[c] \in Seq(Pieces)
      /\ offset[c] \in 0 .. MaxPieces /\ sent[c] \in 0 .. MaxPieces
  BY DEF TypeOK, UpItems
<1>2. Len(up[c]) >= 1 /\ Head(up[c]) = up[c][1]
  BY <1>1
<1>3. /\ offset[c] + Len(taken[c]) + Len(up[c]) = sent[c]
      /\ \A k \in 1 .. Len(up[c]) : up[c][k] = <<c, offset[c] + Len(taken[c]) + k>>
  BY DEF Talk, Upload, Uploading
<1>4. Len(taken[c]) \in Nat /\ Len(up[c]) \in Nat
  BY <1>1
<1>5. offset[c] + 1 \in 1 .. MaxPieces /\ offset[c] + Len(taken[c]) + 1 \in 1 .. MaxPieces
  <2>1. \A o, t, u, s, m \in Nat :
          s <= m /\ u >= 1 /\ o + t + u = s => o + 1 \in 1 .. m /\ o + t + 1 \in 1 .. m
    OBVIOUS
  <2>2. sent[c] \in Nat /\ sent[c] <= MaxPieces /\ offset[c] \in Nat
    BY <1>1, PiecesAssumption
  <2> QED
    BY <1>2, <1>3, <1>4, <2>1, <2>2, PiecesAssumption
<1>6. Head(up[c]) = <<c, offset[c] + Len(taken[c]) + 1>>
  BY <1>2, <1>3, <1>4
<1>7. Head(up[c]) \in Pieces
  BY <1>5, <1>6, PieceOf
<1>8. /\ Tail(up[c]) \in Seq(UpItems) /\ Len(Tail(up[c])) = Len(up[c]) - 1
      /\ \A k \in 1 .. Len(Tail(up[c])) : Tail(up[c])[k] = up[c][k + 1]
  BY <1>1, <1>2
<1> QED
  BY <1>5, <1>6, <1>7, <1>8

\* A write makes a file of pieces no longer than its last piece.
LEMMA WrittenPieces ==
  ASSUME NEW s \in Seq(Pieces), Len(s) <= MaxPieces, NEW k \in 1 .. MaxPieces, NEW p \in Pieces
  PROVE  /\ Written(s, k, p) \in Seq(Pieces)
         /\ Len(Written(s, k, p)) = IF Len(s) > k THEN Len(s) ELSE k
         /\ Len(Written(s, k, p)) <= MaxPieces
         /\ \A i \in 1 .. Len(s) : i # k => Written(s, k, p)[i] = s[i]
         /\ Written(s, k, p)[k] = p
<1> DEFINE n == IF Len(s) > k THEN Len(s) ELSE k
<1>1. n \in Nat /\ n <= MaxPieces /\ n >= k /\ n >= Len(s)
  BY PiecesAssumption
<1>2. Hole \in Pieces
  BY DEF Pieces
<1>3. \A i \in 1 .. n : (IF i = k THEN p ELSE IF i <= Len(s) THEN s[i] ELSE Hole) \in Pieces
  BY <1>2
<1>4. Written(s, k, p) =
        [i \in 1 .. n |-> IF i = k THEN p ELSE IF i <= Len(s) THEN s[i] ELSE Hole]
  BY DEF Written
<1>5. k \in 1 .. n /\ \A i \in 1 .. Len(s) : i \in 1 .. n
  BY <1>1
<1> HIDE DEF n
<1>6. Written(s, k, p) \in Seq(Pieces) /\ Len(Written(s, k, p)) = n
  BY <1>1, <1>3, <1>4
<1>7. Written(s, k, p)[k] = p
  BY <1>4, <1>5
<1>8. \A i \in 1 .. Len(s) : i # k => Written(s, k, p)[i] = s[i]
  BY <1>4, <1>5
<1> QED
  BY <1>1, <1>6, <1>7, <1>8 DEF n

\* The answer of a client: what comes first, and what comes with it.
LEMMA Confirmation ==
  ASSUME TypeOK, NEW c \in Clients, Talk(c), child[c] = "confirm", NEW n \in 1 .. Len(up[c])
  PROVE  /\ SubSeq(up[c], 2, n) \in Seq(Pieces)
         /\ Len(SubSeq(up[c], 2, n)) = n - 1
         /\ SubSeq(up[c], n + 1, Len(up[c])) \in Seq(UpItems)
         /\ Len(SubSeq(up[c], n + 1, Len(up[c]))) = Len(up[c]) - n
         /\ \A k \in 1 .. Len(up[c]) - n : SubSeq(up[c], n + 1, Len(up[c]))[k] = up[c][k + n]
         /\ Head(up[c]) = up[c][1]
         /\ \/ up[c][1] = Cancel /\ cpc[c] = "quit" /\ n = 1 /\ up[c] = <<Cancel>>
            \/ /\ c \in agreed /\ up[c][1] = Ok
               /\ Len(up[c]) = sent[c] + 1
               /\ \A k \in 1 .. sent[c] : up[c][k + 1] = <<c, k>>
<1>1. up[c] \in Seq(UpItems) /\ Len(up[c]) \in Nat /\ n \in Nat /\ n >= 1 /\ n <= Len(up[c])
  BY DEF TypeOK, UpItems
<1>2. up[c] # <<>> /\ Head(up[c]) = up[c][1]
  BY <1>1
<1>3. \/ up[c] = <<Cancel>> /\ cpc[c] = "quit"
      \/ /\ c \in agreed /\ up[c][1] = Ok
         /\ Len(up[c]) = sent[c] + 1
         /\ \A k \in 1 .. sent[c] : up[c][k + 1] = <<c, k>>
  BY <1>2 DEF Talk, Pending
<1>4. \A k \in 2 .. n : up[c][k] \in Pieces
  <2>1. CASE up[c] = <<Cancel>>
    <3>1. n = 1
      BY <2>1, <1>1
    <3> QED
      BY <3>1
  <2>2. CASE /\ Len(up[c]) = sent[c] + 1
             /\ \A k \in 1 .. sent[c] : up[c][k + 1] = <<c, k>>
    <3> TAKE k \in 2 .. n
    <3>1. sent[c] \in 0 .. MaxPieces
      BY DEF TypeOK
    <3>2. k - 1 \in 1 .. sent[c] /\ k - 1 \in 1 .. MaxPieces /\ (k - 1) + 1 = k
      BY <1>1, <2>2, <3>1, PiecesAssumption
    <3>3. up[c][k] = <<c, k - 1>>
      BY <2>2, <3>2
    <3> QED
      BY <3>2, <3>3, PieceOf
  <2> QED
    BY <1>3, <2>1, <2>2
<1>5. SubSeq(up[c], 2, n) = [k \in 1 .. n - 1 |-> up[c][k + 1]]
  BY <1>1
<1>6. SubSeq(up[c], 2, n) \in Seq(Pieces) /\ Len(SubSeq(up[c], 2, n)) = n - 1
  <2>1. \A k \in 1 .. n - 1 : up[c][k + 1] \in Pieces
    BY <1>1, <1>4
  <2>2. n - 1 \in Nat
    BY <1>1
  <2> QED
    BY <1>5, <2>1, <2>2
<1>7. /\ SubSeq(up[c], n + 1, Len(up[c])) \in Seq(UpItems)
      /\ Len(SubSeq(up[c], n + 1, Len(up[c]))) = Len(up[c]) - n
      /\ \A k \in 1 .. Len(up[c]) - n : SubSeq(up[c], n + 1, Len(up[c]))[k] = up[c][k + n]
  BY <1>1
<1>8. up[c] = <<Cancel>> => up[c][1] = Cancel /\ n = 1
  BY <1>1
<1> QED
  BY <1>2, <1>3, <1>6, <1>7, <1>8

\* Every step of a child keeps the types.
LEMMA ChildTypes ==
  ASSUME TypeOK, NEW c \in Clients, Talk(c), Child(c) \/ Parent(c) PROVE TypeOK'
<1> USE DEF TypeOK
<1>1. CASE Parent(c)
  BY <1>1 DEF Parent, Fork, ParentCloses, clientVars, childVars, fileVars, serverVars
<1>2. CASE RecvCommand(c)
  <2>1. <<>> \in Seq(UpItems)
    OBVIOUS
  <2> QED
    BY <1>2, <2>1 DEF RecvCommand, clientVars, fileVars, serverVars, UpItems
<1>3. CASE ReadEnd(c)
  BY <1>3 DEF ReadEnd, Goes, clientVars, fileVars, serverVars
<1>4. ASSUME NEW from, NEW to \in {"confirm", "closed"}, NEW word \in DownItems, Answer(c, from, to, word)
      PROVE  TypeOK'
  <2>1. \A d \in Clients : down[d] \in Seq(DownItems)
    BY DEF DownItems
  <2>2. Append(down[c], word) \in Seq(DownItems)
    BY <2>1
  <2>3. down' \in [Clients -> Seq(DownItems)]
    BY <1>4, <2>1, <2>2 DEF Answer
  <2>4. accepted' \subseteq Clients
    BY <1>4 DEF Answer
  <2>5. child' = [child EXCEPT ![c] = to]
    BY <1>4 DEF Answer
  <2> QED
    BY <1>4, <2>3, <2>4, <2>5 DEF Answer, clientVars, fileVars, serverVars, DownItems
<1>5. CASE Accept(c) \/ Reject(c) \/ OpenFails(c)
  BY <1>4, <1>5 DEF Accept, Reject, OpenFails, DownItems, Pieces
<1>6. CASE RecvConfirm(c)
  <2>1. PICK n \in 1 .. Len(up[c]) :
          /\ taken' = [taken EXCEPT ![c] = SubSeq(up[c], 2, n)]
          /\ up' = [up EXCEPT ![c] = SubSeq(up[c], n + 1, Len(up[c]))]
          /\ IF IsOk(c, n) /\ request[c].cmd = "SEND"
             THEN /\ child' = [child EXCEPT ![c] = "receive"]
                  /\ disk' = [disk EXCEPT ![Name(c)] = <<>>]
                  /\ present' = present \union {Name(c)}
             ELSE /\ child' = [child EXCEPT ![c] = IF IsOk(c, n) THEN "open" ELSE "closed"]
                  /\ UNCHANGED <<disk, present>>
    BY <1>6 DEF RecvConfirm
  <2>2. child[c] = "confirm" /\ UNCHANGED <<clientVars, offset, accepted, down, terminal, serverVars>>
    BY <1>6 DEF RecvConfirm
  <2>3. /\ SubSeq(up[c], 2, n) \in Seq(Pieces)
        /\ SubSeq(up[c], n + 1, Len(up[c])) \in Seq(UpItems)
    BY <2>2, Confirmation
  <2>4. taken' \in [Clients -> Seq(Pieces)] /\ up' \in [Clients -> Seq(UpItems)]
    BY <2>1, <2>3 DEF UpItems
  <2>5. Name(c) \in Names
    BY RequestFields
  <2>6. /\ disk' \in [Names -> Seq(Pieces)] /\ present' \subseteq Names
        /\ \A m \in Names : Len(disk'[m]) <= MaxPieces
    <3>1. CASE UNCHANGED <<disk, present>>
      BY <3>1
    <3>2. CASE disk' = [disk EXCEPT ![Name(c)] = <<>>] /\ present' = present \union {Name(c)}
      <4>1. <<>> \in Seq(Pieces) /\ Len(<<>>) <= MaxPieces
        BY PiecesAssumption
      <4> QED
        BY <2>5, <3>2, <4>1
    <3> QED
      BY <2>1, <3>1, <3>2
  <2>7. child' \in [Clients -> {"none", "command", "prompt", "skip", "spin", "accept", "reject",
                              "confirm", "receive", "received", "open", "send", "sent",
                              "closed", "stopped"}]
    BY <2>1
  <2> QED
    BY <2>2, <2>4, <2>6, <2>7 DEF clientVars, serverVars, UpItems
<1>7. CASE RecvNothing(c)
  BY <1>7 DEF RecvNothing, Goes, clientVars, fileVars, serverVars
<1>8. CASE Receive(c)
  <2>1. child[c] = "receive" /\ up[c] # <<>>
    BY <1>8 DEF Receive, Stores
  <2>2. /\ offset[c] + 1 \in 1 .. MaxPieces /\ Head(up[c]) \in Pieces
        /\ Tail(up[c]) \in Seq(UpItems)
    BY <2>1, NextPiece
  <2>3. Name(c) \in Names
    BY RequestFields
  <2>4. disk' = [disk EXCEPT ![Name(c)] = Written(disk[Name(c)], offset[c] + 1, Head(up[c]))]
    BY <1>8 DEF Receive, Stores
  <2>5. /\ Written(disk[Name(c)], offset[c] + 1, Head(up[c])) \in Seq(Pieces)
        /\ Len(Written(disk[Name(c)], offset[c] + 1, Head(up[c]))) <= MaxPieces
    BY <2>2, <2>3, WrittenPieces
  <2>6. disk' \in [Names -> Seq(Pieces)] /\ \A m \in Names : Len(disk'[m]) <= MaxPieces
    BY <2>3, <2>4, <2>5
  <2>7. up' \in [Clients -> Seq(UpItems)] /\ offset' \in [Clients -> 0 .. MaxPieces]
    BY <1>8, <2>2, PiecesAssumption, SMTT(30) DEF Receive, Stores, UpItems
  <2> QED
    BY <1>8, <2>6, <2>7 DEF Receive, Stores, clientVars, serverVars, UpItems
<1>9. CASE ReceiveEnd(c)
  BY <1>9 DEF ReceiveEnd, Goes, clientVars, fileVars, serverVars
<1>10. CASE OpenToSend(c) \/ SendDies(c) \/ SendEnd(c)
  BY <1>10 DEF OpenToSend, SendDies, SendEnd, Goes, clientVars, fileVars, serverVars
<1>11. CASE Send(c)
  <2>1. Name(c) \in Names
    BY RequestFields
  <2>2. disk[Name(c)] \in Seq(Pieces) /\ Len(disk[Name(c)]) <= MaxPieces
    BY <2>1
  <2>3. offset[c] + 1 \in 1 .. Len(disk[Name(c)]) /\ offset[c] + 1 \in 0 .. MaxPieces
    <3> DEFINE n == Len(disk[Name(c)])
    <3>1. offset[c] < n
      BY <1>11 DEF Send, MoreToSend
    <3>2. offset[c] \in Nat /\ n \in Nat /\ n <= MaxPieces
      BY <2>2
    <3> HIDE DEF n
    <3>3. offset[c] + 1 \in 1 .. n /\ offset[c] + 1 \in 0 .. MaxPieces
      BY <3>1, <3>2, PiecesAssumption, SMTT(30)
    <3> QED
      BY <3>3 DEF n
  <2>4. disk[Name(c)][offset[c] + 1] \in DownItems
    BY <2>2, <2>3 DEF DownItems
  <2>5. \A d \in Clients : down[d] \in Seq(DownItems)
    BY DEF DownItems
  <2>6. Append(down[c], disk[Name(c)][offset[c] + 1]) \in Seq(DownItems)
    BY <2>4, <2>5
  <2>7. down' \in [Clients -> Seq(DownItems)] /\ offset' \in [Clients -> 0 .. MaxPieces]
    BY <1>11, <2>3, <2>5, <2>6 DEF Send
  <2> QED
    BY <1>11, <2>7 DEF Send, clientVars, serverVars, DownItems
<1> QED
  BY <1>1, <1>2, <1>3, <1>5, <1>6, <1>7, <1>8, <1>9, <1>10, <1>11 DEF Child

\* So does what a client sends,
LEMMA SendUpTypes ==
  ASSUME TypeOK, NEW c \in Clients, NEW p \in UpItems, SendUp(c, p)
  PROVE  up' \in [Clients -> Seq(UpItems)]
<1>1. up \in [Clients -> Seq(UpItems)]
  BY DEF TypeOK, UpItems
<1>2. Append(up[c], p) \in Seq(UpItems)
  BY <1>1
<1> QED
  BY <1>1, <1>2 DEF SendUp

\* every step of a client and its user,
LEMMA ClientTypes ==
  ASSUME TypeOK, NEW c \in Clients, Talk(c), Client(c) \/ User(c) PROVE TypeOK'
<1> USE DEF TypeOK
<1>1. CASE \/ ClientConnect(c) \/ ClientRequestDies(c) \/ ClientNotAnswered(c)
           \/ ClientSendDies(c) \/ ClientSendEnd(c)
           \/ ClientReceiveEnd(c) \/ ClientKilled(c)
  BY <1>1 DEF ClientConnect, ClientRequestDies, ClientNotAnswered, ClientSendDies, ClientSendEnd,
              ClientReceiveEnd, ClientKilled,
              ClientGoes, childVars, fileVars, serverVars
<1>2. CASE ClientRequest(c)
  <2>1. up' \in [Clients -> Seq(UpItems)]
    BY <1>2, SendUpTypes DEF ClientRequest, UpItems
  <2> QED
    BY <1>2, <2>1 DEF ClientRequest, childVars, fileVars, serverVars, UpItems
<1>3. CASE ClientAnswered(c)
  <2>1. Tail(down[c]) \in Seq(DownItems)
    BY <1>3 DEF ClientAnswered, DownItems
  <2> QED
    BY <1>3, <2>1 DEF ClientAnswered, childVars, fileVars, serverVars, DownItems
<1>4. CASE ClientAgrees(c)
  <2>1. up' \in [Clients -> Seq(UpItems)]
    BY <1>4, SendUpTypes DEF ClientAgrees, UpItems
  <2>2. request[c].cmd \in {"SEND", "RECV"}
    BY RequestFields
  <2> QED
    BY <1>4, <2>1, <2>2 DEF ClientAgrees, childVars, fileVars, serverVars, UpItems
<1>5. CASE ClientCancels(c)
  <2>1. up' \in [Clients -> Seq(UpItems)]
    BY <1>5, SendUpTypes DEF ClientCancels, UpItems
  <2> QED
    BY <1>5, <2>1 DEF ClientCancels, childVars, fileVars, serverVars, UpItems
<1>6. CASE ClientSend(c)
  <2>1. sent[c] + 1 \in 1 .. MaxPieces /\ sent[c] + 1 \in 0 .. MaxPieces
    <3>1. request[c].pieces \in Int /\ request[c].pieces <= MaxPieces
      BY RequestFields
    <3>2. sent[c] \in 0 .. MaxPieces
      OBVIOUS
    <3>3. sent[c] < request[c].pieces
      BY <1>6 DEF ClientSend
    <3> QED
      BY <3>1, <3>2, <3>3, NextNumber
  <2>2. <<c, sent[c] + 1>> \in UpItems
    BY <2>1, PieceOf DEF UpItems
  <2>3. up' \in [Clients -> Seq(UpItems)]
    BY <1>6, <2>2, SendUpTypes DEF ClientSend
  <2> QED
    BY <1>6, <2>1, <2>3 DEF ClientSend, childVars, fileVars, serverVars, UpItems
<1>7. CASE ClientReceive(c)
  <2>1. cpc[c] = "download" /\ down[c] # <<>>
    BY <1>7 DEF ClientReceive
  <2>2. down[c] \in Seq(DownItems) /\ local[c] \in Seq(Pieces)
    BY DEF DownItems
  <2>3. Head(down[c]) = down[c][1] /\ 1 \in 1 .. Len(down[c])
    BY <2>1, <2>2
  <2>4. Head(down[c]) \in Pieces
    BY <2>1, <2>3 DEF Talk, Download
  <2>5. Tail(down[c]) \in Seq(DownItems) /\ Append(local[c], Head(down[c])) \in Seq(Pieces)
    BY <2>1, <2>2, <2>4
  <2>6. down' \in [Clients -> Seq(DownItems)] /\ local' \in [Clients -> Seq(Pieces)]
    BY <1>7, <2>5 DEF ClientReceive, DownItems
  <2> QED
    BY <1>7, <2>6 DEF ClientReceive, childVars, fileVars, serverVars, DownItems
<1> QED
  BY <1>1, <1>2, <1>3, <1>4, <1>5, <1>6, <1>7 DEF Client, User

\* and every step of the operator.
LEMMA OperatorTypes ==
  ASSUME TypeOK, Operator PROVE TypeOK'
<1> USE DEF TypeOK
<1>1. CASE OperatorEnds
  BY <1>1 DEF OperatorEnds, clientVars, childVars, fileVars, serverVars
<1>2. CASE OperatorStops
  BY <1>2 DEF OperatorStops, ChildOver, clientVars, fileVars, serverVars
<1>3. ASSUME NEW c \in Clients, NEW line, ReadLine(c, line) PROVE TypeOK'
  BY <1>3 DEF ReadLine, Goes, clientVars, fileVars, serverVars
<1> QED
  BY <1>1, <1>2, <1>3 DEF Operator

-----------------------------------------------------------------------------
(* Each client and its child *)

\* Nothing happens to client d or its child, but perhaps to the files.
Same(d) ==
    /\ request' = request /\ cpc'[d] = cpc[d] /\ sent'[d] = sent[d] /\ local'[d] = local[d]
    /\ child'[d] = child[d] /\ offset'[d] = offset[d] /\ taken'[d] = taken[d]
    /\ up'[d] = up[d] /\ down'[d] = down[d]
    /\ d \in accepted' <=> d \in accepted
    /\ d \in agreed' <=> d \in agreed

\* Talk(d) is about nothing else.
LEMMA SameTalk ==
  ASSUME NEW d \in Clients, Same(d), Talk(d) PROVE Talk(d)'
BY DEF Same, Talk, ClientSide, Consent, Before, Pending, Upload, Download, Refused, Gone

\* A step of one client or its child does nothing to another.
LEMMA OthersSame ==
  ASSUME TypeOK, NEW c \in Clients, NEW d \in Clients \ {c},
         Child(c) \/ Parent(c) \/ Client(c) \/ User(c) \/ \E line : ReadLine(c, line)
  PROVE  Same(d)
<1> USE DEF TypeOK, Same
<1>1. CASE Child(c)
  <2>1. CASE RecvConfirm(c)
    BY <2>1 DEF RecvConfirm, clientVars
  <2>2. CASE Child(c) /\ ~RecvConfirm(c)
    BY <2>2 DEF Child, RecvCommand, ReadEnd, Accept, Reject, RecvNothing, Receive, Stores,
              ReceiveEnd, OpenToSend, OpenFails, Send, SendDies, SendEnd, Goes, Answer,
              clientVars, fileVars
  <2> QED
    BY <1>1, <2>1, <2>2
<1>2. CASE Client(c)
  BY <1>2 DEF Client, ClientRequest, ClientRequestDies, ClientAnswered, ClientNotAnswered,
              ClientSend, ClientSendDies, ClientSendEnd,
              ClientReceive, ClientReceiveEnd, ClientGoes, SendUp, childVars, fileVars
<1>3. CASE User(c)
  BY <1>3, SMTT(30)
     DEF User, ClientConnect, ClientAgrees, ClientCancels, ClientKilled, ClientGoes, SendUp,
         childVars, fileVars
<1>4. CASE \E line : ReadLine(c, line)
  BY <1>4 DEF ReadLine, Goes, clientVars, fileVars
<1>5. CASE Parent(c)
  BY <1>5 DEF Parent, Fork, ParentCloses, clientVars, childVars, fileVars
<1> QED
  BY <1>1, <1>2, <1>3, <1>4, <1>5

\* Every step of a child keeps the relation with its client.
LEMMA ChildTalk ==
  ASSUME TypeOK, NEW c \in Clients, Talk(c), Child(c) \/ Parent(c) PROVE Talk(c)'
<1> USE DEF TypeOK, Asked, Deciding, Uploading, Downloading
<1>0. CASE Parent(c)
  <2>1. CASE Fork(c)
    <3>1. /\ cpc[c] # "start" /\ child[c] = "none" /\ child'[c] = "command"
          /\ UNCHANGED <<clientVars, fileVars, taken, accepted, up, down>>
      BY <2>1 DEF Fork
    <3> QED
      BY <3>1 DEF clientVars, fileVars, Gone,
              Talk, ClientSide, Consent, Before, Pending, Upload, Download, Refused
  <2>2. CASE ParentCloses(c)
    <3>1. Same(c)
      BY <2>2 DEF ParentCloses, clientVars, childVars, fileVars, Same
    <3> QED
      BY <3>1, SameTalk
  <2> QED
    BY <1>0, <2>1, <2>2 DEF Parent
<1>1. CASE ReadEnd(c) \/ OpenToSend(c) \/ SendEnd(c)
  BY <1>1 DEF ReadEnd, OpenToSend, SendEnd, Goes, clientVars, fileVars, Gone,
              Talk, ClientSide, Consent, Before, Pending, Upload, Download, Refused
<1>2. CASE RecvCommand(c)
  BY <1>2 DEF RecvCommand, clientVars, fileVars, Gone,
              Talk, ClientSide, Consent, Before, Pending, Upload, Download, Refused
<1>3. CASE Accept(c)
  BY <1>3, ItemsDiffer DEF Accept, Answer, clientVars, fileVars, Gone,
              Talk, ClientSide, Consent, Before, Pending, Upload, Download, Refused
<1>4. CASE Reject(c)
  BY <1>4, ItemsDiffer DEF Reject, Answer, clientVars, fileVars, Gone,
              Talk, ClientSide, Consent, Before, Pending, Upload, Download, Refused
<1>5. CASE RecvNothing(c)
  <2>1. /\ up[c] = <<>> /\ Gone(c)
        /\ child[c] \in {"command", "confirm"} /\ child' = [child EXCEPT ![c] = "closed"]
        /\ UNCHANGED <<clientVars, fileVars, taken, accepted, up, down>>
    BY <1>5 DEF RecvNothing, StreamEnded, Goes
  <2>2. up[c] = <<>> => Len(up[c]) # sent[c] + 1 /\ up[c] # <<Cancel>>
    OBVIOUS
  <2>3. cpc[c] = "killed"
    BY <2>1, <2>2 DEF Gone, Talk, Before, Pending
  <2> QED
    BY <2>1, <2>3 DEF clientVars, fileVars, Gone,
              Talk, ClientSide, Consent, Before, Pending, Upload, Download, Refused
<1>6. CASE ReceiveEnd(c)
  BY <1>6 DEF ReceiveEnd, StreamEnded, Goes, clientVars, fileVars, Gone,
              Talk, ClientSide, Consent, Before, Pending, Upload, Download, Refused
<1>7. CASE SendDies(c)
  BY <1>7, RequestFields DEF SendDies, Goes, clientVars, fileVars, Gone,
              Talk, ClientSide, Consent, Before, Pending, Upload, Download, Refused
<1>8. CASE OpenFails(c)
  <2>1. /\ down' = [down EXCEPT ![c] = Append(@, ErrorText)]
        /\ child[c] = "open" /\ child' = [child EXCEPT ![c] = "closed"]
        /\ accepted' = accepted
        /\ UNCHANGED <<clientVars, fileVars, taken, up>>
    BY <1>8, ItemsDiffer DEF OpenFails, Answer
  <2>2. ErrorText \in Pieces /\ ErrorText # Ok
    BY ItemsDiffer DEF Pieces
  <2>3. down[c] \in Seq(DownItems) /\ ErrorText \in DownItems
    BY <2>2 DEF DownItems
  <2>4. \A k \in 1 .. Len(down'[c]) : down'[c][k] = ErrorText \/ (k \in 1 .. Len(down[c]) /\ down'[c][k] = down[c][k])
    BY <2>1, <2>3, SMTT(30)
  <2> QED
    BY <2>1, <2>2, <2>4 DEF clientVars, fileVars, Gone,
              Talk, ClientSide, Consent, Before, Pending, Upload, Download, Refused
<1>9. CASE Send(c)
  <2>1. Name(c) \in Names
    BY RequestFields
  <2>2. disk[Name(c)] \in Seq(Pieces) /\ Len(disk[Name(c)]) <= MaxPieces
    BY <2>1
  <2> DEFINE p == disk[Name(c)][offset[c] + 1]
  <2>3. p \in Pieces
    BY <1>9, <2>2 DEF Send, MoreToSend
  <2>4. p # Ok
    BY <2>3, ItemsDiffer
  <2>5. /\ down' = [down EXCEPT ![c] = Append(@, p)] /\ child[c] = "send"
        /\ offset' = [offset EXCEPT ![c] = @ + 1]
        /\ UNCHANGED <<clientVars, child, taken, accepted, up>>
    BY <1>9 DEF Send
  <2> HIDE DEF p
  <2>6. down[c] \in Seq(DownItems) /\ p \in DownItems
    BY <2>3 DEF DownItems
  <2>7. \A k \in 1 .. Len(down'[c]) : down'[c][k] = p \/ (k \in 1 .. Len(down[c]) /\ down'[c][k] = down[c][k])
    BY <2>5, <2>6, SMTT(30)
  <2> QED
    BY <2>3, <2>4, <2>5, <2>7 DEF clientVars, Gone,
              Talk, ClientSide, Consent, Before, Pending, Upload, Download, Refused
<1>10. CASE RecvConfirm(c)
  <2>1. PICK n \in 1 .. Len(up[c]) :
          /\ taken' = [taken EXCEPT ![c] = SubSeq(up[c], 2, n)]
          /\ up' = [up EXCEPT ![c] = SubSeq(up[c], n + 1, Len(up[c]))]
          /\ IF IsOk(c, n) /\ request[c].cmd = "SEND"
             THEN child' = [child EXCEPT ![c] = "receive"]
             ELSE child' = [child EXCEPT ![c] = IF IsOk(c, n) THEN "open" ELSE "closed"]
    BY <1>10 DEF RecvConfirm
  <2>2. child[c] = "confirm" /\ UNCHANGED <<clientVars, offset, accepted, down>>
    BY <1>10 DEF RecvConfirm
  <2> DEFINE s == SubSeq(up[c], 2, n)
             w == SubSeq(up[c], n + 1, Len(up[c]))
  <2>3. /\ Len(s) = n - 1 /\ Len(w) = Len(up[c]) - n
        /\ \A k \in 1 .. Len(up[c]) - n : w[k] = up[c][k + n]
        /\ Head(up[c]) = up[c][1]
        /\ \/ up[c][1] = Cancel /\ cpc[c] = "quit" /\ n = 1
           \/ /\ c \in agreed /\ up[c][1] = Ok
              /\ Len(up[c]) = sent[c] + 1
              /\ \A k \in 1 .. sent[c] : up[c][k + 1] = <<c, k>>
    BY <2>2, Confirmation
  <2>4. s \in Seq(Pieces) /\ Len(s) \in Nat /\ Len(w) \in Nat
    <3>1. s \in Seq(Pieces) /\ w \in Seq(UpItems)
      BY <2>2, Confirmation
    <3> HIDE DEF s, w
    <3> QED
      BY <3>1
  <2>5. /\ taken'[c] = s /\ up'[c] = w /\ offset[c] = 0 /\ offset'[c] = 0
        /\ cpc' = cpc /\ sent' = sent /\ local' = local /\ request' = request /\ agreed' = agreed
        /\ accepted' = accepted /\ down' = down
    BY <2>1, <2>2 DEF clientVars, Talk, Before
  <2>6. n \in Nat /\ n >= 1 /\ n <= Len(up[c]) /\ Len(up[c]) \in Nat
    BY DEF UpItems
  <2> HIDE DEF s, w
  <2>7. CASE IsOk(c, n)
    <3>1. up[c][1] = Ok
      BY <2>3, <2>7 DEF IsOk
    <3>2. /\ c \in agreed
          /\ Len(up[c]) = sent[c] + 1
          /\ \A k \in 1 .. sent[c] : up[c][k + 1] = <<c, k>>
      BY <2>3, <3>1, ItemsDiffer
    <3>3. offset'[c] + Len(s) + Len(w) = sent[c]
      BY <2>3, <2>5, <2>6, <3>2
    <3>4. \A k \in 1 .. Len(w) : w[k] = <<c, offset'[c] + Len(s) + k>>
      <4> TAKE k \in 1 .. Len(w)
      <4>1. w[k] = up[c][k + n] /\ sent[c] \in Nat
        BY <2>3
      <4>2. k + n - 1 \in 1 .. sent[c] /\ (k + n - 1) + 1 = k + n
            /\ offset'[c] + Len(s) + k = k + n - 1
        BY <2>3, <2>4, <2>5, <2>6, <3>2, <4>1
      <4> QED
        BY <3>2, <4>1, <4>2
    <3>5. ~request[c].nul => s = <<>>
      <4>1. ~request[c].nul => n = 1
        BY <2>7 DEF IsOk
      <4>2. Len(s) = 0 => s = <<>>
        BY <2>4
      <4> QED
        BY <2>3, <4>1, <4>2
    <3>6. child'[c] = IF request[c].cmd = "SEND" THEN "receive" ELSE "open"
      BY <2>1, <2>7
    <3>7. cpc[c] \in {"upload", "download", "finished", "failed", "killed", "quit"} /\ c \in accepted
      BY <2>2, <3>2, ItemsDiffer DEF Talk, ClientSide, Consent, Pending
    <3>8. request[c].cmd \in {"SEND", "RECV"}
      BY RequestFields
    <3>9. ClientSide(c)' /\ Consent(c)' /\ Before(c)' /\ Pending(c)'
      BY <2>2, <2>5, <3>2, <3>6, <3>7, <3>8 DEF Talk, ClientSide, Consent, Before, Pending
    <3>10. Upload(c)'
      BY <2>5, <3>3, <3>4, <3>5, <3>6, <3>8 DEF Upload
    <3>11. Download(c)' /\ Refused(c)'
      BY <2>2, <2>5, <3>6, <3>7, <3>8 DEF Talk, ClientSide, Pending, Download, Refused
    <3> QED
      BY <3>9, <3>10, <3>11 DEF Talk
  <2>8. CASE ~IsOk(c, n)
    <3>1. child'[c] = "closed"
      BY <2>1, <2>8
    <3>2. s = <<>> => cpc[c] = "quit"
      BY <2>3, <2>4, <2>8 DEF IsOk
    <3> QED
      BY <2>2, <2>5, <3>1, <3>2 DEF Gone,
              Talk, ClientSide, Consent, Before, Pending, Upload, Download, Refused
  <2> QED
    BY <2>7, <2>8
<1>11. CASE Receive(c)
  <2>1. child[c] = "receive" /\ up[c] # <<>> /\ child' = child
    BY <1>11 DEF Receive, Stores
  <2> DEFINE w == Tail(up[c])
  <2>2. /\ Len(w) = Len(up[c]) - 1 /\ \A k \in 1 .. Len(w) : w[k] = up[c][k + 1]
        /\ w \in Seq(UpItems)
    BY <2>1, NextPiece
  <2>3. /\ up'[c] = w /\ offset'[c] = offset[c] + 1 /\ taken' = taken /\ accepted' = accepted
        /\ down' = down
        /\ cpc' = cpc /\ sent' = sent /\ local' = local /\ request' = request /\ agreed' = agreed
    BY <1>11 DEF Receive, Stores, clientVars
  <2> HIDE DEF w
  <2>4. Len(w) \in Nat /\ Len(taken[c]) \in Nat /\ offset[c] \in Int
    BY <2>2
  <2>5. /\ offset[c] + Len(taken[c]) + Len(up[c]) = sent[c]
        /\ \A k \in 1 .. Len(up[c]) : up[c][k] = <<c, offset[c] + Len(taken[c]) + k>>
    BY <2>1 DEF Talk, Upload
  <2>6. offset'[c] + Len(taken[c]) + Len(w) = sent[c]
    BY <2>2, <2>3, <2>4, <2>5
  <2>7. \A k \in 1 .. Len(w) : w[k] = <<c, offset'[c] + Len(taken[c]) + k>>
    <3> TAKE k \in 1 .. Len(w)
    <3>1. k + 1 \in 1 .. Len(up[c])
      BY <2>2, <2>4
    <3>2. offset[c] + Len(taken[c]) + (k + 1) = offset'[c] + Len(taken[c]) + k
      BY <2>3, <2>4
    <3> QED
      BY <2>2, <2>5, <3>1, <3>2
  <2> QED
    BY <2>1, <2>3, <2>6, <2>7 DEF Gone,
              Talk, ClientSide, Consent, Before, Pending, Upload, Download, Refused
<1> QED
  BY <1>0, <1>1, <1>2, <1>3, <1>4, <1>5, <1>6, <1>7, <1>8, <1>9, <1>10, <1>11 DEF Child

\* So does a line the operator types,
LEMMA ReadLineTalk ==
  ASSUME TypeOK, NEW c \in Clients, Talk(c), NEW line, ReadLine(c, line) PROVE Talk(c)'
BY DEF ReadLine, Goes, clientVars, fileVars, Gone, TypeOK, Asked, Deciding, Uploading, Downloading,
       Talk, ClientSide, Consent, Before, Pending, Upload, Download, Refused

\* and the end of the server.
LEMMA StopTalk ==
  ASSUME TypeOK, NEW c \in Clients, Talk(c), OperatorStops PROVE Talk(c)'
BY DEF OperatorStops, ChildOver, clientVars, fileVars, Gone, TypeOK, Asked, Deciding, Uploading,
       Downloading,
       Talk, ClientSide, Consent, Before, Pending, Upload, Download, Refused

\* What is sent while the server's end is open is appended to the stream.
LEMMA SentUp ==
  ASSUME TypeOK, NEW c \in Clients, NEW p \in UpItems, SendUp(c, p)
  PROVE  \/ Closed(c) /\ up' = up
         \/ /\ ~Closed(c) /\ Len(up'[c]) = Len(up[c]) + 1 /\ up'[c][Len(up[c]) + 1] = p
            /\ \A k \in 1 .. Len(up[c]) : up'[c][k] = up[c][k]
            /\ up[c] = <<>> => up'[c] = <<p>>
            /\ Len(up[c]) \in Nat
<1>1. up \in [Clients -> Seq(UpItems)]
  BY DEF TypeOK, UpItems
<1>2. CASE Closed(c)
  BY <1>2 DEF SendUp
<1>3. CASE ~Closed(c)
  <2>1. up'[c] = Append(up[c], p)
    BY <1>1, <1>3 DEF SendUp
  <2>2. up[c] \in Seq(UpItems)
    BY <1>1
  <2>3. /\ Len(Append(up[c], p)) = Len(up[c]) + 1 /\ Append(up[c], p)[Len(up[c]) + 1] = p
        /\ \A k \in 1 .. Len(up[c]) : Append(up[c], p)[k] = up[c][k]
        /\ Len(up[c]) \in Nat
    BY <2>2
  <2>4. up[c] = <<>> => Append(up[c], p) = <<p>>
    BY <2>2
  <2> QED
    BY <1>3, <2>1, <2>3, <2>4
<1> QED
  BY <1>2, <1>3

\* Every step of a client and its user keeps the relation with its child.
LEMMA ClientTalk ==
  ASSUME TypeOK, NEW c \in Clients, Talk(c), Client(c) \/ User(c) PROVE Talk(c)'
<1> USE DEF TypeOK, Asked, Deciding, Uploading, Downloading
<1>0. CASE ClientConnect(c) \/ ClientRequestDies(c)
  BY <1>0 DEF ClientConnect, ClientRequestDies, Closed, ChildOver, ClientGoes, childVars, fileVars,
              Gone, Talk, ClientSide, Consent, Before, Pending, Upload, Download, Refused
<1>1. CASE ClientRequest(c)
  <2>1. /\ cpc[c] = "connected" /\ SendUp(c, Command) /\ cpc' = [cpc EXCEPT ![c] = "waiting"]
        /\ UNCHANGED <<request, sent, local, agreed, childVars, down>>
    BY <1>1 DEF ClientRequest
  <2>2. up[c] = <<>> /\ down[c] = <<>> /\ child[c] \in Asked \union {"stopped"}
    BY <2>1 DEF Talk, Before
  <2>3. up'[c] \in {<<>>, <<Command>>}
    BY <2>1, <2>2, SentUp DEF UpItems
  <2>4. /\ request' = request /\ sent' = sent /\ local' = local /\ child' = child
        /\ offset' = offset /\ taken' = taken /\ accepted' = accepted /\ down' = down
        /\ agreed' = agreed /\ cpc'[c] = "waiting"
    BY <2>1 DEF childVars, fileVars
  <2> QED
    BY <2>1, <2>2, <2>3, <2>4 DEF Gone,
              Talk, ClientSide, Consent, Before, Pending, Upload, Download, Refused
<1>2. CASE ClientNotAnswered(c)
  BY <1>2 DEF ClientNotAnswered, ServerEnded, Closed, ChildOver, ClientGoes, childVars, fileVars, Gone,
              Talk, ClientSide, Consent, Before, Pending, Upload, Download, Refused
<1>3. CASE ClientSendDies(c)
  BY <1>3 DEF ClientSendDies, Closed, ChildOver, ClientGoes, childVars, fileVars, Gone,
              Talk, ClientSide, Consent, Before, Pending, Upload, Download, Refused
<1>4. CASE ClientSendEnd(c)
  BY <1>4 DEF ClientSendEnd, ClientGoes, childVars, fileVars, Gone,
              Talk, ClientSide, Consent, Before, Pending, Upload, Download, Refused
<1>5. CASE ClientReceiveEnd(c)
  BY <1>5 DEF ClientReceiveEnd, ServerEnded, Closed, ChildOver, ClientGoes, childVars, fileVars, Gone,
              Talk, ClientSide, Consent, Before, Pending, Upload, Download, Refused
<1>6. CASE ClientKilled(c)
  BY <1>6, ZenonT(30) DEF ClientKilled, ClientGoes, childVars, fileVars, Gone,
              Talk, ClientSide, Consent, Before, Pending, Upload, Download, Refused
<1>7. CASE ClientAnswered(c)
  <2>1. /\ cpc[c] = "waiting" /\ down[c] # <<>>
        /\ cpc' = [cpc EXCEPT ![c] = IF Head(down[c]) = Ok THEN "asking" ELSE "quit"]
        /\ down' = [down EXCEPT ![c] = Tail(@)]
        /\ UNCHANGED <<request, sent, local, agreed, childVars, up>>
    BY <1>7 DEF ClientAnswered
  <2>2. down[c] \in Seq(DownItems)
    BY DEF DownItems
  <2>3. /\ Head(down[c]) = down[c][1] /\ 1 \in 1 .. Len(down[c])
        /\ \A k \in 1 .. Len(Tail(down[c])) : k + 1 \in 1 .. Len(down[c]) /\ Tail(down[c])[k] = down[c][k + 1]
    BY <2>1, <2>2
  <2>4. Head(down[c]) = Ok => c \in accepted
    BY <2>3 DEF Talk, Consent
  <2>5. \A k \in 1 .. Len(down'[c]) : down'[c][k] = Ok => c \in accepted
    BY <2>1, <2>3 DEF Talk, Consent
  <2>6. down[c] = <<Ok>> => Head(down[c]) = Ok /\ down'[c] = <<>>
    BY <2>1
  <2>7. down[c] = <<Rejected>> => Head(down[c]) # Ok
    BY ItemsDiffer
  <2>8. cpc'[c] = IF Head(down[c]) = Ok THEN "asking" ELSE "quit"
    BY <2>1
  <2>9. /\ request' = request /\ sent' = sent /\ local' = local /\ agreed' = agreed /\ child' = child
        /\ offset' = offset /\ taken' = taken /\ accepted' = accepted /\ up' = up
    BY <2>1 DEF childVars, fileVars
  <2> QED
    BY <2>1, <2>4, <2>5, <2>6, <2>7, <2>8, <2>9 DEF Gone,
              Talk, ClientSide, Consent, Before, Pending, Upload, Download, Refused
<1>8. CASE ClientAgrees(c)
  <2>1. /\ cpc[c] = "asking" /\ SendUp(c, Ok) /\ agreed' = agreed \union {c}
        /\ cpc' = [cpc EXCEPT ![c] =
                 CASE request[c].cmd = "RECV" -> "download"
                   [] request[c].pieces = Unreadable -> "failed"
                   [] OTHER -> "upload"]
        /\ UNCHANGED <<request, sent, local, childVars, down>>
    BY <1>8 DEF ClientAgrees
  <2>2. request[c].cmd \in {"SEND", "RECV"}
    BY RequestFields
  <2>3. \/ cpc'[c] = "download" /\ request[c].cmd = "RECV"
        \/ cpc'[c] \in {"failed", "upload"} /\ request[c].cmd = "SEND"
    <3>1. cpc'[c] = CASE request[c].cmd = "RECV" -> "download"
                      [] request[c].pieces = Unreadable -> "failed"
                      [] OTHER -> "upload"
      BY <2>1
    <3>2. request[c].cmd = "RECV" => request[c].pieces # Unreadable
      BY RequestFields, SMTT(30) DEF Unreadable
    <3>3. CASE request[c].cmd = "RECV"
      BY <3>1, <3>2, <3>3
    <3>4. CASE request[c].cmd = "SEND" /\ request[c].pieces = Unreadable
      BY <3>1, <3>4
    <3>5. CASE request[c].cmd = "SEND" /\ request[c].pieces # Unreadable
      BY <3>1, <3>5
    <3> QED
      BY <2>2, <3>3, <3>4, <3>5
  <2>4. c \in accepted /\ c \notin agreed /\ sent[c] = 0 /\ local[c] = <<>>
        /\ child[c] \notin Asked \union Deciding \union Uploading \union Downloading
    BY <2>1 DEF Talk, ClientSide, Consent, Before
  <2>5. child[c] = "confirm" => up[c] = <<>> /\ down[c] = <<>>
    BY <2>1, <2>4 DEF Talk, Pending, Download
  <2>6. child[c] = "closed" /\ request[c].cmd = "SEND" => taken[c] # <<>>
    BY <2>1 DEF Talk, Refused
  <2>7. child[c] = "confirm" => Len(up'[c]) = 1 /\ up'[c][1] = Ok
    <3>1. CASE child[c] = "confirm"
      <4>1. Len(up'[c]) = Len(up[c]) + 1 /\ up'[c][Len(up[c]) + 1] = Ok
        BY <2>1, <3>1, SentUp DEF Closed, ChildOver, UpItems
      <4>2. Len(up[c]) = 0
        BY <2>5, <3>1
      <4> QED
        BY <4>1, <4>2
    <3> QED
      BY <3>1
  <2>8. /\ request' = request /\ sent' = sent /\ local' = local /\ child' = child
        /\ offset' = offset /\ taken' = taken /\ accepted' = accepted /\ down' = down
        /\ c \in agreed'
    BY <2>1 DEF childVars, fileVars
  <2>9. down[c] = <<>> /\ \A k \in 1 .. Len(down[c]) : down[c][k] \in Pieces
    <3>1. down[c] = <<>>
      BY <2>1 DEF Talk, Download
    <3>2. Len(<<>>) = 0
      OBVIOUS
    <3> QED
      BY <3>1, <3>2
  <2> QED
    BY <2>3, <2>4, <2>5, <2>6, <2>7, <2>8, <2>9 DEF Gone,
              Talk, ClientSide, Consent, Before, Pending, Upload, Download, Refused
<1>9. CASE ClientCancels(c)
  <2>1. /\ cpc[c] = "asking" /\ SendUp(c, Cancel) /\ cpc' = [cpc EXCEPT ![c] = "quit"]
        /\ UNCHANGED <<request, sent, local, agreed, childVars, down>>
    BY <1>9 DEF ClientCancels
  <2>2. c \in accepted /\ c \notin agreed
        /\ child[c] \notin Asked \union Deciding \union Uploading \union Downloading
    BY <2>1 DEF Talk, ClientSide, Consent, Before
  <2>3. child[c] = "confirm" => up[c] = <<>>
    BY <2>1, <2>2 DEF Talk, Pending
  <2>4. child[c] = "confirm" => up'[c] = <<Cancel>>
    BY <2>1, <2>3, SentUp DEF Closed, ChildOver, UpItems
  <2>5. /\ request' = request /\ sent' = sent /\ local' = local /\ child' = child
        /\ offset' = offset /\ taken' = taken /\ accepted' = accepted /\ down' = down
        /\ agreed' = agreed /\ cpc'[c] = "quit"
    BY <2>1 DEF childVars, fileVars
  <2> QED
    BY <2>1, <2>2, <2>4, <2>5 DEF Gone,
              Talk, ClientSide, Consent, Before, Pending, Upload, Download, Refused
<1>10. CASE ClientSend(c)
  <2>1. /\ cpc[c] = "upload" /\ sent[c] < request[c].pieces /\ SendUp(c, <<c, sent[c] + 1>>)
        /\ sent' = [sent EXCEPT ![c] = @ + 1]
        /\ UNCHANGED <<request, cpc, local, agreed, childVars, down>>
    BY <1>10 DEF ClientSend
  <2>2. /\ sent[c] \in Nat /\ sent'[c] = sent[c] + 1 /\ sent'[c] <= request[c].pieces
        /\ sent[c] + 1 \in 1 .. MaxPieces
    <3>1. request[c].pieces \in Int /\ request[c].pieces <= MaxPieces
      BY RequestFields
    <3>2. sent[c] \in 0 .. MaxPieces /\ sent'[c] = sent[c] + 1
      BY <2>1
    <3> HIDE DEF TypeOK
    <3> QED
      BY <2>1, <3>1, <3>2, NextNumber, PiecesAssumption
  <2>3. <<c, sent[c] + 1>> \in UpItems
    BY <2>2, PieceOf DEF UpItems
  <2>4. c \in agreed /\ c \in accepted /\ request[c].cmd = "SEND"
        /\ child[c] \notin Asked \union Deciding \union Downloading
    BY <2>1 DEF Talk, ClientSide, Consent, Before, Download
  <2>5. \/ Closed(c) /\ up' = up
        \/ /\ ~Closed(c) /\ Len(up'[c]) = Len(up[c]) + 1 /\ up'[c][Len(up[c]) + 1] = <<c, sent'[c]>>
           /\ \A k \in 1 .. Len(up[c]) : up'[c][k] = up[c][k]
           /\ Len(up[c]) \in Nat
    BY <2>1, <2>2, <2>3, SentUp
  <2>6. /\ request' = request /\ cpc' = cpc /\ local' = local /\ child' = child
        /\ offset' = offset /\ taken' = taken /\ accepted' = accepted /\ down' = down
        /\ agreed' = agreed
    BY <2>1 DEF childVars, fileVars
  <2>7. CASE child[c] = "confirm"
    <3>1. Len(up[c]) = sent[c] + 1 /\ up[c][1] = Ok /\ \A k \in 1 .. sent[c] : up[c][k + 1] = <<c, k>>
      BY <2>1, <2>7 DEF Talk, Pending
    <3>2. /\ Len(up'[c]) = sent'[c] + 1 /\ up'[c][sent'[c] + 1] = <<c, sent'[c]>>
          /\ \A k \in 1 .. sent[c] + 1 : up'[c][k] = up[c][k]
      BY <2>2, <2>5, <2>7, <3>1 DEF Closed, ChildOver
    <3>3. up'[c][1] = Ok
      <4>1. 1 \in 1 .. sent[c] + 1
        BY <2>2
      <4> QED
        BY <3>1, <3>2, <4>1
    <3>4. \A k \in 1 .. sent'[c] : up'[c][k + 1] = <<c, k>>
      <4> TAKE k \in 1 .. sent'[c]
      <4>1. CASE k = sent'[c]
        BY <3>2, <4>1
      <4>2. CASE k \in 1 .. sent[c]
        <5>1. k + 1 \in 1 .. sent[c] + 1
          BY <2>2, <4>2
        <5> QED
          BY <3>1, <3>2, <4>2, <5>1
      <4> QED
        BY <2>2, <4>1, <4>2, SMTT(30)
    <3> QED
      BY <2>1, <2>2, <2>4, <2>6, <2>7, <3>2, <3>3, <3>4 DEF Gone,
              Talk, ClientSide, Consent, Before, Pending, Upload, Download, Refused
  <2>8. CASE child[c] \in Uploading
    <3>1. /\ offset[c] + Len(taken[c]) + Len(up[c]) = sent[c]
          /\ \A k \in 1 .. Len(up[c]) : up[c][k] = <<c, offset[c] + Len(taken[c]) + k>>
          /\ child[c] = "receive"
      BY <2>1, <2>8 DEF Talk, Upload, Gone
    <3>2. /\ Len(up'[c]) = Len(up[c]) + 1 /\ up'[c][Len(up[c]) + 1] = <<c, sent'[c]>>
          /\ \A k \in 1 .. Len(up[c]) : up'[c][k] = up[c][k]
      BY <2>5, <3>1 DEF Closed, ChildOver
    <3>3. Len(up[c]) \in Nat /\ Len(taken[c]) \in Nat /\ offset[c] \in Nat
      BY <2>5, <3>1, PiecesAssumption DEF Closed, ChildOver
    <3>4. offset[c] + Len(taken[c]) + Len(up'[c]) = sent'[c]
      BY <2>2, <3>1, <3>2, <3>3
    <3>5. \A k \in 1 .. Len(up'[c]) : up'[c][k] = <<c, offset[c] + Len(taken[c]) + k>>
      <4> TAKE k \in 1 .. Len(up'[c])
      <4>1. CASE k = Len(up[c]) + 1
        BY <3>2, <3>4, <4>1
      <4>2. CASE k \in 1 .. Len(up[c])
        BY <3>1, <3>2, <4>2
      <4> QED
        BY <3>2, <3>3, <4>1, <4>2, SMTT(30)
    <3> QED
      BY <2>1, <2>2, <2>4, <2>6, <3>1, <3>4, <3>5 DEF Gone,
              Talk, ClientSide, Consent, Before, Pending, Upload, Download, Refused
  <2>9. CASE child[c] \notin Uploading \union {"confirm"}
    BY <2>1, <2>2, <2>4, <2>6, <2>9 DEF Gone,
              Talk, ClientSide, Consent, Before, Pending, Upload, Download, Refused
  <2> QED
    BY <2>7, <2>8, <2>9
<1>11. CASE ClientReceive(c)
  <2>1. /\ cpc[c] = "download" /\ down[c] # <<>> /\ local' = [local EXCEPT ![c] = Append(@, Head(down[c]))]
        /\ down' = [down EXCEPT ![c] = Tail(@)]
        /\ UNCHANGED <<request, cpc, sent, agreed, childVars, up>>
    BY <1>11 DEF ClientReceive
  <2>2. down[c] \in Seq(DownItems)
    BY DEF DownItems
  <2>3. \A k \in 1 .. Len(Tail(down[c])) : k + 1 \in 1 .. Len(down[c]) /\ Tail(down[c])[k] = down[c][k + 1]
    BY <2>1, <2>2
  <2>4. \A k \in 1 .. Len(down'[c]) : down'[c][k] \in Pieces
    BY <2>1, <2>3 DEF Talk, Download
  <2>5. \A k \in 1 .. Len(down'[c]) : down'[c][k] = Ok => c \in accepted
    BY <2>1, <2>3 DEF Talk, Consent
  <2>6. /\ request' = request /\ cpc' = cpc /\ sent' = sent /\ child' = child
        /\ offset' = offset /\ taken' = taken /\ accepted' = accepted /\ up' = up
        /\ agreed' = agreed
    BY <2>1 DEF childVars, fileVars
  <2>7. c \in agreed /\ child[c] # "confirm" /\ child[c] \notin Asked \union Deciding
    BY <2>1 DEF Talk, ClientSide, Before, Pending
  <2> QED
    BY <2>1, <2>4, <2>5, <2>6, <2>7 DEF Gone,
              Talk, ClientSide, Consent, Before, Pending, Upload, Download, Refused
<1> QED
  BY <1>0, <1>1, <1>2, <1>3, <1>4, <1>5, <1>6, <1>7, <1>8, <1>9, <1>10, <1>11 DEF Client, User

-----------------------------------------------------------------------------
(* The files *)

\* The children that may have opened a file for writing.
Writers == {"receive", "received", "stopped"}

\* Who has opened a file for writing will always count as one that did.
LEMMA WritersStay ==
  ASSUME TypeOK, NEW c \in Clients, NEW d \in Clients, child[d] \in Writers,
         \/ Child(c) \/ Parent(c) \/ Client(c) \/ User(c) \/ Operator
  PROVE  child'[d] \in Writers
<1> USE DEF TypeOK, Writers
<1>1. CASE Child(c)
  <2>1. CASE c = d
    <3>1. CASE Receive(c) \/ ReceiveEnd(c)
      BY <2>1, <3>1 DEF Receive, Stores, ReceiveEnd, Goes
    <3>2. CASE Child(c) /\ ~Receive(c) /\ ~ReceiveEnd(c)
      BY <2>1, <3>2 DEF Child, RecvCommand, ReadEnd, Accept, Reject, RecvConfirm, RecvNothing,
              OpenToSend, OpenFails, Send, SendDies, SendEnd, Goes, Answer
    <3> QED
      BY <1>1, <3>1, <3>2
  <2>2. CASE c # d
    BY <1>1, <2>2, OthersSame DEF Same
  <2> QED
    BY <2>1, <2>2
<1>2. CASE Client(c) \/ User(c)
  BY <1>2 DEF Client, ClientRequest, ClientRequestDies, ClientAnswered, ClientNotAnswered,
              ClientSend, ClientSendDies, ClientSendEnd,
              ClientReceive, ClientReceiveEnd, User, ClientConnect, ClientAgrees, ClientCancels,
              ClientKilled, ClientGoes, childVars
<1>3. CASE Operator
  BY <1>3 DEF Operator, OperatorEnds, OperatorStops, ReadLine, Goes, childVars, ChildOver
<1>4. CASE Parent(c)
  BY <1>4 DEF Parent, Fork, ParentCloses, childVars
<1> QED
  BY <1>1, <1>2, <1>3, <1>4

\* So whoever has a file alone has always had it alone.
LEMMA AloneBefore ==
  ASSUME TypeOK, NEW c \in Clients, NEW d \in Clients, request' = request, Alone(d)',
         \/ Child(c) \/ Parent(c) \/ Client(c) \/ User(c) \/ Operator
  PROVE  Alone(d)
<1>1. ASSUME NEW e \in Clients \ {d}, Name(e) = Name(d), request[e].cmd = "SEND"
      PROVE  child[e] \notin Writers
  <2>1. child'[e] \notin Writers
    BY <1>1 DEF Alone, Name, Writers
  <2> QED
    BY <2>1, WritersStay
<1> QED
  BY <1>1 DEF Alone, Writers

\* What a client and its child do with other files does not concern this one.
LEMMA OtherFiles ==
  ASSUME NEW d \in Clients, Same(d), Stored(d), Fetched(d), Alone(d)' => Alone(d),
         Alone(d)' => disk'[Name(d)] = disk[Name(d)]
  PROVE  Stored(d)' /\ Fetched(d)'
<1>1. Name(d)' = Name(d)
  BY DEF Same, Name
<1> QED
  BY <1>1 DEF Same, Stored, Fetched

\* A step of the child writes or sends the next piece of its own file.
LEMMA ChildFiles ==
  ASSUME TypeOK, NEW c \in Clients, Talk(c), Stored(c), Fetched(c), Child(c) \/ Parent(c),
         Alone(c)' => Alone(c)
  PROVE  Stored(c)' /\ Fetched(c)'
<1> USE DEF TypeOK, Uploading, Downloading
<1>1. request' = request /\ cpc' = cpc /\ local' = local /\ sent' = sent
  BY DEF Parent, Fork, ParentCloses, Child, RecvCommand, ReadEnd, Accept, Reject, RecvConfirm,
         RecvNothing, Receive, Stores,
         ReceiveEnd, OpenToSend, OpenFails, Send, SendDies, SendEnd, Goes, Answer, clientVars
<1>2. Name(c)' = Name(c) /\ Name(c) \in Names
  BY <1>1, RequestFields DEF Name
<1>3. CASE \/ Fork(c) \/ RecvCommand(c) \/ ReadEnd(c) \/ Accept(c) \/ Reject(c) \/ RecvNothing(c)
           \/ OpenFails(c) \/ SendDies(c)
  <2>1. child'[c] \notin Uploading \union Downloading
    BY <1>3 DEF Fork, RecvCommand, ReadEnd, Accept, Reject, RecvNothing, OpenFails, SendDies, Goes,
                Answer
  <2> QED
    BY <2>1 DEF Stored, Fetched
<1>4. CASE RecvConfirm(c)
  <2>1. /\ child[c] = "confirm" /\ UNCHANGED <<offset, down>>
        /\ \/ child'[c] = "receive" /\ disk' = [disk EXCEPT ![Name(c)] = <<>>]
           \/ child'[c] = "open" /\ disk' = disk
           \/ child'[c] = "closed"
    BY <1>4 DEF RecvConfirm
  <2>2. CASE child'[c] = "receive" /\ disk' = [disk EXCEPT ![Name(c)] = <<>>]
    <3>1. offset'[c] = 0 /\ disk'[Name(c)] = <<>>
      BY <1>2, <2>1, <2>2 DEF Talk, Before
    <3>2. Len(disk'[Name(c)]) = 0
      BY <3>1
    <3> QED
      BY <1>2, <2>2, <3>1, <3>2 DEF Stored, Fetched
  <2>3. CASE child'[c] = "open" /\ disk' = disk
    <3>1. cpc[c] = "download" => local[c] = <<>> /\ down[c] = <<>>
      BY <2>1 DEF Talk, Pending
    <3>2. request[c].cmd = "RECV"
      BY <1>4, <2>3, RequestFields DEF RecvConfirm
    <3>3. cpc[c] # "finished"
      BY <2>1, <3>2 DEF Talk, Pending
    <3>4. offset'[c] = 0
      BY <2>1 DEF Talk, Before
    <3>5. disk[Name(c)] \in Seq(Pieces) /\ Len(disk[Name(c)]) >= 0
      BY <1>2
    <3>6. cpc[c] = "download" => Len(local[c]) = 0 /\ Len(down[c]) = 0
      BY <3>1
    <3>7. ASSUME cpc[c] = "download"
          PROVE  /\ Len(local[c]) + Len(down[c]) = 0
                 /\ \A k \in 1 .. Len(local[c]) : local[c][k] = disk[Name(c)][k]
                 /\ \A k \in 1 .. Len(down[c]) : down[c][k] = disk[Name(c)][Len(local[c]) + k]
      BY <3>6, <3>7
    <3>8. 0 <= Len(disk[Name(c)])
      BY <3>5
    <3> HIDE DEF TypeOK
    <3>9. Fetched(c)'
      BY <1>1, <1>2, <2>1, <2>3, <3>3, <3>4, <3>7, <3>8 DEF Fetched
    <3> QED
      BY <2>3, <3>9 DEF Stored
  <2>4. CASE child'[c] = "closed"
    BY <2>4 DEF Stored, Fetched
  <2> QED
    BY <2>1, <2>2, <2>3, <2>4
<1>5. CASE Receive(c)
  <2>1. /\ child[c] = "receive" /\ child' = child /\ up[c] # <<>>
        /\ disk' = [disk EXCEPT ![Name(c)] = Written(disk[Name(c)], offset[c] + 1, Head(up[c]))]
        /\ offset' = [offset EXCEPT ![c] = @ + 1]
    BY <1>5 DEF Receive, Stores
  <2>2. Fetched(c)'
    BY <2>1 DEF Fetched
  <2>3. ASSUME ~request[c].nul, Alone(c)'
        PROVE  /\ Len(disk'[Name(c)]) = offset[c] + 1
               /\ \A k \in 1 .. offset[c] + 1 : disk'[Name(c)][k] = <<c, k>>
    <3> DEFINE s == disk[Name(c)]
    <3>1. s \in Seq(Pieces) /\ Len(s) <= MaxPieces
      BY <1>2
    <3>2. /\ offset[c] + 1 \in 1 .. MaxPieces /\ Head(up[c]) \in Pieces
          /\ Head(up[c]) = <<c, offset[c] + Len(taken[c]) + 1>>
      BY <2>1, NextPiece
    <3>3. taken[c] = <<>>
      BY <2>1, <2>3 DEF Talk, Upload
    <3>4. Len(taken[c]) = 0 /\ offset[c] \in Nat
      BY <3>3
    <3>5. Head(up[c]) = <<c, offset[c] + 1>>
      BY <3>2, <3>4
    <3>6. Len(s) = offset[c] /\ \A k \in 1 .. offset[c] : s[k] = <<c, k>>
      BY <2>1, <2>3 DEF Stored
    <3>7. disk'[Name(c)] = Written(s, offset[c] + 1, Head(up[c]))
      BY <1>2, <2>1
    <3> HIDE DEF s
    <3>8. /\ Len(disk'[Name(c)]) = offset[c] + 1
          /\ \A i \in 1 .. offset[c] : i # offset[c] + 1 => disk'[Name(c)][i] = s[i]
          /\ disk'[Name(c)][offset[c] + 1] = <<c, offset[c] + 1>>
      <4>1. /\ Len(Written(s, offset[c] + 1, Head(up[c]))) =
                 IF Len(s) > offset[c] + 1 THEN Len(s) ELSE offset[c] + 1
            /\ \A i \in 1 .. Len(s) :
                 i # offset[c] + 1 => Written(s, offset[c] + 1, Head(up[c]))[i] = s[i]
            /\ Written(s, offset[c] + 1, Head(up[c]))[offset[c] + 1] = Head(up[c])
        BY <3>1, <3>2, WrittenPieces, ZenonT(30)
      <4>2. Len(disk'[Name(c)]) = offset[c] + 1
        <5>1. ~(Len(s) > offset[c] + 1)
          BY <3>4, <3>6
        <5> QED
          BY <3>7, <4>1, <5>1
      <4>3. \A i \in 1 .. offset[c] : i # offset[c] + 1 => disk'[Name(c)][i] = s[i]
        BY <3>6, <3>7, <4>1
      <4>4. disk'[Name(c)][offset[c] + 1] = <<c, offset[c] + 1>>
        BY <3>5, <3>7, <4>1
      <4> QED
        BY <4>2, <4>3, <4>4
    <3>9. \A k \in 1 .. offset[c] + 1 : disk'[Name(c)][k] = <<c, k>>
      <4> TAKE k \in 1 .. offset[c] + 1
      <4>1. CASE k = offset[c] + 1
        BY <3>8, <4>1
      <4>2. CASE k \in 1 .. offset[c]
        <5>1. k # offset[c] + 1
          BY <3>4, <4>2
        <5> QED
          BY <3>6, <3>8, <4>2, <5>1
      <4> QED
        BY <3>4, <4>1, <4>2
    <3> QED
      BY <3>8, <3>9
  <2>4. offset'[c] = offset[c] + 1
    BY <2>1
  <2> QED
    BY <1>1, <1>2, <2>2, <2>3, <2>4 DEF Stored
<1>6. CASE ReceiveEnd(c)
  BY <1>1, <1>2, <1>6 DEF ReceiveEnd, Goes, fileVars, Stored, Fetched
<1>7. CASE OpenToSend(c)
  BY <1>1, <1>2, <1>7 DEF OpenToSend, Goes, fileVars, Stored, Fetched
<1>8. CASE SendEnd(c)
  <2>1. /\ child[c] = "send" /\ child'[c] = "sent" /\ ~(offset[c] < Len(disk[Name(c)]))
        /\ UNCHANGED <<offset, disk, down>>
    BY <1>8 DEF SendEnd, MoreToSend, Goes, fileVars
  <2>2. Len(disk[Name(c)]) \in Nat /\ offset[c] \in Int
    BY <1>2
  <2>3. offset[c] <= Len(disk[Name(c)]) => offset[c] = Len(disk[Name(c)])
    BY <2>1, <2>2
  <2> QED
    BY <1>1, <1>2, <2>1, <2>3 DEF Stored, Fetched
<1>9. CASE Send(c)
  <2> DEFINE s == disk[Name(c)]
             p == s[offset[c] + 1]
  <2>1. /\ child[c] = "send" /\ child' = child /\ offset[c] < Len(s) /\ disk' = disk
        /\ down' = [down EXCEPT ![c] = Append(@, p)]
        /\ offset' = [offset EXCEPT ![c] = @ + 1]
    BY <1>9 DEF Send, MoreToSend
  <2>2. s \in Seq(Pieces) /\ Len(s) \in Nat /\ offset[c] \in Nat /\ offset'[c] = offset[c] + 1
    BY <1>2, <2>1, PiecesAssumption
  <2>3. p \in DownItems /\ down[c] \in Seq(DownItems) /\ local[c] \in Seq(Pieces)
    BY <2>1, <2>2 DEF DownItems
  <2>4. /\ Len(down'[c]) = Len(down[c]) + 1 /\ down'[c][Len(down[c]) + 1] = p
        /\ \A k \in 1 .. Len(down[c]) : down'[c][k] = down[c][k]
        /\ Len(down[c]) \in Nat /\ Len(local[c]) \in Nat
    BY <2>1, <2>3
  <2>5. offset'[c] <= Len(s)
    BY <2>1, <2>2
  <2> HIDE DEF p
  <2>6. ASSUME Alone(c)', cpc[c] \in {"download", "finished"}
        PROVE  /\ Len(local[c]) + Len(down'[c]) = offset'[c]
               /\ \A k \in 1 .. Len(local[c]) : local[c][k] = s[k]
               /\ \A k \in 1 .. Len(down'[c]) : down'[c][k] = s[Len(local[c]) + k]
    <3>1. /\ Len(local[c]) + Len(down[c]) = offset[c]
          /\ \A k \in 1 .. Len(local[c]) : local[c][k] = s[k]
          /\ \A k \in 1 .. Len(down[c]) : down[c][k] = s[Len(local[c]) + k]
      BY <2>1, <2>6 DEF Fetched
    <3>2. \A k \in 1 .. Len(down'[c]) : k \in 1 .. Len(down[c]) \/ k = Len(down[c]) + 1
      BY <2>4
    <3>3. down'[c][Len(down[c]) + 1] = s[Len(local[c]) + (Len(down[c]) + 1)]
      <4>1. Len(local[c]) + (Len(down[c]) + 1) = offset[c] + 1
        BY <2>4, <3>1
      <4> QED
        BY <2>4, <4>1 DEF p
    <3> HIDE DEF s
    <3>4. Len(local[c]) + Len(down'[c]) = offset'[c]
      BY <2>2, <2>4, <3>1
    <3>5. \A k \in 1 .. Len(down'[c]) : down'[c][k] = s[Len(local[c]) + k]
      BY <2>4, <3>1, <3>2, <3>3
    <3> QED
      BY <3>1, <3>4, <3>5
  <2> QED
    BY <1>1, <1>2, <2>1, <2>5, <2>6 DEF Stored, Fetched
<1>0. CASE ParentCloses(c)
  <2>1. UNCHANGED <<clientVars, childVars, up, down>>
    BY <1>0 DEF ParentCloses
  <2>2. Alone(c)' = Alone(c)
    BY <2>1 DEF clientVars, childVars, Alone, Name
  <2> QED
    BY <2>1, <2>2 DEF clientVars, childVars, fileVars, Stored, Fetched, Name
<1> QED
  BY <1>0, <1>3, <1>4, <1>5, <1>6, <1>7, <1>8, <1>9 DEF Child, Parent

\* A step of the client moves what was sent into its copy, in order.
LEMMA ClientFiles ==
  ASSUME TypeOK, NEW c \in Clients, Talk(c), Stored(c), Fetched(c), Client(c) \/ User(c),
         Alone(c)' => Alone(c)
  PROVE  Stored(c)' /\ Fetched(c)'
<1> USE DEF TypeOK, Uploading, Downloading
<1>1. request' = request /\ child' = child /\ offset' = offset /\ disk' = disk
  BY DEF Client, ClientRequest, ClientRequestDies, ClientAnswered, ClientNotAnswered, ClientSend,
         ClientSendDies, ClientSendEnd, ClientReceive, ClientReceiveEnd, User, ClientConnect,
         ClientAgrees, ClientCancels,
         ClientKilled, ClientGoes, childVars, fileVars
<1>2. Name(c)' = Name(c) /\ Name(c) \in Names
  BY <1>1, RequestFields DEF Name
<1>3. Stored(c)'
  BY <1>1, <1>2 DEF Stored
<1>4. CASE \/ ClientAnswered(c) \/ ClientNotAnswered(c) \/ ClientSend(c) \/ ClientSendDies(c)
           \/ ClientConnect(c) \/ ClientRequest(c) \/ ClientRequestDies(c) \/ ClientCancels(c)
           \/ ClientKilled(c)
  <2>1. cpc'[c] \notin {"download", "finished"}
    BY <1>4 DEF ClientAnswered, ClientNotAnswered, ClientSend, ClientSendDies, ClientConnect,
                ClientRequest, ClientRequestDies, ClientCancels, ClientKilled, ClientGoes
  <2> QED
    BY <1>1, <1>2, <1>3, <2>1 DEF Fetched
<1>5. CASE ClientAgrees(c) \/ ClientSendEnd(c)
  <2>1. child[c] \notin Downloading
    BY <1>5 DEF ClientAgrees, ClientSendEnd, ClientGoes, Talk, ClientSide, Consent, Download
  <2> QED
    BY <1>1, <1>3, <2>1 DEF Fetched
<1>6. CASE ClientReceiveEnd(c)
  <2>1. cpc[c] = "download" /\ UNCHANGED <<local, down>>
    BY <1>6 DEF ClientReceiveEnd, ClientGoes
  <2> QED
    BY <1>1, <1>2, <1>3, <2>1 DEF Fetched
<1>7. CASE ClientReceive(c)
  <2> DEFINE s == disk[Name(c)]
             p == Head(down[c])
  <2>1. /\ cpc[c] = "download" /\ cpc' = cpc /\ down[c] # <<>>
        /\ local' = [local EXCEPT ![c] = Append(@, p)] /\ down' = [down EXCEPT ![c] = Tail(@)]
    BY <1>7 DEF ClientReceive
  <2>2. down[c] \in Seq(DownItems) /\ local[c] \in Seq(Pieces)
    BY DEF DownItems
  <2>3. /\ Len(down[c]) \in Nat /\ Len(down[c]) >= 1 /\ p = down[c][1] /\ Len(local[c]) \in Nat
        /\ Len(down'[c]) = Len(down[c]) - 1 /\ \A k \in 1 .. Len(down[c]) - 1 : down'[c][k] = down[c][k + 1]
    BY <2>1, <2>2
  <2>4. p \in Pieces
    <3>1. 1 \in 1 .. Len(down[c])
      BY <2>3
    <3> QED
      BY <2>1, <2>3, <3>1 DEF Talk, Download
  <2>5. /\ Len(local'[c]) = Len(local[c]) + 1 /\ local'[c][Len(local[c]) + 1] = p
        /\ \A k \in 1 .. Len(local[c]) : local'[c][k] = local[c][k]
    BY <2>1, <2>2, <2>4
  <2> HIDE DEF p, s
  <2>6. ASSUME child[c] \in Downloading, Alone(c)'
        PROVE  /\ Len(local'[c]) + Len(down'[c]) = offset[c]
               /\ \A k \in 1 .. Len(local'[c]) : local'[c][k] = s[k]
               /\ \A k \in 1 .. Len(down'[c]) : down'[c][k] = s[Len(local'[c]) + k]
    <3>1. /\ Len(local[c]) + Len(down[c]) = offset[c]
          /\ \A k \in 1 .. Len(local[c]) : local[c][k] = s[k]
          /\ \A k \in 1 .. Len(down[c]) : down[c][k] = s[Len(local[c]) + k]
      BY <2>1, <2>6 DEF Fetched, s
    <3>2. Len(local'[c]) + Len(down'[c]) = offset[c]
      BY <2>3, <2>5, <3>1
    <3>3. p = s[Len(local[c]) + 1]
      BY <2>3, <3>1
    <3>4. \A k \in 1 .. Len(local'[c]) : local'[c][k] = s[k]
      <4>1. \A k \in 1 .. Len(local'[c]) : k \in 1 .. Len(local[c]) \/ k = Len(local[c]) + 1
        BY <2>3, <2>5
      <4> QED
        BY <2>5, <3>1, <3>3, <4>1
    <3>5. \A k \in 1 .. Len(down'[c]) : down'[c][k] = s[Len(local'[c]) + k]
      <4> TAKE k \in 1 .. Len(down'[c])
      <4>1. /\ k \in 1 .. Len(down[c]) - 1 /\ k + 1 \in 1 .. Len(down[c])
            /\ Len(local'[c]) + k = Len(local[c]) + (k + 1)
        BY <2>3, <2>5
      <4> QED
        BY <2>3, <3>1, <4>1
    <3> QED
      BY <3>2, <3>4, <3>5
  <2> QED
    BY <1>1, <1>2, <1>3, <2>1, <2>6 DEF Fetched, s
<1> QED
  BY <1>3, <1>4, <1>5, <1>6, <1>7 DEF Client, User

\* The operator never touches a file.
LEMMA OperatorFiles ==
  ASSUME TypeOK, NEW d \in Clients, Talk(d), Stored(d), Fetched(d), Operator, Alone(d)' => Alone(d)
  PROVE  Stored(d)' /\ Fetched(d)'
<1> USE DEF TypeOK, Uploading, Downloading
<1>1. /\ request' = request /\ cpc' = cpc /\ local' = local /\ offset' = offset
      /\ down' = down /\ disk' = disk
  BY DEF Operator, OperatorEnds, OperatorStops, ReadLine, Goes, clientVars, childVars, fileVars
<1>2. Name(d)' = Name(d)
  BY <1>1 DEF Name
<1>3. child'[d] = child[d] \/ child'[d] \notin Uploading \union Downloading
  BY DEF Operator, OperatorEnds, OperatorStops, ReadLine, Goes, childVars
<1> QED
  BY <1>1, <1>2, <1>3 DEF Stored, Fetched

-----------------------------------------------------------------------------
(* The theorems *)

\* The files keep what FilesInv says of them when client c or its child moves.
LEMMA StepFiles ==
  ASSUME Inv, NEW c \in Clients, Child(c) \/ Parent(c) \/ Client(c) \/ User(c) PROVE FilesInv'
<1> USE DEF Inv, TalkInv, FilesInv
<1>1. request' = request
  BY DEF Parent, Fork, ParentCloses, Child, RecvCommand, ReadEnd, Accept, Reject, RecvConfirm,
         RecvNothing, Receive, Stores,
         ReceiveEnd, OpenToSend, OpenFails, Send, SendDies, SendEnd, Goes, Answer, clientVars,
         Client, ClientRequest, ClientRequestDies, ClientAnswered, ClientNotAnswered, ClientSend,
         ClientSendDies, ClientSendEnd,
         ClientReceive, ClientReceiveEnd, User, ClientConnect, ClientAgrees, ClientCancels,
         ClientKilled, ClientGoes
<1>2. \A d \in Clients : Alone(d)' => Alone(d)
  BY <1>1, AloneBefore
<1>3. Stored(c)' /\ Fetched(c)'
  BY <1>2, ChildFiles, ClientFiles
<1>4. ASSUME NEW d \in Clients \ {c} PROVE Stored(d)' /\ Fetched(d)'
  <2>1. Same(d)
    BY OthersSame
  <2>2. Name(c) \in Names /\ Name(d) \in Names /\ disk \in [Names -> Seq(Pieces)]
    BY RequestFields DEF TypeOK
  <2>3. ASSUME Alone(d)' PROVE disk'[Name(d)] = disk[Name(d)]
    <3>1. CASE RecvConfirm(c)
      <4>1. \/ disk' = disk
            \/ /\ disk' = [disk EXCEPT ![Name(c)] = <<>>] /\ request[c].cmd = "SEND"
               /\ child'[c] = "receive"
        BY <3>1 DEF RecvConfirm, TypeOK
      <4>2. child'[c] = "receive" /\ request[c].cmd = "SEND" => Name(c) # Name(d)
        BY <1>1, <1>4, <2>3 DEF Alone, Name
      <4> QED
        BY <2>2, <4>1, <4>2
    <3>2. CASE Receive(c)
      <4>1. /\ child'[c] = "receive" /\ child[c] = "receive"
            /\ disk' = [disk EXCEPT ![Name(c)] = Written(@, offset[c] + 1, Head(up[c]))]
        BY <3>2 DEF Receive, Stores
      <4>2. request[c].cmd = "SEND"
        BY <4>1 DEF Talk, Upload, Uploading
      <4>3. Name(c) # Name(d)
        BY <1>1, <1>4, <2>3, <4>1, <4>2 DEF Alone, Name
      <4> QED
        BY <2>2, <4>1, <4>3
    <3>3. CASE ~RecvConfirm(c) /\ ~Receive(c)
      BY <3>3 DEF Parent, Fork, ParentCloses, Child, RecvCommand, ReadEnd, Accept, Reject, RecvNothing,
         ReceiveEnd, OpenToSend, OpenFails, Send, SendDies, SendEnd, Goes, Answer, fileVars, childVars,
         Client, ClientRequest, ClientRequestDies, ClientAnswered, ClientNotAnswered, ClientSend,
         ClientSendDies, ClientSendEnd,
         ClientReceive, ClientReceiveEnd, User, ClientConnect, ClientAgrees, ClientCancels,
         ClientKilled, ClientGoes
    <3> QED
      BY <3>1, <3>2, <3>3
  <2> QED
    BY <1>2, <2>1, <2>3, OtherFiles
<1> QED
  BY <1>3, <1>4

\* The invariant is inductive.
LEMMA NextInv == ASSUME Inv, [Next]_vars PROVE Inv'
<1> USE DEF Inv
<1>1. ASSUME NEW c \in Clients, Child(c) \/ Parent(c) \/ Client(c) \/ User(c) PROVE Inv'
  <2>1. TypeOK'
    BY <1>1, ChildTypes, ClientTypes DEF TalkInv
  <2>2. Talk(c)'
    BY <1>1, ChildTalk, ClientTalk DEF TalkInv
  <2>3. \A d \in Clients \ {c} : Talk(d)'
    BY <1>1, OthersSame, SameTalk DEF TalkInv
  <2> QED
    BY <1>1, <2>1, <2>2, <2>3, StepFiles DEF TalkInv
<1>2. CASE Operator
  <2>1. TypeOK'
    BY <1>2, OperatorTypes
  <2>2. ASSUME NEW d \in Clients PROVE Talk(d)'
    <3>1. CASE OperatorEnds
      <4>1. Same(d)
        BY <3>1 DEF OperatorEnds, Same, clientVars, childVars, fileVars
      <4> QED
        BY <4>1, SameTalk DEF TalkInv
    <3>2. CASE OperatorStops
      BY <3>2, StopTalk DEF TalkInv
    <3>3. ASSUME NEW c \in Clients, NEW line, ReadLine(c, line) PROVE Talk(d)'
      <4>1. CASE c = d
        BY <3>3, <4>1, ReadLineTalk DEF TalkInv
      <4>2. CASE c # d
        BY <3>3, <4>2, OthersSame, SameTalk DEF TalkInv
      <4> QED
        BY <4>1, <4>2
    <3> QED
      BY <1>2, <3>1, <3>2, <3>3 DEF Operator
  <2>3. request' = request
    BY <1>2 DEF Operator, OperatorEnds, OperatorStops, ReadLine, Goes, clientVars
  <2>4. ASSUME NEW d \in Clients PROVE Stored(d)' /\ Fetched(d)'
    <3>1. Alone(d)' => Alone(d)
      BY <1>2, <2>3, AloneBefore
    <3> QED
      BY <1>2, <3>1, OperatorFiles DEF TalkInv, FilesInv
  <2> QED
    BY <2>1, <2>2, <2>4 DEF TalkInv, FilesInv
<1>3. CASE UNCHANGED vars
  <2>1. TypeOK'
    BY <1>3 DEF vars, clientVars, childVars, fileVars, serverVars, TypeOK
  <2>2. ASSUME NEW d \in Clients PROVE Talk(d)' /\ Stored(d)' /\ Fetched(d)'
    <3>1. Same(d) /\ disk' = disk
      BY <1>3 DEF vars, clientVars, childVars, fileVars, Same
    <3>2. Alone(d)' => Alone(d)
      BY <1>3 DEF vars, clientVars, childVars, Alone, Name
    <3> QED
      BY <3>1, <3>2, SameTalk, OtherFiles DEF TalkInv, FilesInv
  <2> QED
    BY <2>1, <2>2 DEF TalkInv, FilesInv
<1> QED
  BY <1>1, <1>2, <1>3 DEF Next

\* The inductive invariant holds in every reachable state.
THEOREM InvHolds == Spec => []Inv
<1>1. Inv /\ [Next]_vars => Inv'
  BY NextInv
<1> QED
  BY InitInv, <1>1, PTL DEF Spec

\* Every variable keeps its type, so no write leaves a file longer than what is sent.
THEOREM TypeCorrect == Spec => []TypeOK
<1>1. Inv => TypeOK
  BY DEF Inv
<1> QED
  BY InvHolds, <1>1, PTL

\* No file of the server is opened before the operator and this client's user have
\* agreed, whatever is cancelled, killed or interrupted.
THEOREM ConsentComesFirst == Spec => []ConsentFirst
<1>1. Inv => ConsentFirst
  BY DEF Inv, TalkInv, Talk, Consent, ConsentFirst, Uploading, Downloading
<1> QED
  BY InvHolds, <1>1, PTL

\* What is in a file that c alone uploads is as much of its content as was written.
LEMMA ContentPrefix ==
  ASSUME Inv, NEW c \in Clients, child[c] \in Uploading, ~request[c].nul, Alone(c)
  PROVE  /\ IsPrefix(disk[Name(c)], Content(c))
         /\ sent[c] = request[c].pieces /\ child[c] = "received" => disk[Name(c)] = Content(c)
<1> DEFINE n == IF request[c].pieces < 0 THEN 0 ELSE request[c].pieces
<1>1. request[c].pieces \in Int /\ Name(c) \in Names
  BY RequestFields DEF Inv
<1>2. Content(c) = [k \in 1 .. n |-> <<c, k>>] /\ n \in Nat
  <2>1. 1 .. request[c].pieces = 1 .. n /\ n \in Nat
    BY <1>1
  <2> HIDE DEF n
  <2> QED
    BY <2>1 DEF Content
<1>3. disk[Name(c)] \in Seq(Pieces)
  BY <1>1 DEF Inv, TypeOK
<1>4. /\ Len(disk[Name(c)]) = offset[c]
      /\ \A k \in 1 .. offset[c] : disk[Name(c)][k] = <<c, k>>
  BY DEF Inv, FilesInv, Stored
<1>5. /\ up[c] \in Seq(UpItems) /\ taken[c] \in Seq(Pieces)
      /\ offset[c] \in Nat /\ sent[c] \in Nat
  BY PiecesAssumption DEF Inv, TypeOK, UpItems
<1>6. /\ taken[c] = <<>> /\ offset[c] + Len(taken[c]) + Len(up[c]) = sent[c]
      /\ child[c] = "received" => up[c] = <<>>
      /\ sent[c] = 0 \/ sent[c] <= request[c].pieces
  BY DEF Inv, TalkInv, Talk, Upload, ClientSide
<1>7. Len(taken[c]) = 0 /\ Len(up[c]) \in Nat
  BY <1>5, <1>6
<1>8. offset[c] <= n
  BY <1>1, <1>5, <1>6, <1>7
<1>9. sent[c] = request[c].pieces /\ child[c] = "received" => offset[c] = n
  <2>1. up[c] = <<>> => Len(up[c]) = 0
    OBVIOUS
  <2> QED
    BY <1>1, <1>5, <1>6, <1>7, <2>1
<1> HIDE DEF n
<1>10. Content(c) \in Seq(Clients \X Nat) /\ Len(Content(c)) = n
  BY <1>2
<1>11. \A k \in 1 .. offset[c] : disk[Name(c)][k] = Content(c)[k]
  <2> TAKE k \in 1 .. offset[c]
  <2>1. k \in 1 .. n
    BY <1>2, <1>5, <1>8
  <2> QED
    BY <1>2, <1>4, <2>1
<1>12. IsPrefix(disk[Name(c)], Content(c))
  <2>1. SubSeq(disk[Name(c)], 1, offset[c]) = SubSeq(Content(c), 1, offset[c])
    BY <1>3, <1>4, <1>5, <1>8, <1>10, <1>11
  <2> QED
    BY <1>4, <1>8, <1>10, <2>1 DEF IsPrefix
<1>13. offset[c] = n => disk[Name(c)] = Content(c)
  BY <1>3, <1>4, <1>10, <1>11
<1> QED
  BY <1>9, <1>12, <1>13

\* An upload is at any time the beginning of the client's file, a transfer both sides
\* call finished is all of it, and a child turns a whole file away only if its
\* beginning came with the answer; all of this unless two uploads share a name or a
\* file begins with a NUL byte.
THEOREM CopiesAreFaithful == Spec => []CopyFaithful
<1>1. Inv => UploadIsPrefix
  BY ContentPrefix DEF UploadIsPrefix, Uploading
<1>2. Inv => TransferComplete
  <2> SUFFICES ASSUME Inv, NEW c \in Clients, cpc[c] = "finished", Alone(c)
               PROVE  /\ child[c] = "received" /\ ~request[c].nul => disk[Name(c)] = Content(c)
                      /\ child[c] = "sent" => local[c] = disk[Name(c)]
    BY DEF TransferComplete
  <2>1. ASSUME child[c] = "received", ~request[c].nul PROVE disk[Name(c)] = Content(c)
    <3>1. sent[c] = request[c].pieces
      BY <2>1 DEF Inv, TalkInv, Talk, ClientSide, Upload, Uploading
    <3> QED
      BY <2>1, <3>1, ContentPrefix DEF Uploading
  <2>2. ASSUME child[c] = "sent" PROVE local[c] = disk[Name(c)]
    <3>1. down[c] = <<>>
      BY <2>2 DEF Inv, TalkInv, Talk, Download, Downloading
    <3>2. /\ offset[c] = Len(disk[Name(c)])
          /\ Len(local[c]) + Len(down[c]) = offset[c]
          /\ \A k \in 1 .. Len(local[c]) : local[c][k] = disk[Name(c)][k]
      BY <2>2 DEF Inv, FilesInv, Fetched, Downloading
    <3>3. local[c] \in Seq(Pieces) /\ disk[Name(c)] \in Seq(Pieces)
      BY RequestFields DEF Inv, TypeOK
    <3>4. Len(down[c]) = 0 /\ Len(local[c]) \in Nat
      BY <3>1, <3>3
    <3>5. Len(local[c]) = Len(disk[Name(c)])
      BY <3>2, <3>4
    <3> QED
      BY <3>2, <3>3, <3>5
  <2> QED
    BY <2>1, <2>2
<1>3. Inv => RefusedOnlyWhenMerged
  BY DEF Inv, TalkInv, Talk, Refused, RefusedOnlyWhenMerged
<1>4. Inv => CopyFaithful
  BY <1>1, <1>2, <1>3 DEF CopyFaithful
<1> QED
  BY InvHolds, <1>4, PTL

\* A child that was not yet asked and whose client waits has a command to receive.
Requested(c) == child[c] \in Asked /\ cpc[c] = "waiting" => up[c] = <<Command>>

\* A connection that nobody will serve any more is one nobody has made.
Unserved(c) == child[c] = "none" /\ ~server => cpc[c] = "start"

\* The parent has a descriptor of no connection but the one it has just accepted.
Held(c) == c \in held => parent = c

WaitInv == \A c \in Clients : Requested(c) /\ Unserved(c) /\ Held(c)

\* Every step keeps it: the command waits for its child, stopping the server stops
\* the child of every client that has begun,
LEMMA NextWaitInv ==
  ASSUME Inv, WaitInv, [Next]_vars, NEW d \in Clients
  PROVE  Requested(d)' /\ Unserved(d)'
<1> USE DEF Asked
<1>1. Requested(d) /\ Unserved(d)
  BY DEF WaitInv
<1>0. /\ DOMAIN child = Clients /\ child = [e \in Clients |-> child[e]]
      /\ cpc = [e \in Clients |-> cpc[e]] /\ up = [e \in Clients |-> up[e]]
  BY DEF Inv, TypeOK
<1>2. CASE UNCHANGED vars
  BY <1>1, <1>2 DEF vars, clientVars, childVars, fileVars, serverVars, Requested, Unserved
<1>3. CASE Operator
  <2>1. CASE OperatorEnds
    BY <1>1, <2>1 DEF OperatorEnds, clientVars, childVars, fileVars, serverVars, Requested, Unserved
  <2>2. CASE OperatorStops
    BY <1>0, <1>1, <2>2 DEF OperatorStops, ChildOver, clientVars, fileVars, Requested, Unserved
  <2>3. ASSUME NEW c \in Clients, NEW line, ReadLine(c, line)
        PROVE  Requested(d)' /\ Unserved(d)'
    <3>1. PICK p \in {"accept", "reject", "skip"} :
            child' = [child EXCEPT ![c] = p] /\ UNCHANGED <<cpc, up, server>>
      BY <2>3, Zenon DEF ReadLine, Goes, clientVars, serverVars
    <3> QED
      BY <1>0, <1>1, <3>1 DEF Requested, Unserved
  <2>4. OperatorEnds \/ OperatorStops \/ \E c \in Clients : \E line : ReadLine(c, line)
    BY <1>3, Zenon DEF Operator
  <2> QED
    BY <2>1, <2>2, <2>3, <2>4, Zenon
<1>4. ASSUME NEW c \in Clients, Child(c) \/ Parent(c) PROVE Requested(d)' /\ Unserved(d)'
  <2>1. /\ cpc' = cpc /\ server' = server
        /\ \A e \in Clients \ {c} : child'[e] = child[e] /\ up'[e] = up[e]
        /\ child'[c] = "none" => child[c] = "none" /\ up' = up
        /\ child'[c] = "command" => child[c] \in Asked /\ up' = up
    <3>1. CASE Parent(c)
      BY <1>0, <3>1 DEF Parent, Fork, ParentCloses, clientVars, childVars
    <3>2. CASE RecvCommand(c) \/ RecvConfirm(c)
      BY <1>0, <3>2 DEF RecvCommand, RecvConfirm, clientVars, serverVars
    <3>3. CASE Receive(c) \/ Send(c)
      BY <1>0, <3>3 DEF Receive, Stores, Send, clientVars, serverVars
    <3>4. CASE Accept(c) \/ Reject(c) \/ OpenFails(c)
      BY <1>0, <3>4 DEF Accept, Reject, OpenFails, Answer, clientVars, serverVars
    <3>5. CASE \/ ReadEnd(c) \/ RecvNothing(c) \/ ReceiveEnd(c)
               \/ OpenToSend(c) \/ SendDies(c) \/ SendEnd(c)
      BY <1>0, <3>5 DEF ReadEnd, RecvNothing, ReceiveEnd, OpenToSend, SendDies, SendEnd, Goes,
                        clientVars, serverVars
    <3> QED
      BY <1>4, <3>1, <3>2, <3>3, <3>4, <3>5 DEF Child
  <2> QED
    BY <1>1, <2>1 DEF Requested, Unserved
<1>5. ASSUME NEW c \in Clients, Client(c) \/ User(c) PROVE Requested(d)' /\ Unserved(d)'
  <2>1. CASE ClientRequest(c)
    <3>1. /\ cpc[c] = "connected" /\ up[c] = <<>> /\ child' = child /\ server' = server
          /\ \A e \in Clients \ {c} : cpc'[e] = cpc[e] /\ up'[e] = up[e]
          /\ SendUp(c, Command)
      BY <1>0, <2>1 DEF ClientRequest, SendUp, childVars, serverVars, Inv, TalkInv, Talk, Before
    <3>2. child[c] \in Asked => up'[c] = <<Command>>
      BY <3>1, SentUp DEF Closed, ChildOver, UpItems, Inv
    <3>3. cpc[c] # "start"
      BY <3>1
    <3> QED
      BY <1>1, <3>1, <3>2, <3>3 DEF Requested, Unserved
  <2>2. CASE ClientConnect(c)
    BY <1>0, <1>1, <2>2 DEF ClientConnect, ClientGoes, childVars, serverVars, Requested, Unserved
  <2>3. CASE ~ClientRequest(c) /\ ~ClientConnect(c)
    <3>1. /\ child' = child /\ server' = server
          /\ \A e \in Clients \ {c} : cpc'[e] = cpc[e] /\ up'[e] = up[e]
          /\ cpc[c] # "start"
          /\ cpc'[c] # "waiting" \/ (cpc[c] = "waiting" /\ up' = up)
      <4>1. CASE ClientAgrees(c) \/ ClientCancels(c) \/ ClientSend(c)
        BY <1>0, <4>1 DEF ClientAgrees, ClientCancels, ClientSend, SendUp, childVars, serverVars
      <4>2. CASE ClientAnswered(c) \/ ClientReceive(c)
        BY <1>0, <4>2 DEF ClientAnswered, ClientReceive, childVars, serverVars
      <4>3. CASE \/ ClientNotAnswered(c) \/ ClientSendDies(c) \/ ClientSendEnd(c)
                 \/ ClientReceiveEnd(c) \/ ClientKilled(c) \/ ClientRequestDies(c)
        BY <1>0, <4>3 DEF ClientNotAnswered, ClientSendDies, ClientSendEnd, ClientReceiveEnd,
                          ClientKilled, ClientRequestDies, ClientGoes, childVars, serverVars
      <4> QED
        BY <1>5, <2>3, <4>1, <4>2, <4>3 DEF Client, User
    <3> QED
      BY <1>1, <3>1 DEF Requested, Unserved
  <2> QED
    BY <2>1, <2>2, <2>3
<1> QED
  BY <1>2, <1>3, <1>4, <1>5 DEF Next

\* and the parent accepts again only after it has closed what it had accepted.
LEMMA NextHeld ==
  ASSUME WaitInv, [Next]_vars, NEW d \in Clients
  PROVE  Held(d)'
<1> USE DEF Held
<1>1. \A c \in Clients : Held(c)
  BY DEF WaitInv
<1>2. CASE UNCHANGED serverVars
  BY <1>1, <1>2 DEF serverVars
<1>3. ASSUME NEW c \in Clients, Parent(c) PROVE Held(d)'
  BY <1>1, <1>3, NobodyAssumption DEF Parent, Fork, ParentCloses
<1>4. CASE OperatorStops
  BY <1>4 DEF OperatorStops
<1>5. ASSUME NEW c \in Clients, Child(c) PROVE UNCHANGED serverVars
  BY <1>5 DEF Child, RecvCommand, ReadEnd, Accept, Reject, RecvConfirm, RecvNothing, Receive, Stores,
              ReceiveEnd, OpenToSend, OpenFails, Send, SendDies, SendEnd, Goes, Answer
<1>6. ASSUME NEW c \in Clients, Client(c) \/ User(c) PROVE UNCHANGED serverVars
  BY <1>6 DEF Client, ClientRequest, ClientRequestDies, ClientAnswered, ClientNotAnswered, ClientSend,
              ClientSendDies, ClientSendEnd, ClientReceive, ClientReceiveEnd, User, ClientConnect,
              ClientAgrees, ClientCancels, ClientKilled, ClientGoes
<1>7. Operator /\ ~OperatorStops => UNCHANGED serverVars
  BY DEF Operator, OperatorEnds, ReadLine, Goes
<1> QED
  BY <1>2, <1>3, <1>4, <1>5, <1>6, <1>7 DEF Next, vars

\* Where both sides are in a recv(), something is on its way to one of them.
LEMMA OneHasToRead ==
  ASSUME Inv, WaitInv, NEW c \in Clients, ClientWaits(c)
  PROVE  ~ChildWaits(c)
<1> USE DEF Inv, TalkInv, Talk, ClientWaits
<1>1. child[c] = "command" => up[c] # <<>>
  BY SMTT(30) DEF WaitInv, Requested, Before, Asked
<1>2. child[c] = "confirm" => up[c] # <<>>
  <2>1. child[c] = "confirm" => cpc[c] = "download"
    <3>1. child[c] = "confirm" /\ cpc[c] = "waiting" => down[c] = <<Ok>>
      BY DEF Pending
    <3> QED
      BY <3>1
  <2>2. ASSUME child[c] = "confirm", Len(up[c]) = sent[c] + 1 PROVE up[c] # <<>>
    BY <2>2 DEF TypeOK
  <2> QED
    BY <2>1, <2>2 DEF Pending
<1>3. child[c] # "receive"
  <2>1. child[c] = "receive" => request[c].cmd = "SEND" /\ c \in agreed
    BY DEF Upload, Consent, Uploading
  <2>2. request[c].cmd = "SEND" => cpc[c] = "waiting"
    BY DEF ClientSide
  <2> QED
    BY <2>1, <2>2 DEF ClientSide
<1> QED
  BY <1>1, <1>2, <1>3 DEF ChildWaits

\* A child and its client never wait for each other, no client waits for a server that
\* was stopped, and none whose child is over but while the parent has still to close
\* its copy of the descriptor, whoever refuses, cancels, or is killed at what moment.
THEOREM TheyNeverBothWait == Spec => []NeverBothWait
<1>1. Init => WaitInv
  BY DEF Init, WaitInv, Requested, Unserved, Held
<1>2. Inv /\ WaitInv /\ [Next]_vars => WaitInv'
  BY NextWaitInv, NextHeld DEF WaitInv
<1>3. Inv /\ WaitInv => NeverBothWait
  <2> SUFFICES ASSUME Inv, WaitInv, NEW c \in Clients, ClientWaits(c)
               PROVE  /\ ~ChildWaits(c)
                      /\ child[c] = "none" => server
                      /\ ChildOver(c) => parent = c
    BY DEF NeverBothWait
  <2>1. cpc[c] # "start"
    BY DEF ClientWaits
  <2>2. ChildOver(c) => c \in held
    BY DEF ClientWaits, Closed
  <2> QED
    BY <2>1, <2>2, OneHasToRead DEF WaitInv, Unserved, Held
<1> QED
  BY InvHolds, <1>1, <1>2, <1>3, PTL DEF Spec
=============================================================================
