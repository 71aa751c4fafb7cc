------------------------- MODULE EchoServersProofs --------------------------
(***************************************************************************)
(* What EchoServers guarantees for any number of clients, processes, ports *)
(* and units: what a client gets back, what the servers count, and what it *)
(* takes to end them.                                                      *)
(***************************************************************************)
EXTENDS EchoServers, TcpNetProofs, FiniteSetTheorems

\* The clients that are served, and the children there are of them.
Served == {c \in Clients : Serving(c)}
Children == Served \union zombies

\* The killed clients that are not served any more: those that cost the pool a process
\* are among them.
Lost == {c \in Killed : pc[c] = "done"}

\* Who waits to be accepted has connected, waits once and is served by nobody.
QueuedUnserved ==
    /\ \A k \in 1 .. Len(backlog) : pc[backlog[k]] = "none" /\ peer[backlog[k]] # "absent"
    /\ \A k, l \in 1 .. Len(backlog) : k # l => backlog[k] # backlog[l]

AbsentUnserved == \A c \in Clients : peer[c] = "absent" => pc[c] = "none"

QueueInv == QueuedUnserved /\ AbsentUnserved

\* Each design uses its own part of the main loop.
MainParts ==
    /\ main = "reap" => design = "multiprocess"
    /\ main = "scan" => design = "multiplexing"

\* Every child was counted, and a zombie's client is done with.
ChildInv ==
    /\ IF design = "multiprocess" THEN childProcCount = Cardinality(Children)
       ELSE childProcCount = 0 /\ zombies = {}
    /\ design = "multiprocess" /\ main = "accept" => old \cap zombies = {}
    /\ \A c \in zombies \union old : pc[c] = "done"

\* Where processes serve in turn there are no more than were made, and the pool
\* has lost no more than it lost clients.
Processes == IF design = "constrained" THEN ForkLimit ELSE 1
ProcessInv ==
    /\ free \in Nat
    /\ IF design \in Sequential THEN free + Cardinality(Served) <= Processes ELSE free = 1
    /\ design = "constrained" => free + Cardinality(Served \union Lost) >= ForkLimit

\* How far client c and its handler are goes with the state of the connection.
Stream(c) ==
    /\ written[c] \in {0, length[c]}
    /\ seen[c] <= Len(relayed[c])
    /\ pc[c] = "send" <=> buffer[c] # <<>>
    /\ outcome[c] = "none" <=> peer[c] \in {"absent", "here"}
    /\ outcome[c] = "failed" => peer[c] = "gone"
    /\ pc[c] = "done" => peer[c] = "gone"
    /\ outcome[c] = "echoed" => peer[c] \in {"closed", "gone"} /\ Len(relayed[c]) = written[c]
    /\ peer[c] \in {"reset", "broken"} => outcome[c] = "killed"

\* What c is sent, in its handler and on its way is its own text from the beginning.
Text(c, n) == [k \in 1 .. n |-> <<c, k>>]
Faithful(c) ==
    outcome[c] \in {"none", "echoed"} =>
      relayed[c] \o buffer[c] \o up[c] = Text(c, written[c])

StreamInv == \A c \in Clients : Stream(c) /\ Faithful(c)

Inv ==
    /\ TypeOK
    /\ QueueInv
    /\ MainParts
    /\ ChildInv
    /\ ProcessInv
    /\ StreamInv
    /\ DeathHasCause

-----------------------------------------------------------------------------
(* Sets of clients *)

\* Every set of clients is finite, and no larger than Clients.
LEMMA ClientSets ==
  ASSUME NEW S \in SUBSET Clients
  PROVE  IsFiniteSet(S) /\ Cardinality(S) \in Nat /\ Cardinality(S) <= Cardinality(Clients)
BY ClientsAssumption, FS_Subset, FS_CardinalityType

\* A smaller set has no more elements.
LEMMA SmallerSet ==
  ASSUME NEW T \in SUBSET Clients, NEW S \in SUBSET T
  PROVE  Cardinality(S) <= Cardinality(T)
BY ClientSets, FS_Subset

\* A client that joins a set is one more, and one that leaves it one less.
LEMMA OneMore ==
  ASSUME NEW S \in SUBSET Clients, NEW c \in Clients, c \notin S
  PROVE  Cardinality(S \union {c}) = Cardinality(S) + 1
BY ClientSets, FS_AddElement

\* A client that leaves a set is one less.
LEMMA OneLess ==
  ASSUME NEW S \in SUBSET Clients, NEW c \in S
  PROVE  Cardinality(S \ {c}) = Cardinality(S) - 1
BY ClientSets, FS_RemoveElement

-----------------------------------------------------------------------------
(* Streams *)

\* What is cut in two and put behind r follows r whole.
LEMMA Regrouped ==
  ASSUME NEW r \in Seq(Units), NEW s \in Seq(Units), NEW t \in Seq(Units)
  PROVE  r \o s \o t = r \o <<>> \o (s \o t)
<1>1. r \o s \o t = r \o (s \o t)
  BY ConcatAssociative
<1>2. r \o <<>> = r
  BY ConcatEmptySeq
<1> QED
  BY <1>1, <1>2

\* What was received from what was on its way is in the buffer instead.
LEMMA MovedToBuffer ==
  ASSUME NEW R \in Seq(Units), NEW U \in Seq(Units), NEW n \in 1 .. Len(U)
  PROVE  /\ SubSeq(U, 1, n) \in Seq(Units) /\ SubSeq(U, 1, n) # <<>>
         /\ SubSeq(U, n + 1, Len(U)) \in Seq(Units)
         /\ R \o SubSeq(U, 1, n) \o SubSeq(U, n + 1, Len(U)) = R \o <<>> \o U
<1>1. /\ SubSeq(U, 1, n) \in Seq(Units) /\ Len(SubSeq(U, 1, n)) = n
      /\ SubSeq(U, n + 1, Len(U)) \in Seq(Units)
  OBVIOUS
<1>2. SubSeq(U, 1, n) \o SubSeq(U, n + 1, Len(U)) = U
  <2>1. SubSeq(U, 1, n) \o SubSeq(U, n + 1, Len(U)) = SubSeq(U, 1, Len(U))
    BY 1 \in 1 .. Len(U) + 1, Len(U) \in n .. Len(U), ConcatAdjacentSubSeq
  <2> QED
    BY <2>1, SubSeqFull
<1>3. R \o SubSeq(U, 1, n) \o SubSeq(U, n + 1, Len(U)) =
        R \o <<>> \o (SubSeq(U, 1, n) \o SubSeq(U, n + 1, Len(U)))
  BY <1>1, Regrouped
<1>4. R \o SubSeq(U, 1, n) \o SubSeq(U, n + 1, Len(U)) = R \o <<>> \o U
  BY <1>2, <1>3
<1>5. SubSeq(U, 1, n) # <<>>
  BY <1>1
<1> QED
  BY <1>1, <1>4, <1>5, Zenon

\* What is sent from the buffer is what the client is sent.
LEMMA MovedToClient ==
  ASSUME NEW R \in Seq(Units), NEW B \in Seq(Units), NEW U \in Seq(Units)
  PROVE  R \o B \in Seq(Units) /\ (R \o B) \o <<>> \o U = R \o B \o U
BY ConcatEmptySeq, ConcatProperties

\* The three parts of a text are no longer than the text.
LEMMA PartsOfText ==
  ASSUME NEW R \in Seq(Units), NEW B \in Seq(Units), NEW U \in Seq(Units),
         NEW c \in Clients, NEW n \in 0 .. MaxUnits, R \o B \o U = Text(c, n)
  PROVE  Len(R) + Len(B) + Len(U) = n
<1>1. Len(R \o B \o U) = Len(R) + Len(B) + Len(U)
  BY ConcatProperties
<1>2. Len(Text(c, n)) = n
  BY BoundsAssumption DEF Text
<1> QED
  BY <1>1, <1>2

\* A word is a sequence of its client's units.
LEMMA TextIsUnits ==
  ASSUME NEW c \in Clients, NEW n \in 0 .. MaxUnits PROVE Text(c, n) \in Seq(Units)
BY BoundsAssumption DEF Text, Units

-----------------------------------------------------------------------------
(* The queue *)

\* Somebody who waits is accepted: it was served by nobody, and waits no more.
Accepted(c) ==
    /\ \E k \in 1 .. Len(backlog) : backlog[k] = c /\ backlog' = RemoveAt(backlog, k)
    /\ server = "running"
    /\ pc' = [pc EXCEPT ![c] = "recv"]
    /\ UNCHANGED <<peer, written, up, relayed, seen, buffer, server, clientVars>>

\* Who is accepted was served by nobody, and the others keep waiting, each once.
LEMMA AcceptedQueue ==
  ASSUME TypeOK, QueueInv, NEW c \in Clients, Accepted(c)
  PROVE  QueueInv' /\ pc[c] = "none" /\ peer[c] # "absent" /\ backlog' \in Seq(Clients)
<1>1. backlog \in Seq(Clients)
  BY DEF TypeOK, NetTypeOK
<1>2. PICK k \in 1 .. Len(backlog) : backlog[k] = c /\ backlog' = RemoveAt(backlog, k)
  BY DEF Accepted
<1>3. /\ backlog' \in Seq(Clients)
      /\ Len(backlog') = Len(backlog) - 1
      /\ \A j \in 1 .. Len(backlog) - 1 :
           backlog'[j] = IF j < k THEN backlog[j] ELSE backlog[j + 1]
  BY <1>1, <1>2, SequenceWithout
<1>4. pc[c] = "none" /\ peer[c] # "absent"
  BY <1>2 DEF QueueInv, QueuedUnserved
<1> DEFINE At(j) == IF j < k THEN j ELSE j + 1
<1>5. \A j \in 1 .. Len(backlog') :
        At(j) \in 1 .. Len(backlog) /\ At(j) # k /\ backlog'[j] = backlog[At(j)]
  BY <1>1, <1>3
<1>6. \A i, j \in 1 .. Len(backlog') : i # j => At(i) # At(j)
  BY <1>1, <1>3
<1>7. \A i \in 1 .. Len(backlog) : i # k => backlog[i] \in Clients \ {c}
  BY <1>1, <1>2 DEF QueueInv, QueuedUnserved
<1> HIDE DEF At
<1>8. ASSUME NEW j \in 1 .. Len(backlog')
      PROVE  pc'[backlog'[j]] = "none" /\ peer'[backlog'[j]] # "absent"
  <2>1. backlog'[j] \in Clients \ {c}
    BY <1>5, <1>7
  <2>2. pc[backlog'[j]] = "none" /\ peer[backlog'[j]] # "absent"
    BY <1>5 DEF QueueInv, QueuedUnserved
  <2> QED
    BY <2>1, <2>2 DEF Accepted, TypeOK
<1>9. ASSUME NEW i \in 1 .. Len(backlog'), NEW j \in 1 .. Len(backlog'), i # j
      PROVE  backlog'[i] # backlog'[j]
  <2>1. At(i) \in 1 .. Len(backlog) /\ At(j) \in 1 .. Len(backlog) /\ At(i) # At(j)
    BY <1>5, <1>6, <1>9
  <2>2. backlog[At(i)] # backlog[At(j)]
    BY <2>1 DEF QueueInv, QueuedUnserved
  <2> QED
    BY <1>5, <2>2
<1>10. AbsentUnserved'
  BY <1>4 DEF Accepted, QueueInv, AbsentUnserved, TypeOK
<1> QED
  BY <1>3, <1>4, <1>8, <1>9, <1>10 DEF QueueInv, QueuedUnserved

-----------------------------------------------------------------------------
(* Groups of steps *)

\* Steps of the main loops that accept nobody.
Turn ==
    \/ PoolEnds
    \/ ThreadAcceptDies
    \/ ReapDone
    \/ Select
    \/ ScanDone
    \/ KeyPressed
    \/ \E c \in Clients : Reap(c)

\* Steps that accept c.
Accepts(c) == SequentialAccept(c) \/ ThreadAccept(c) \/ ForkAccept(c) \/ ScanAccept(c)

\* Steps with which the handling of c goes on, or ends.
Works(c) == Receive(c) \/ Echo(c)
Finishes(c) == Close(c) \/ Dies(c)

\* Steps of a client process.
Process(c) == Client(c) \/ ClientConnect(c) \/ ClientKilled(c)

\* Every step is one of these.
LEMMA StepsGrouped ==
  ASSUME Next
  PROVE  Turn \/ \E c \in Clients : Accepts(c) \/ Works(c) \/ Finishes(c) \/ Process(c)
BY DEF Next, Main, Handler, Turn, Accepts, Works, Finishes, Process

\* A turn of a main loop changes nothing of the connections.
LEMMA TurnFrame ==
  ASSUME Turn PROVE UNCHANGED <<netVars, pc, buffer, free, clientVars>>
BY DEF Turn, PoolEnds, ThreadAcceptDies, Ends, ReapDone, Select, ScanDone, ScanEnds, KeyPressed,
       Reap, Waits

\* Whatever the design, accepting is taking somebody from the queue.
LEMMA AcceptsIsAccepted ==
  ASSUME TypeOK, NEW c \in Clients, Accepts(c)
  PROVE  Accepted(c) /\ fd' \in [Clients -> Fds \union {0}]
<1>1. CASE ThreadAccept(c)
  <2>1. NetAccept(c) /\ backlog \in Seq(Clients)
    BY <1>1 DEF ThreadAccept, TypeOK, NetTypeOK
  <2>2. backlog # <<>> /\ c = backlog[1] /\ backlog' = Tail(backlog)
    BY <2>1 DEF NetAccept
  <2>3. Tail(backlog) = SubSeq(backlog, 2, Len(backlog)) /\ 1 \in 1 .. Len(backlog)
    BY <2>1, <2>2, TailIsSubSeq
  <2>4. SubSeq(backlog, 1, 0) = <<>> /\ SubSeq(backlog, 2, Len(backlog)) \in Seq(Clients)
    BY <2>1, <2>2
  <2>5. <<>> \o SubSeq(backlog, 2, Len(backlog)) = SubSeq(backlog, 2, Len(backlog))
    BY <2>4, ConcatEmptySeq
  <2>6. backlog' = RemoveAt(backlog, 1)
    BY <2>2, <2>3, <2>4, <2>5 DEF RemoveAt
  <2>7. NetTypeOK(Units)
    BY DEF TypeOK
  <2>8. fd' \in [Clients -> Fds \union {0}]
    BY <2>1, <2>7, AcceptGivesFreeFd
  <2>9. \E k \in 1 .. Len(backlog) : backlog[k] = c /\ backlog' = RemoveAt(backlog, k)
    BY <2>2, <2>3, <2>6
  <2> QED
    BY <1>1, <2>8, <2>9 DEF ThreadAccept, Accepted
<1>2. CASE ~ThreadAccept(c)
  <2>1. TakesFirst(c)
    BY <1>2 DEF Accepts, SequentialAccept, ForkAccept, Forks, ScanAccept, ScanTakes
  <2> QED
    BY <2>1 DEF TakesFirst, Accepted, TypeOK, NetTypeOK
<1> QED
  BY <1>1, <1>2

\* Who has ended with an outcome keeps it.
LEMMA KilledStay ==
  ASSUME Inv, Next PROVE Killed \subseteq Killed'
<1>1. CASE Turn
  BY <1>1, TurnFrame DEF clientVars, Killed
<1>2. ASSUME NEW c \in Clients, Accepts(c) PROVE Killed \subseteq Killed'
  BY <1>2, AcceptsIsAccepted DEF Accepted, clientVars, Killed, Inv
<1>3. ASSUME NEW c \in Clients, Works(c) \/ Finishes(c) PROVE Killed \subseteq Killed'
  BY <1>3 DEF Works, Receive, Echo, Finishes, Close, Dies, Over, clientVars, Killed
<1>4. ASSUME NEW c \in Clients, Process(c) PROVE Killed \subseteq Killed'
  BY <1>4 DEF Process, Client, ClientSend, ClientReceive, ClientCloses, ClientFails,
     ClientConnect,
              ClientKilled, clientVars, Killed, Inv, TypeOK
<1> QED
  BY <1>1, <1>2, <1>3, <1>4, StepsGrouped

-----------------------------------------------------------------------------
(* The queue, step by step *)

\* Every step keeps the queue in agreement with who is served.
LEMMA NextQueue ==
  ASSUME Inv, Next PROVE QueueInv'
<1> USE DEF QueueInv, QueuedUnserved, AbsentUnserved
<1>0. /\ TypeOK /\ QueueInv /\ backlog \in Seq(Clients)
      /\ \A k \in 1 .. Len(backlog) : backlog[k] \in Clients
  BY DEF Inv, TypeOK, NetTypeOK
<1>1. CASE Turn
  BY <1>0, <1>1, TurnFrame DEF netVars
<1>2. ASSUME NEW c \in Clients, Accepts(c) PROVE QueueInv'
  BY <1>0, <1>2, AcceptsIsAccepted, AcceptedQueue
<1>3. ASSUME NEW c \in Clients, Works(c) \/ Finishes(c) PROVE QueueInv'
  <2>1. backlog' = backlog /\ pc[c] # "none"
    BY <1>3 DEF Works, Receive, Echo, Finishes, Close, EndOfStream, Dies, Fails, Over
  <2>2. \A d \in Clients \ {c} : pc'[d] = pc[d] /\ peer'[d] = peer[d]
    BY <1>0, <1>3 DEF Works, Receive, Echo, NetSend, Finishes, Close, Dies, Over, NetClose,
       TypeOK, NetTypeOK
  <2>3. peer[c] # "absent" /\ peer'[c] # "absent"
    BY <1>0, <1>3, <2>1 DEF Works, Receive, Echo, NetSend, Finishes, Close, Dies, Over,
       NetClose, TypeOK, NetTypeOK
  <2>4. \A k \in 1 .. Len(backlog) : backlog[k] \in Clients \ {c}
    BY <1>0, <2>1
  <2> QED
    BY <1>0, <2>1, <2>2, <2>3, <2>4
<1>4. ASSUME NEW c \in Clients, Process(c) PROVE QueueInv'
  <2>1. pc' = pc
    BY <1>4 DEF Process, Client, ClientSend, ClientReceive, ClientCloses, ClientFails,
       ClientConnect,
                ClientKilled, serverVars
  <2>2. CASE ClientConnect(c)
    <3>1. /\ peer[c] = "absent" /\ peer' = [peer EXCEPT ![c] = "here"]
          /\ backlog' = Append(backlog, c)
      BY <2>2 DEF ClientConnect, NetConnect
    <3>2. /\ Len(backlog') = Len(backlog) + 1 /\ backlog'[Len(backlog) + 1] = c
          /\ \A k \in 1 .. Len(backlog) : backlog'[k] = backlog[k]
      BY <1>0, <3>1
    <3>3. \A k \in 1 .. Len(backlog) : backlog[k] # c
      BY <1>0, <3>1
    <3>4. \A d \in Clients : peer'[d] = IF d = c THEN "here" ELSE peer[d]
      BY <1>0, <3>1 DEF TypeOK, NetTypeOK
    <3>5. \A k \in 1 .. Len(backlog') : k \in 1 .. Len(backlog) \/ k = Len(backlog) + 1
      BY <1>0, <3>2
    <3> QED
      BY <1>0, <2>1, <3>1, <3>2, <3>3, <3>4, <3>5
  <2>3. CASE ~ClientConnect(c)
    <3>1. backlog' = backlog
      BY <1>4, <2>3 DEF Process, Client, ClientSend, ClientReceive, NetClientRecv, ClientCloses,
         ClientFails,
                 ClientKilled, NetClientClose
    <3>2. \A d \in Clients : peer'[d] = "absent" <=> peer[d] = "absent"
      BY <1>0, <1>4, <2>3 DEF Process, Client, ClientSend, ClientReceive, NetClientRecv,
         ClientCloses, ClientFails,
                 ClientKilled, NetClientClose, TypeOK, NetTypeOK
    <3> QED
      BY <1>0, <2>1, <3>1, <3>2
  <2> QED
    BY <2>2, <2>3
<1> QED
  BY <1>1, <1>2, <1>3, <1>4, StepsGrouped

-----------------------------------------------------------------------------
(* Who is served *)

\* Who is served depends on where the handlers are alone.
LEMMA ServedSame ==
  ASSUME pc' = pc PROVE Served' = Served
BY DEF Served, Serving

\* Who is accepted is served, and nobody else is new.
LEMMA ServedMore ==
  ASSUME TypeOK, NEW c \in Clients, pc[c] = "none", pc' = [pc EXCEPT ![c] = "recv"]
  PROVE  Served' = Served \union {c} /\ c \notin Served
BY DEF Served, Serving, TypeOK

\* While the handling goes on nobody else is served.
LEMMA ServedWorks ==
  ASSUME TypeOK, NEW c \in Clients, Works(c)
  PROVE  Served' = Served /\ \A d \in Clients : pc'[d] = "done" <=> pc[d] = "done"
BY DEF Served, Serving, TypeOK, Works, Receive, Echo

\* Who is done with is served no more.
LEMMA ServedLess ==
  ASSUME TypeOK, NEW c \in Clients, Finishes(c)
  PROVE  /\ c \in Served /\ Served' = Served \ {c} /\ pc[c] # "done"
         /\ \A d \in Clients : pc'[d] = "done" <=> pc[d] = "done" \/ d = c
BY DEF Served, Serving, TypeOK, Finishes, Close, EndOfStream, Dies, Fails, Over

-----------------------------------------------------------------------------
(* Children *)

\* Every step of the main loop and of the children keeps the count right.
LEMMA NextChild ==
  ASSUME Inv, Next PROVE ChildInv' /\ MainParts'
<1>0. TypeOK /\ QueueInv /\ ChildInv /\ MainParts
  BY DEF Inv
<1>a. Served \subseteq Clients /\ zombies \subseteq Clients /\ Children \subseteq Clients
  BY <1>0 DEF Served, Children, TypeOK
<1> DEFINE Goal == ChildInv' /\ MainParts'
<1>1. CASE Turn
  <2>1. pc' = pc /\ design' = design
    BY <1>1, TurnFrame DEF clientVars
  <2>2. Served' = Served
    BY <2>1, ServedSame
  <2>3. CASE PoolEnds \/ ThreadAcceptDies \/ KeyPressed
    <3>1. UNCHANGED <<main, childProcCount, zombies, old>>
      BY <2>3 DEF PoolEnds, ThreadAcceptDies, Ends, KeyPressed, mainVars, childVars
    <3> QED
      BY <1>0, <2>1, <2>2, <3>1 DEF ChildInv, MainParts, Children
  <2>4. CASE ReapDone
    <3>1. /\ main = "reap" /\ main' = "accept" /\ (childProcCount = 0 \/ zombies = {})
          /\ UNCHANGED <<childProcCount, zombies, old>>
      BY <2>4 DEF ReapDone, childVars
    <3>2. design = "multiprocess" /\ childProcCount = Cardinality(Children)
      BY <1>0, <3>1 DEF ChildInv, MainParts
    <3>3. IsFiniteSet(Children)
      BY <1>a, ClientSets
    <3>4. zombies = {}
      BY <3>1, <3>2, <3>3, FS_EmptySet DEF Children
    <3> QED
      BY <1>0, <2>1, <2>2, <3>1, <3>2, <3>4 DEF ChildInv, MainParts, Children
  <2>5. CASE Select \/ ScanDone
    <3>1. /\ design = "multiplexing" /\ main' \in {"scan", "accept"}
          /\ UNCHANGED <<childProcCount, zombies, old>>
      BY <1>0, <2>5 DEF Select, ScanDone, ScanEnds, MainParts, childVars
    <3> QED
      BY <1>0, <2>1, <2>2, <3>1 DEF ChildInv, MainParts, Children
  <2>6. ASSUME NEW c \in Clients, Reap(c) PROVE Goal
    <3>1. /\ main = "reap" /\ main' = main /\ c \in zombies
          /\ zombies' = zombies \ {c} /\ childProcCount' = childProcCount - 1 /\ old' = old
      BY <2>6 DEF Reap, Waits
    <3>2. design = "multiprocess" /\ pc[c] = "done"
      BY <1>0, <3>1 DEF ChildInv, MainParts
    <3>3. Children' = Children \ {c} /\ c \in Children
      BY <2>2, <3>1, <3>2 DEF Children, Served, Serving
    <3>4. Cardinality(Children') = Cardinality(Children) - 1
      BY <1>a, <3>3, OneLess
    <3> QED
      BY <1>0, <2>1, <3>1, <3>2, <3>4 DEF ChildInv, MainParts
  <2> QED
    BY <1>1, <2>3, <2>4, <2>5, <2>6 DEF Turn
<1>2. ASSUME NEW c \in Clients, Accepts(c) PROVE Goal
  <2>1. Accepted(c)
    BY <1>0, <1>2, AcceptsIsAccepted
  <2>2. pc[c] = "none" /\ pc' = [pc EXCEPT ![c] = "recv"] /\ design' = design
    BY <1>0, <2>1, AcceptedQueue DEF Accepted, clientVars
  <2>3. Served' = Served \union {c} /\ c \notin Served
    BY <1>0, <2>2, ServedMore
  <2>4. \A d \in Clients : pc[d] = "done" => pc'[d] = "done"
    BY <1>0, <2>2 DEF TypeOK
  <2>5. CASE ForkAccept(c)
    <3>1. /\ design = "multiprocess" /\ main' = "reap" /\ old' = zombies /\ zombies' = zombies
          /\ childProcCount' = childProcCount + 1
      BY <2>5 DEF ForkAccept, Forks
    <3>2. Children' = Children \union {c} /\ c \notin Children
      BY <1>0, <2>2, <2>3, <3>1 DEF Children, ChildInv
    <3>3. Cardinality(Children') = Cardinality(Children) + 1
      BY <1>a, <3>2, OneMore
    <3> QED
      BY <1>0, <1>a, <2>2, <2>4, <3>1, <3>3 DEF ChildInv, MainParts
  <2>6. CASE ~ForkAccept(c)
    <3>1. design # "multiprocess" /\ UNCHANGED <<main, childProcCount, zombies, old>>
      BY <1>0, <1>2, <2>6 DEF Accepts, SequentialAccept, ThreadAccept,
         ScanAccept, ScanTakes, MainParts,
         mainVars, childVars
    <3> QED
      BY <1>0, <1>a, <2>2, <2>4, <3>1 DEF ChildInv, MainParts, TypeOK
  <2> QED
    BY <2>5, <2>6
<1>3. ASSUME NEW c \in Clients, Works(c) PROVE Goal
  <2>1. UNCHANGED <<main, childProcCount, zombies, old, design>>
    BY <1>3 DEF Works, Receive, Echo, mainVars, childVars, clientVars
  <2>2. Served' = Served /\ \A d \in Clients : pc'[d] = "done" <=> pc[d] = "done"
    BY <1>0, <1>3, ServedWorks
  <2> QED
    BY <1>0, <1>a, <2>1, <2>2 DEF ChildInv, MainParts, Children, TypeOK
<1>4. ASSUME NEW c \in Clients, Finishes(c) PROVE Goal
  <2>1. /\ UNCHANGED <<main, childProcCount, old, design>>
        /\ zombies' = IF design = "multiprocess" THEN zombies \union {c} ELSE zombies
    BY <1>4 DEF Finishes, Close, Dies, Over, clientVars
  <2>2. /\ c \in Served /\ Served' = Served \ {c} /\ pc[c] # "done"
        /\ \A d \in Clients : pc'[d] = "done" <=> pc[d] = "done" \/ d = c
    BY <1>0, <1>4, ServedLess
  <2>3. CASE design = "multiprocess"
    <3>1. Children' = Children
      BY <2>1, <2>2, <2>3 DEF Children
    <3>2. c \notin old
      BY <1>0, <2>2 DEF ChildInv
    <3>3. \A d \in zombies' \union old' : pc'[d] = "done"
      BY <1>0, <1>a, <2>1, <2>2 DEF ChildInv, TypeOK
    <3> QED
      BY <1>0, <2>1, <2>3, <3>1, <3>2, <3>3 DEF ChildInv, MainParts
  <2>4. CASE design # "multiprocess"
    BY <1>0, <1>a, <2>1, <2>2, <2>4 DEF ChildInv, MainParts, TypeOK
  <2> QED
    BY <2>3, <2>4
<1>5. ASSUME NEW c \in Clients, Process(c) PROVE Goal
  <2>1. UNCHANGED <<pc, main, childProcCount, zombies, old, design>>
    BY <1>5 DEF Process, Client, ClientSend, ClientReceive, ClientCloses, ClientFails,
       ClientConnect,
                ClientKilled, serverVars, mainVars, childVars, clientVars
  <2> QED
    BY <1>0, <2>1, ServedSame DEF ChildInv, MainParts, Children
<1> QED
  BY <1>1, <1>2, <1>3, <1>4, <1>5, StepsGrouped

-----------------------------------------------------------------------------
(* Processes *)

\* Nothing about processes changes where who is served and who was lost stay, and the
\* lost only become more.
LEMMA ProcessesSame ==
  ASSUME Inv, free' = free, design' = design, Served' = Served, Lost \subseteq Lost'
  PROVE  ProcessInv'
<1>1. Served \union Lost \subseteq (Served \union Lost)' /\ (Served \union Lost)' \subseteq Clients
  BY DEF Served, Lost, Killed
<1>2. Cardinality(Served \union Lost) <= Cardinality((Served \union Lost)')
  BY <1>1, SmallerSet
<1>3. Served \union Lost \subseteq Clients
  BY DEF Served, Lost, Killed
<1>4. Cardinality(Served \union Lost) \in Nat /\ Cardinality((Served \union Lost)') \in Nat
  BY <1>1, <1>3, ClientSets
<1>5. Processes' = Processes
  BY DEF Processes
<1>6. IF design' \in Sequential THEN free' + Cardinality(Served') <= Processes' ELSE free' = 1
  BY <1>5 DEF Inv, ProcessInv
<1>7. design' = "constrained" => free' + Cardinality((Served \union Lost)') >= ForkLimit
  BY <1>2, <1>4, ForkAssumption DEF Inv, ProcessInv
<1> QED
  BY <1>6, <1>7 DEF Inv, ProcessInv

\* A client dies of what it did to the connection only when it was killed.
LEMMA DiesKilled ==
  ASSUME Inv, NEW c \in Clients, Dies(c) PROVE c \in Killed
<1>1. peer[c] \in {"reset", "broken"}
  BY DEF Dies, Fails
<1> QED
  BY <1>1 DEF Inv, StreamInv, Stream, Killed

\* Every step keeps the balance of processes.
LEMMA NextProcess ==
  ASSUME Inv, Next PROVE ProcessInv'
<1>0. TypeOK /\ QueueInv /\ ProcessInv /\ MainParts
  BY DEF Inv
<1>1. Served \in SUBSET Clients /\ Lost \in SUBSET Clients /\ Served \union Lost \in SUBSET Clients
  BY DEF Served, Lost, Killed
<1>2. Cardinality(Served) \in Nat /\ Cardinality(Served \union Lost) \in Nat
  BY <1>1, ClientSets
<1>3. free \in Nat /\ ForkLimit \in Nat /\ Processes \in Nat
  BY <1>0, ForkAssumption DEF ProcessInv, Processes
<1>4. CASE Turn
  <2>1. pc' = pc /\ design' = design /\ outcome' = outcome /\ free' = free
    BY <1>4, TurnFrame DEF clientVars
  <2>2. Lost' = Lost
    BY <2>1 DEF Lost, Killed
  <2> QED
    BY <2>1, <2>2, ServedSame, ProcessesSame
<1>5. ASSUME NEW c \in Clients, Accepts(c) PROVE ProcessInv'
  <2>1. Accepted(c)
    BY <1>0, <1>5, AcceptsIsAccepted
  <2>2. /\ pc[c] = "none" /\ pc' = [pc EXCEPT ![c] = "recv"]
        /\ design' = design /\ outcome' = outcome
    BY <1>0, <2>1, AcceptedQueue DEF Accepted, clientVars
  <2>3. Served' = Served \union {c} /\ c \notin Served
    BY <1>0, <2>2, ServedMore
  <2>4. Lost' = Lost /\ c \notin Lost
    BY <1>0, <2>2 DEF Lost, Killed, TypeOK
  <2>5. (Served \union Lost)' = (Served \union Lost) \union {c} /\ c \notin Served \union Lost
    BY <2>3, <2>4
  <2>6. Cardinality(Served') = Cardinality(Served) + 1
    BY <1>1, <2>3, OneMore
  <2>7. Cardinality((Served \union Lost)') = Cardinality(Served \union Lost) + 1
    BY <1>1, <2>5, OneMore
  <2>8. Processes' = Processes
    BY <2>2 DEF Processes
  <2>9. CASE SequentialAccept(c) \/ ScanAccept(c)
    <3>1. free > 0 /\ free' = free - 1 /\ design \in Sequential
      BY <1>0, <2>9 DEF SequentialAccept, ScanAccept, ScanTakes, MainParts, Sequential
    <3>2. free' \in Nat
      BY <1>3, <3>1
    <3>3. free + Cardinality(Served) <= Processes
      BY <1>0, <3>1 DEF ProcessInv
    <3>4. free' + Cardinality(Served') <= Processes'
      BY <1>2, <1>3, <2>6, <2>8, <3>1, <3>3
    <3>5. design = "constrained" => free' + Cardinality((Served \union Lost)') >= ForkLimit
      <4>1. design = "constrained" => free + Cardinality(Served \union Lost) >= ForkLimit
        BY <1>0 DEF ProcessInv
      <4> QED
        BY <1>2, <1>3, <2>7, <3>1, <4>1
    <3> QED
      BY <2>2, <3>1, <3>2, <3>4, <3>5 DEF ProcessInv
  <2>10. CASE ForkAccept(c) \/ ThreadAccept(c)
    <3>1. design \notin Sequential /\ design # "constrained" /\ free' = free
      BY <2>10 DEF ForkAccept, Forks, ThreadAccept, Sequential
    <3> QED
      BY <1>0, <2>2, <3>1 DEF ProcessInv
  <2> QED
    BY <1>5, <2>9, <2>10 DEF Accepts
<1>6. ASSUME NEW c \in Clients, Works(c) PROVE ProcessInv'
  <2>1. UNCHANGED <<free, design, outcome>>
    BY <1>6 DEF Works, Receive, Echo, clientVars
  <2>2. Served' = Served /\ \A d \in Clients : pc'[d] = "done" <=> pc[d] = "done"
    BY <1>0, <1>6, ServedWorks
  <2>3. Lost' = Lost
    BY <2>1, <2>2 DEF Lost, Killed
  <2> QED
    BY <2>1, <2>2, <2>3, ProcessesSame
<1>7. ASSUME NEW c \in Clients, Finishes(c) PROVE ProcessInv'
  <2>1. design' = design /\ outcome' = outcome
    BY <1>7 DEF Finishes, Close, Dies, Over, clientVars
  <2>2. /\ c \in Served /\ Served' = Served \ {c} /\ pc[c] # "done"
        /\ \A d \in Clients : pc'[d] = "done" <=> pc[d] = "done" \/ d = c
    BY <1>0, <1>7, ServedLess
  <2>3. Lost' = Lost \union ({c} \intersect Killed)
    BY <2>1, <2>2 DEF Lost, Killed
  <2>4. Cardinality(Served') = Cardinality(Served) - 1
    BY <1>1, <2>2, OneLess
  <2>5. Processes' = Processes
    BY <2>1 DEF Processes
  <2>6. (Served \union Lost)' \in SUBSET Clients
    BY <1>1, <2>2, <2>3
  <2>7. Cardinality((Served \union Lost)') \in Nat
    BY <2>6, ClientSets
  <2>8. CASE Close(c)
    <3>1. free' = IF design \in Sequential THEN free + 1 ELSE free
      BY <2>8 DEF Close
    <3>2. (Served \union Lost) \ {c} \subseteq (Served \union Lost)'
      BY <2>2, <2>3
    <3>3. Cardinality((Served \union Lost) \ {c}) = Cardinality(Served \union Lost) - 1
      BY <1>1, <2>2, OneLess
    <3>4. Cardinality(Served \union Lost) - 1 <= Cardinality((Served \union Lost)')
      BY <2>6, <3>2, <3>3, SmallerSet
    <3>5. CASE design \in Sequential
      <4>1. free' = free + 1 /\ free + Cardinality(Served) <= Processes
        BY <1>0, <3>1, <3>5 DEF ProcessInv
      <4>2. free' \in Nat /\ free' + Cardinality(Served') <= Processes'
        BY <1>2, <1>3, <2>4, <2>5, <4>1
      <4>3. design = "constrained" => free + Cardinality(Served \union Lost) >= ForkLimit
        BY <1>0 DEF ProcessInv
      <4>4. design = "constrained" => free' + Cardinality((Served \union Lost)') >= ForkLimit
        BY <1>2, <1>3, <2>7, <3>4, <4>1, <4>3
      <4> QED
        BY <2>1, <3>5, <4>2, <4>4 DEF ProcessInv
    <3>6. CASE design \notin Sequential
      BY <1>0, <2>1, <3>1, <3>6 DEF ProcessInv, Sequential
    <3> QED
      BY <3>5, <3>6
  <2>9. CASE Dies(c)
    <3>1. free' = free
      BY <2>9 DEF Dies
    <3>2. (Served \union Lost)' = Served \union Lost
      BY <2>2, <2>3, <2>9, DiesKilled
    <3>3. design \in Sequential => free' + Cardinality(Served') <= Processes'
      <4>1. design \in Sequential => free + Cardinality(Served) <= Processes
        BY <1>0 DEF ProcessInv
      <4> QED
        BY <1>2, <1>3, <2>4, <2>5, <3>1, <4>1
    <3> QED
      BY <1>0, <2>1, <3>1, <3>2, <3>3 DEF ProcessInv
  <2> QED
    BY <1>7, <2>8, <2>9 DEF Finishes
<1>8. ASSUME NEW c \in Clients, Process(c) PROVE ProcessInv'
  <2>1. UNCHANGED <<free, pc, design>>
    BY <1>8 DEF Process, Client, ClientSend, ClientReceive, ClientCloses, ClientFails,
       ClientConnect,
                ClientKilled, serverVars, clientVars
  <2>2. Lost \subseteq Lost'
    BY <2>1, KilledStay DEF Lost
  <2> QED
    BY <2>1, <2>2, ServedSame, ProcessesSame
<1> QED
  BY <1>4, <1>5, <1>6, <1>7, <1>8, StepsGrouped

-----------------------------------------------------------------------------
(* What it takes to end a server *)

\* A server that is dead keeps the cause of its death.
LEMMA StaysDead ==
  ASSUME Inv, Next, server = "dead"
  PROVE  server' = server /\ fd' = fd /\ (key = "read" => key' = key)
<1> USE DEF Inv
<1>1. CASE Turn
  BY <1>1, TurnFrame DEF Turn, PoolEnds, ThreadAcceptDies, Ends, ReapDone, Select, ScanDone,
     ScanEnds,
     KeyPressed, Reap, Waits, netVars, mainVars, selectVars
<1>2. ASSUME NEW c \in Clients, Accepts(c) \/ Works(c) \/ Finishes(c) PROVE FALSE
  BY <1>2 DEF Accepts, SequentialAccept, ThreadAccept,
     ForkAccept, Forks, ScanAccept, ScanTakes, TakesFirst,
              Works, Receive, Echo, Finishes, Close, Dies, Over
<1>3. ASSUME NEW c \in Clients, Process(c) PROVE server' = server /\ fd' = fd /\ key' = key
  BY <1>3 DEF Process, Client, ClientSend, ClientReceive, NetClientRecv, ClientCloses,
     ClientFails,
              ClientConnect, NetConnect, ClientKilled, NetClientClose, serverVars, mainVars,
              selectVars
<1> QED
  BY <1>1, <1>2, <1>3, StepsGrouped

\* Every step that ends a server has a cause.
LEMMA NextDeath ==
  ASSUME Inv, Next PROVE DeathHasCause'
<1>0. TypeOK /\ DeathHasCause /\ ProcessInv /\ MainParts
  BY DEF Inv
<1>1. Killed \in SUBSET Clients /\ Killed' \in SUBSET Clients /\ Killed \subseteq Killed'
  BY KilledStay DEF Killed
<1>2. Cardinality(Killed) <= Cardinality(Killed')
      /\ Cardinality(Killed) \in Nat /\ Cardinality(Killed') \in Nat
  BY <1>1, SmallerSet, ClientSets
<1>3. design' = design
  BY StepsGrouped, TurnFrame
     DEF clientVars, Accepts, SequentialAccept, ThreadAccept,
        ForkAccept, Forks, ScanAccept, ScanTakes,
         TakesFirst, Works, Receive, Echo, Finishes, Close, Dies, Over, Process, Client,
         ClientSend,
         ClientReceive, ClientCloses, ClientFails, ClientConnect, ClientKilled
<1>4. CASE server = "dead"
  <2>1. server' = server /\ FreeFds' = FreeFds /\ (key = "read" => key' = key)
    BY <1>4, StaysDead DEF FreeFds, OpenFds
  <2>2. Cardinality(Killed) >= ForkLimit => Cardinality(Killed') >= ForkLimit
    BY <1>2, ForkAssumption
  <2>3. Killed # {} => Killed' # {}
    BY <1>1
  <2> QED
    BY <1>0, <1>3, <1>4, <2>1, <2>2, <2>3 DEF DeathHasCause, TypeOK, Designs, Sequential
<1>5. ASSUME server # "dead", server' = "dead" PROVE DeathHasCause'
  <2>1. CASE PoolEnds
    <3>1. design = "constrained" /\ free = 0 /\ Served = {} /\ outcome' = outcome
      BY <2>1 DEF PoolEnds, Ends, Served, clientVars
    <3>2. Cardinality(Lost) >= ForkLimit
      <4>1. Served \union Lost = Lost /\ Lost \in SUBSET Clients
        BY <3>1 DEF Lost, Killed
      <4>2. Cardinality(Lost) \in Nat
        BY <4>1, ClientSets
      <4>3. free + Cardinality(Lost) >= ForkLimit
        BY <1>0, <3>1, <4>1 DEF ProcessInv
      <4> QED
        BY <3>1, <4>2, <4>3
    <3>3. Lost \subseteq Killed /\ Lost \in SUBSET Clients
      BY DEF Lost, Killed
    <3>4. Cardinality(Lost) <= Cardinality(Killed) /\ Cardinality(Lost) \in Nat
      BY <1>1, <3>3, SmallerSet, ClientSets
    <3>5. Cardinality(Killed') >= ForkLimit
      BY <1>2, <3>2, <3>4, ForkAssumption
    <3> QED
      BY <1>3, <3>1, <3>5 DEF DeathHasCause
  <2>2. CASE ThreadAcceptDies
    <3>1. design = "multithread" /\ FreeFds = {} /\ fd' = fd
      BY <2>2 DEF ThreadAcceptDies, Ends, netVars
    <3>2. FreeFds' = {}
      BY <3>1 DEF FreeFds, OpenFds
    <3> QED
      BY <1>3, <3>1, <3>2 DEF DeathHasCause
  <2>3. CASE ScanDone
    <3>1. design = "multiplexing" /\ key = "read" /\ key' = key
      BY <1>0, <1>5, <2>3 DEF ScanDone, ScanEnds, MainParts, selectVars
    <3> QED
      BY <1>3, <3>1 DEF DeathHasCause
  <2>4. ASSUME NEW c \in Clients, Dies(c) PROVE DeathHasCause'
    <3>1. design \in OneProcess /\ Killed' # {}
      BY <1>1, <1>5, <2>4, DiesKilled DEF Dies
    <3> QED
      BY <1>3, <3>1 DEF DeathHasCause, OneProcess
  <2>5. PoolEnds \/ ThreadAcceptDies \/ ScanDone \/ \E c \in Clients : Dies(c)
    <3>1. CASE Turn
      BY <1>5, <3>1 DEF Turn, ReapDone, Select, KeyPressed, Reap, Waits
    <3>2. ASSUME NEW c \in Clients, Accepts(c) \/ Works(c) \/ Finishes(c) \/ Process(c)
          PROVE  Dies(c)
      BY <1>5, <3>2 DEF Accepts, SequentialAccept, ThreadAccept,
         ForkAccept, Forks, ScanAccept, ScanTakes,
           TakesFirst, Works, Receive, Echo, Finishes, Close, Process, Client, ClientSend,
           ClientReceive, ClientCloses, ClientFails, ClientConnect, ClientKilled, serverVars
    <3> QED
      BY <3>1, <3>2, StepsGrouped
  <2> QED
    BY <2>1, <2>2, <2>3, <2>4, <2>5
<1>6. CASE server # "dead" /\ server' # "dead"
  BY <1>6 DEF DeathHasCause
<1> QED
  BY <1>4, <1>5, <1>6

-----------------------------------------------------------------------------
(* Streams, step by step *)

\* A step that leaves alone what is d's leaves its stream alone.
LEMMA StreamSame ==
  ASSUME NEW d \in Clients, Stream(d), Faithful(d),
         written'[d] = written[d], length'[d] = length[d], seen'[d] = seen[d],
         relayed'[d] = relayed[d], pc'[d] = pc[d], buffer'[d] = buffer[d],
         outcome'[d] = outcome[d], peer'[d] = peer[d], up'[d] = up[d]
  PROVE  Stream(d)' /\ Faithful(d)'
BY DEF Stream, Faithful

\* The types of what is client c's.
LEMMA StreamTypes ==
  ASSUME TypeOK, NEW c \in Clients
  PROVE  /\ relayed[c] \in Seq(Units) /\ buffer[c] \in Seq(Units) /\ up[c] \in Seq(Units)
         /\ written[c] \in 0 .. MaxUnits /\ length[c] \in 0 .. MaxUnits
         /\ seen[c] \in Nat
<1>1. length[c] \in 0 .. MaxUnits
  BY LengthsAssumption DEF TypeOK
<1> QED
  BY <1>1 DEF TypeOK, NetTypeOK

\* Of three lengths, with the sum n.
LEMMA Lengths3 ==
  ASSUME NEW r \in Nat, NEW b \in Nat, NEW u \in Nat, NEW n, r + b + u = n
  PROVE  /\ r = n => b = 0
         /\ \A s \in Nat : s = n /\ s <= r => r = n /\ ~(s < r)
OBVIOUS

\* The lengths of what is client c's.
LEMMA StreamLengths ==
  ASSUME TypeOK, NEW c \in Clients
  PROVE  Len(relayed[c]) \in Nat /\ Len(buffer[c]) \in Nat /\ Len(up[c]) \in Nat
BY StreamTypes

\* While its text is faithful a client was sent no more than it wrote, and all of
\* it only if nothing else is left.
LEMMA SentOfWritten ==
  ASSUME TypeOK, NEW c \in Clients, Faithful(c), outcome[c] \in {"none", "echoed"}
  PROVE  Len(relayed[c]) + Len(buffer[c]) + Len(up[c]) = written[c]
BY StreamTypes, PartsOfText DEF Faithful

\* Receiving moves units into the buffer.
LEMMA ReceiveStream ==
  ASSUME Inv, NEW c \in Clients, Receive(c) PROVE Stream(c)' /\ Faithful(c)'
<1>0. TypeOK /\ Stream(c) /\ Faithful(c)
  BY DEF Inv, StreamInv
<1>1. PICK n \in 1 .. RecvMax : NetRecv(c, n) /\ buffer' = Filled(c, SubSeq(up[c], 1, n))
  BY DEF Receive
<1>2. relayed[c] \in Seq(Units) /\ up[c] \in Seq(Units) /\ n \in 1 .. Len(up[c])
  BY <1>0, <1>1, StreamTypes, BoundsAssumption DEF NetRecv
<1>3. /\ buffer'[c] = SubSeq(up[c], 1, n) /\ up'[c] = SubSeq(up[c], n + 1, Len(up[c]))
      /\ pc'[c] = "send" /\ pc[c] = "recv"
  BY <1>0, <1>1 DEF NetRecv, Filled, Receive, TypeOK, NetTypeOK
<1>4. UNCHANGED <<written, length, seen, relayed, outcome, peer>>
  BY DEF Receive, clientVars
<1>5. buffer[c] = <<>>
  BY <1>0, <1>3 DEF Stream
<1>6. buffer'[c] # <<>> /\ relayed[c] \o buffer'[c] \o up'[c] = relayed[c] \o <<>> \o up[c]
  <2> DEFINE B == SubSeq(up[c], 1, n)
             U == SubSeq(up[c], n + 1, Len(up[c]))
  <2>1. B # <<>> /\ relayed[c] \o B \o U = relayed[c] \o <<>> \o up[c]
    BY <1>2, MovedToBuffer
  <2>2. buffer'[c] = B /\ up'[c] = U
    BY <1>3
  <2> HIDE DEF B, U
  <2> QED
    BY <2>1, <2>2
<1> QED
  BY <1>0, <1>3, <1>4, <1>5, <1>6 DEF Stream, Faithful

\* Sending back empties the buffer, and is not done for a client that has it all.
LEMMA EchoStream ==
  ASSUME Inv, NEW c \in Clients, Echo(c) PROVE Stream(c)' /\ Faithful(c)'
<1>0. TypeOK /\ Stream(c) /\ Faithful(c)
  BY DEF Inv, StreamInv
<1>1. /\ pc[c] = "send" /\ pc'[c] = "recv" /\ buffer'[c] = <<>>
      /\ relayed'[c] = relayed[c] \o buffer[c]
      /\ peer[c] \in {"here", "closed"}
      /\ peer'[c] = peer[c] \/ (peer[c] = "closed" /\ peer'[c] = "broken")
  BY <1>0 DEF Echo, NetSend, TypeOK, NetTypeOK
<1>2. UNCHANGED <<written, length, seen, up, outcome>>
  BY DEF Echo, clientVars
<1>3. /\ relayed[c] \in Seq(Units) /\ buffer[c] \in Seq(Units) /\ up[c] \in Seq(Units)
      /\ buffer[c] # <<>>
  BY <1>0, <1>1, StreamTypes DEF Stream
<1>4. Len(relayed[c]) \in Nat /\ Len(buffer[c]) \in Nat /\ Len(up[c]) \in Nat
      /\ Len(buffer[c]) # 0
  BY <1>3
<1>5. outcome[c] # "echoed"
  <2>1. SUFFICES ASSUME outcome[c] = "echoed" PROVE FALSE
    OBVIOUS
  <2>2. Len(relayed[c]) = written[c]
    BY <1>0, <2>1 DEF Stream
  <2>3. Len(relayed[c]) + Len(buffer[c]) + Len(up[c]) = written[c]
    BY <1>0, <2>1, SentOfWritten
  <2>4. Len(buffer[c]) = 0
    BY <1>4, <2>2, <2>3, Lengths3
  <2> QED
    BY <1>4, <2>4
<1>6. Len(relayed'[c]) = Len(relayed[c]) + Len(buffer[c])
  BY <1>1, <1>3, ConcatProperties
<1>7. seen'[c] <= Len(relayed'[c])
  <2>1. seen[c] <= Len(relayed[c]) /\ seen[c] \in Nat
    BY <1>0, StreamTypes DEF Stream
  <2>2. \A s, r, b \in Nat : s <= r => s <= r + b
    OBVIOUS
  <2>3. seen[c] <= Len(relayed[c]) + Len(buffer[c])
    BY <1>4, <2>1, <2>2, Zenon
  <2>4. seen'[c] = seen[c]
    BY <1>2
  <2> QED
    BY <1>6, <2>3, <2>4, Zenon
<1>8. relayed'[c] \o buffer'[c] \o up'[c] = relayed[c] \o buffer[c] \o up[c]
  BY <1>1, <1>2, <1>3, MovedToClient
<1>9. Faithful(c)'
  BY <1>0, <1>2, <1>8 DEF Faithful
<1>10. outcome[c] \in {"none", "echoed", "killed", "failed"}
  BY <1>0 DEF TypeOK
<1> QED
  BY <1>0, <1>1, <1>2, <1>5, <1>7, <1>9, <1>10 DEF Stream

\* The end of the handling leaves what is on its way only to who was killed.
LEMMA FinishStream ==
  ASSUME Inv, NEW c \in Clients, Finishes(c) PROVE Stream(c)' /\ Faithful(c)'
<1>0. TypeOK /\ Stream(c) /\ Faithful(c)
  BY DEF Inv, StreamInv
<1>1. /\ pc'[c] = "done" /\ buffer'[c] = <<>> /\ peer'[c] = "gone"
      /\ UNCHANGED <<written, length, seen, relayed, outcome>>
  BY <1>0 DEF Finishes, Close, Dies, Over, NetClose, clientVars, TypeOK, NetTypeOK
<1>2. peer[c] \in Departed /\ pc[c] \in {"recv", "send"}
  BY DEF Finishes, Close, EndOfStream, Dies, Fails, Departed
<1>3. outcome[c] # "none"
  BY <1>0, <1>2 DEF Stream, Departed
<1>4. CASE Close(c)
  <2>1. pc[c] = "recv" /\ up'[c] = up[c]
    BY <1>4 DEF Close, EndOfStream
  <2>2. buffer[c] = <<>>
    BY <1>0, <2>1 DEF Stream
  <2> QED
    BY <1>0, <1>1, <1>3, <2>1, <2>2 DEF Stream, Faithful
<1>5. CASE Dies(c)
  <2>1. outcome[c] = "killed"
    BY <1>5, DiesKilled DEF Killed
  <2> QED
    BY <1>0, <1>1, <2>1 DEF Stream, Faithful
<1> QED
  BY <1>4, <1>5 DEF Finishes

\* A client sends its word whole, before anything else was on its way.
LEMMA SendStream ==
  ASSUME Inv, NEW c \in Clients, ClientSend(c) PROVE Stream(c)' /\ Faithful(c)'
<1>0. TypeOK /\ Stream(c) /\ Faithful(c)
  BY DEF Inv, StreamInv
<1>1. /\ outcome[c] = "none" /\ written[c] < length[c]
      /\ written'[c] = length[c] /\ up'[c] = Text(c, length[c])
      /\ UNCHANGED <<length, seen, relayed, outcome, peer, pc, buffer>>
  BY <1>0 DEF ClientSend, serverVars, clientVars, Text, TypeOK, NetTypeOK
<1>2. /\ relayed[c] \in Seq(Units) /\ buffer[c] \in Seq(Units) /\ up[c] \in Seq(Units)
      /\ length[c] \in 0 .. MaxUnits
  BY <1>0, StreamTypes
<1>3. written[c] = 0
  BY <1>0, <1>1, <1>2 DEF Stream
<1>4. Len(relayed[c]) + Len(buffer[c]) + Len(up[c]) = written[c]
  BY <1>0, <1>1, SentOfWritten
<1>5. Len(relayed[c]) = 0 /\ Len(buffer[c]) = 0
  <2>1. Len(relayed[c]) \in Nat /\ Len(buffer[c]) \in Nat /\ Len(up[c]) \in Nat
    BY <1>0, StreamLengths
  <2>2. \A x, y, z \in Nat : x + y + z = 0 => x = 0 /\ y = 0
    OBVIOUS
  <2>3. Len(relayed[c]) + Len(buffer[c]) + Len(up[c]) = 0
    BY <1>3, <1>4
  <2> QED
    BY <2>1, <2>2, <2>3, Zenon
<1>6. relayed[c] = <<>> /\ buffer[c] = <<>>
  BY <1>2, <1>5
<1>7. Text(c, length[c]) \in Seq(Units)
  BY <1>2, TextIsUnits
<1>8. <<>> \o <<>> \o Text(c, length[c]) = Text(c, length[c])
  BY <1>7, ConcatEmptySeq
<1>9. Faithful(c)'
  BY <1>1, <1>6, <1>8 DEF Faithful
<1> QED
  BY <1>0, <1>1, <1>9 DEF Stream

\* A client leaves when it has everything back, or with everything lost.
LEMMA ProcessStream ==
  ASSUME Inv, NEW c \in Clients, Process(c) PROVE Stream(c)' /\ Faithful(c)'
<1>0. TypeOK /\ Stream(c) /\ Faithful(c)
  BY DEF Inv, StreamInv
<1>1. CASE ClientSend(c)
  BY <1>1, SendStream
<1>2. CASE ClientConnect(c)
  BY <1>0, <1>2 DEF ClientConnect, NetConnect, serverVars, clientVars, Stream, Faithful, TypeOK,
     NetTypeOK
<1>3. CASE ClientReceive(c)
  <2>1. /\ seen'[c] = seen[c] + 1 /\ seen[c] < Len(relayed[c])
        /\ UNCHANGED <<written, length, relayed, outcome, peer, pc, buffer, up>>
    BY <1>0, <1>3 DEF ClientReceive, NetClientRecv, serverVars, clientVars, TypeOK, NetTypeOK
  <2>2. seen'[c] <= Len(relayed'[c])
    BY <1>0, <2>1, StreamTypes
  <2> QED
    BY <1>0, <2>1, <2>2 DEF Stream, Faithful
<1>4. CASE ClientCloses(c)
  <2>1. /\ outcome[c] = "none" /\ written[c] = length[c] /\ seen[c] = length[c]
        /\ outcome'[c] = "echoed"
        /\ peer'[c] = IF seen[c] < Len(relayed[c]) THEN "reset" ELSE "closed"
        /\ UNCHANGED <<written, length, seen, relayed, pc, buffer, up>>
    BY <1>0, <1>4 DEF ClientCloses, NetClientClose, serverVars, TypeOK, NetTypeOK
  <2>2. Len(relayed[c]) + Len(buffer[c]) + Len(up[c]) = written[c] /\ seen[c] <= Len(relayed[c])
    BY <1>0, <2>1, SentOfWritten DEF Stream
  <2>3. Len(relayed[c]) \in Nat /\ Len(buffer[c]) \in Nat /\ Len(up[c]) \in Nat /\ seen[c] \in Nat
    BY <1>0, StreamTypes, StreamLengths
  <2>4. Len(relayed[c]) = written[c] /\ ~(seen[c] < Len(relayed[c]))
    <3>1. seen[c] = written[c]
      BY <2>1
    <3> QED
      BY <2>2, <2>3, <3>1, Lengths3
  <2>5. pc[c] # "done"
    BY <1>0, <2>1 DEF Stream
  <2> QED
    BY <1>0, <2>1, <2>4, <2>5 DEF Stream, Faithful
<1>5. CASE ClientKilled(c)
  <2>1. /\ peer[c] = "here" /\ outcome'[c] = "killed" /\ peer'[c] \in {"reset", "closed"}
        /\ UNCHANGED <<written, length, seen, relayed, pc, buffer, up>>
    BY <1>0, <1>5 DEF ClientKilled, NetClientClose, serverVars, TypeOK, NetTypeOK
  <2> QED
    BY <1>0, <2>1 DEF Stream, Faithful
<1>6. CASE ClientFails(c)
  <2>1. /\ peer'[c] = "gone" /\ outcome'[c] = "failed"
        /\ UNCHANGED <<written, length, seen, relayed, pc, buffer, up>>
    BY <1>0, <1>6 DEF ClientFails, serverVars, TypeOK, NetTypeOK
  <2> QED
    BY <1>0, <2>1 DEF Stream, Faithful
<1> QED
  BY <1>1, <1>2, <1>3, <1>4, <1>5, <1>6 DEF Process, Client

\* What is done for c leaves the other clients' streams alone.
LEMMA OthersSame ==
  ASSUME TypeOK, NEW c \in Clients, Works(c) \/ Finishes(c) \/ Process(c), NEW d \in Clients \ {c}
  PROVE  /\ written'[d] = written[d] /\ length'[d] = length[d] /\ seen'[d] = seen[d]
         /\ relayed'[d] = relayed[d] /\ pc'[d] = pc[d] /\ buffer'[d] = buffer[d]
         /\ outcome'[d] = outcome[d] /\ peer'[d] = peer[d] /\ up'[d] = up[d]
<1> USE DEF TypeOK, NetTypeOK, serverVars, clientVars
<1>1. CASE Receive(c)
  <2>1. PICK n \in 1 .. RecvMax : NetRecv(c, n) /\ buffer' = Filled(c, SubSeq(up[c], 1, n))
    BY <1>1 DEF Receive
  <2> QED
    BY <1>1, <2>1 DEF Receive, NetRecv, Filled
<1>2. CASE Echo(c)
  BY <1>2 DEF Echo, NetSend
<1>3. CASE Finishes(c)
  BY <1>3 DEF Finishes, Close, Dies, Over, NetClose
<1>4. CASE Process(c)
  <2>1. CASE ClientSend(c) \/ ClientReceive(c)
    BY <2>1 DEF ClientSend, ClientReceive, NetClientRecv
  <2>2. CASE ClientCloses(c) \/ ClientKilled(c)
    BY <2>2 DEF ClientCloses, ClientKilled, NetClientClose
  <2>3. CASE ClientFails(c) \/ ClientConnect(c)
    BY <2>3 DEF ClientFails, ClientConnect, NetConnect
  <2> QED
    BY <1>4, <2>1, <2>2, <2>3 DEF Process, Client
<1> QED
  BY <1>1, <1>2, <1>3, <1>4 DEF Works

\* Every step keeps every client's stream.
LEMMA NextStream ==
  ASSUME Inv, Next PROVE StreamInv'
<1>0. TypeOK /\ QueueInv /\ \A d \in Clients : Stream(d) /\ Faithful(d)
  BY DEF Inv, StreamInv
<1>1. CASE Turn
  BY <1>0, <1>1, TurnFrame, StreamSame DEF StreamInv, netVars, clientVars
<1>2. ASSUME NEW c \in Clients, Accepts(c) PROVE StreamInv'
  <2>1. /\ pc[c] = "none" /\ pc' = [pc EXCEPT ![c] = "recv"]
        /\ UNCHANGED <<peer, written, up, relayed, seen, buffer, length, outcome>>
    BY <1>0, <1>2, AcceptsIsAccepted, AcceptedQueue DEF Accepted, clientVars
  <2>2. ASSUME NEW d \in Clients \ {c} PROVE Stream(d)' /\ Faithful(d)'
    BY <1>0, <2>1, StreamSame DEF TypeOK
  <2>3. Stream(c)' /\ Faithful(c)'
    BY <1>0, <2>1 DEF Stream, Faithful, TypeOK
  <2> QED
    BY <2>2, <2>3 DEF StreamInv
<1>3. ASSUME NEW c \in Clients, Works(c) \/ Finishes(c) \/ Process(c) PROVE StreamInv'
  <2>1. ASSUME NEW d \in Clients \ {c} PROVE Stream(d)' /\ Faithful(d)'
    BY <1>0, <1>3, OthersSame, StreamSame
  <2>2. Stream(c)' /\ Faithful(c)'
    BY <1>3, ReceiveStream, EchoStream, FinishStream, ProcessStream DEF Works
  <2> QED
    BY <2>1, <2>2 DEF StreamInv
<1> QED
  BY <1>1, <1>2, <1>3, StepsGrouped

-----------------------------------------------------------------------------
(* Types and theorems *)

\* Every variable has its type at the start, and nobody is served.
LEMMA InitInv == Init => Inv
<1> SUFFICES ASSUME Init PROVE Inv
  OBVIOUS
<1>1. /\ Served = {} /\ Children = {} /\ Killed = {} /\ Lost = {}
  BY DEF Init, Served, Serving, Children, Killed, Lost
<1>2. Cardinality({}) = 0
  BY FS_EmptySet
<1>3. TypeOK
  <2>1. NetTypeOK(Units)
    BY BoundsAssumption DEF Init, NetInit, NetTypeOK, PeerStates
  <2>2. free \in 0 .. ForkLimit \union {1}
    BY ForkAssumption DEF Init
  <2>3. 0 \in 0 .. Cardinality(Clients)
    BY ClientsAssumption, FS_CardinalityType
  <2> QED
    BY <2>1, <2>2, <2>3 DEF Init, TypeOK
<1>4. QueueInv /\ MainParts
  BY DEF Init, NetInit, QueueInv, QueuedUnserved, AbsentUnserved, MainParts
<1>5. ChildInv
  BY <1>1, <1>2 DEF Init, ChildInv
<1>6. ProcessInv
  BY <1>1, <1>2, ForkAssumption DEF Init, ProcessInv, Processes, Sequential
<1>7. StreamInv
  <2>1. ASSUME NEW c \in Clients PROVE Stream(c)
    BY <2>1 DEF Init, NetInit, Stream
  <2>2. ASSUME NEW c \in Clients PROVE Faithful(c)
    <3>1. <<>> \o <<>> \o <<>> = <<>>
      OBVIOUS
    <3>2. Text(c, 0) = <<>>
      BY DEF Text
    <3> QED
      BY <2>2, <3>1, <3>2 DEF Init, NetInit, Faithful
  <2> QED
    BY <2>1, <2>2 DEF StreamInv
<1>8. DeathHasCause
  BY DEF Init, DeathHasCause
<1> QED
  BY <1>3, <1>4, <1>5, <1>6, <1>7, <1>8 DEF Inv

\* Every step keeps the types, what is counted being counted right.
LEMMA NextTypes ==
  ASSUME Inv, Next PROVE TypeOK'
<1>0. TypeOK
  BY DEF Inv
<1>1. free' \in 0 .. ForkLimit \union {1}
  <2>1. ProcessInv'
    BY NextProcess
  <2>2. Served' \in SUBSET Clients
    BY DEF Served
  <2>3. Cardinality(Served') \in Nat
    BY <2>2, ClientSets
  <2>4. CASE free' = 1
    BY <2>4
  <2>5. CASE free' # 1
    <3>1. free' \in Nat /\ free' + Cardinality(Served') <= Processes'
      BY <2>1, <2>5 DEF ProcessInv
    <3>2. Processes' \in Nat /\ Processes' <= ForkLimit
      BY ForkAssumption DEF Processes
    <3> QED
      BY <2>3, <3>1, <3>2, ForkAssumption
  <2> QED
    BY <2>4, <2>5
<1>2. zombies' \in SUBSET Clients /\ old' \in SUBSET Clients
  <2>1. CASE Turn
    BY <1>0, <2>1 DEF Turn, PoolEnds, ThreadAcceptDies, Ends, ReapDone, Select, ScanDone,
       ScanEnds,
       KeyPressed, Reap, Waits, mainVars, childVars, TypeOK
  <2>2. ASSUME NEW c \in Clients, Accepts(c)
        PROVE  zombies' \subseteq Clients /\ old' \subseteq Clients
    BY <1>0, <2>2 DEF Accepts, SequentialAccept, ThreadAccept,
       ForkAccept, Forks, ScanAccept, ScanTakes,
       mainVars,
       childVars, TypeOK
  <2>3. ASSUME NEW c \in Clients, Works(c) \/ Finishes(c) \/ Process(c)
        PROVE  zombies' \subseteq Clients /\ old' \subseteq Clients
    BY <1>0, <2>3 DEF Works, Receive, Echo, Finishes, Close, Dies, Over, Process, Client,
       ClientSend,
       ClientReceive, ClientCloses, ClientFails, ClientConnect, ClientKilled, serverVars,
       mainVars,
       childVars, TypeOK
  <2> QED
    BY <2>1, <2>2, <2>3, StepsGrouped
<1>3. childProcCount' \in 0 .. Cardinality(Clients)
  <2>1. ChildInv'
    BY NextChild
  <2>2. Children' \in SUBSET Clients
    BY <1>2 DEF Children, Served
  <2>3. Cardinality(Children') \in 0 .. Cardinality(Clients) /\ 0 \in 0 .. Cardinality(Clients)
    BY <2>2, ClientSets, ClientsAssumption, FS_CardinalityType
  <2> QED
    BY <2>1, <2>3 DEF ChildInv
<1>4. /\ NetTypeOK(Units)' /\ buffer' \in [Clients -> Seq(Units)]
      /\ pc' \in [Clients -> {"none", "recv", "send", "done"}]
  <2> USE DEF TypeOK, NetTypeOK
  <2>1. CASE Turn
    BY <1>0, <2>1, TurnFrame DEF netVars
  <2>2. ASSUME NEW c \in Clients, Accepts(c)
        PROVE  NetTypeOK(Units)' /\ buffer' \in [Clients -> Seq(Units)]
               /\ pc' \in [Clients -> {"none", "recv", "send", "done"}]
    <3>1. /\ Accepted(c) /\ fd' \in [Clients -> Fds \union {0}]
          /\ backlog' \in Seq(Clients)
      BY <1>0, <2>2, AcceptsIsAccepted, AcceptedQueue DEF Inv
    <3> QED
      BY <1>0, <3>1 DEF Accepted
  <2>3. ASSUME NEW c \in Clients, Receive(c)
        PROVE  NetTypeOK(Units)' /\ buffer' \in [Clients -> Seq(Units)]
               /\ pc' \in [Clients -> {"none", "recv", "send", "done"}]
    <3>1. PICK n \in 1 .. RecvMax : NetRecv(c, n) /\ buffer' = Filled(c, SubSeq(up[c], 1, n))
      BY <2>3 DEF Receive
    <3>2. SubSeq(up[c], 1, n) \in Seq(Units) /\ up' \in [Clients -> Seq(Units)]
      BY <1>0, <3>1, ReceivedUnits
    <3>3. buffer' \in [Clients -> Seq(Units)]
      BY <1>0, <3>1, <3>2 DEF Filled
    <3> QED
      BY <1>0, <2>3, <3>2, <3>3 DEF Receive
  <2>4. ASSUME NEW c \in Clients, Echo(c)
        PROVE  NetTypeOK(Units)' /\ buffer' \in [Clients -> Seq(Units)]
               /\ pc' \in [Clients -> {"none", "recv", "send", "done"}]
    <3>1. relayed[c] \o buffer[c] \in Seq(Units) /\ <<>> \in Seq(Units)
      BY <1>0
    <3>2. relayed' \in [Clients -> Seq(Units)] /\ buffer' \in [Clients -> Seq(Units)]
      BY <1>0, <2>4, <3>1 DEF Echo, NetSend
    <3>3. peer' \in [Clients -> PeerStates]
      BY <1>0, <2>4 DEF Echo, NetSend, PeerStates, Departed
    <3>4. pc' \in [Clients -> {"none", "recv", "send", "done"}]
      BY <1>0, <2>4 DEF Echo
    <3> QED
      BY <1>0, <2>4, <3>2, <3>3, <3>4 DEF Echo
  <2>5. ASSUME NEW c \in Clients, Finishes(c)
        PROVE  NetTypeOK(Units)' /\ buffer' \in [Clients -> Seq(Units)]
               /\ pc' \in [Clients -> {"none", "recv", "send", "done"}]
    <3>1. <<>> \in Seq(Units)
      OBVIOUS
    <3>2. up' \in [Clients -> Seq(Units)]
      BY <1>0, <2>5, <3>1 DEF Finishes, Close, Dies
    <3>3. UNCHANGED <<backlog, written, relayed, seen>>
      BY <2>5 DEF Finishes, Close, Dies, Over
    <3>4. /\ fd' = [fd EXCEPT ![c] = 0] /\ peer' = [peer EXCEPT ![c] = "gone"]
          /\ pc' = [pc EXCEPT ![c] = "done"] /\ buffer' = [buffer EXCEPT ![c] = <<>>]
      BY <2>5 DEF Finishes, Close, Dies, Over, NetClose
    <3>5. buffer' \in [Clients -> Seq(Units)]
      BY <1>0, <3>1, <3>4
    <3> QED
      BY <1>0, <3>2, <3>3, <3>4, <3>5 DEF PeerStates
  <2>6. ASSUME NEW c \in Clients, Process(c)
        PROVE  NetTypeOK(Units)' /\ buffer' \in [Clients -> Seq(Units)]
               /\ pc' \in [Clients -> {"none", "recv", "send", "done"}]
    <3>1. UNCHANGED <<pc, buffer>>
      BY <2>6 DEF Process, Client, ClientSend, ClientReceive, ClientCloses, ClientFails,
         ClientConnect,
                  ClientKilled, serverVars
    <3>2. CASE ClientSend(c)
      <4>1. length[c] \in 0 .. MaxUnits
        BY <1>0, StreamTypes
      <4>2. [k \in 1 .. length[c] |-> <<c, k>>] \in Seq(Units)
        BY <4>1, TextIsUnits DEF Text
      <4> QED
        BY <1>0, <3>1, <3>2, <4>1, <4>2 DEF ClientSend
    <3>3. CASE ClientFails(c)
      BY <1>0, <3>1, <3>3 DEF ClientFails, PeerStates
    <3>4. CASE ~ClientSend(c) /\ ~ClientFails(c)
      <4>1. NetConnect(c) \/ NetClientSend(c) \/ NetClientRecv(c) \/ NetClientClose(c)
        BY <2>6, <3>4 DEF Process, Client, ClientReceive, ClientCloses, ClientConnect,
           ClientKilled
      <4>2. NetTypeOK(Units)
        BY <1>0
      <4>3. NetTypeOK(Units)'
        BY <4>1, <4>2, ClientCallsKeepTypes
      <4> QED
        BY <1>0, <3>1, <4>3
    <3> QED
      BY <3>2, <3>3, <3>4
  <2> QED
    BY <2>1, <2>2, <2>3, <2>4, <2>5, <2>6, StepsGrouped DEF Works
<1>5. /\ design' \in Designs /\ length' \in [Clients -> Lengths]
      /\ outcome' \in [Clients -> {"none", "echoed", "killed", "failed"}]
  <2>1. CASE Turn
    BY <1>0, <2>1, TurnFrame DEF clientVars, TypeOK
  <2>2. ASSUME NEW c \in Clients, Accepts(c) \/ Works(c) \/ Finishes(c) PROVE UNCHANGED clientVars
    BY <1>0, <2>2, AcceptsIsAccepted DEF Accepted, Works, Receive, Echo, Finishes, Close, Dies,
       Over
  <2>3. ASSUME NEW c \in Clients, Process(c)
        PROVE  /\ design' = design /\ length' = length
               /\ outcome' \in [Clients -> {"none", "echoed", "killed", "failed"}]
    BY <1>0, <2>3 DEF Process, Client, ClientSend, ClientReceive, ClientCloses, ClientFails,
       ClientConnect,
       ClientKilled, clientVars, TypeOK
  <2> QED
    BY <1>0, <2>1, <2>2, <2>3, StepsGrouped DEF clientVars, TypeOK
<1>6. /\ main' \in {"accept", "reap", "scan"} /\ key' \in {"up", "down", "read"}
      /\ server' \in {"running", "dead"} /\ ready' \subseteq Range(PortOf)
  <2>1. Waiting \subseteq Range(PortOf)
    BY <1>0, PortAssumption DEF Waiting, Range, TypeOK, NetTypeOK
  <2>2. CASE Turn
    BY <1>0, <2>1, <2>2 DEF Turn, PoolEnds, ThreadAcceptDies, Ends, ReapDone, Select, ScanDone,
       ScanEnds,
       KeyPressed, Reap, Waits, mainVars, selectVars, TypeOK
  <2>3. ASSUME NEW c \in Clients, Accepts(c)
        PROVE  /\ main' \in {"accept", "reap", "scan"} /\ key' = key
               /\ server' = server /\ ready' \subseteq ready
    BY <1>0, <2>3 DEF Accepts, SequentialAccept, ThreadAccept,
       ForkAccept, Forks, ScanAccept, ScanTakes,
       TakesFirst,
       mainVars, selectVars, TypeOK
  <2>4. ASSUME NEW c \in Clients, Works(c) \/ Finishes(c) \/ Process(c)
        PROVE  main' = main /\ key' = key /\ server' \in {server, "dead"} /\ ready' = ready
    BY <2>4 DEF Works, Receive, Echo, Finishes, Close, Dies, Over, Process, Client, ClientSend,
       ClientReceive, ClientCloses, ClientFails, ClientConnect, ClientKilled, serverVars,
       mainVars, selectVars
  <2> QED
    BY <1>0, <2>2, <2>3, <2>4, StepsGrouped DEF TypeOK
<1> QED
  BY <1>1, <1>2, <1>3, <1>4, <1>5, <1>6 DEF TypeOK

\* Every step keeps the inductive invariant.
LEMMA NextInv ==
  ASSUME Inv, [Next]_vars PROVE Inv'
<1>1. CASE Next
  BY <1>1, NextTypes, NextQueue, NextChild, NextProcess, NextStream, NextDeath DEF Inv
<1>2. CASE UNCHANGED vars
  <2>1. /\ UNCHANGED <<netVars, free, pc, buffer, main, childProcCount, zombies, old, ready, key,
                       server, design, length, outcome>>
    BY <1>2 DEF vars, serverVars, mainVars, childVars, selectVars, clientVars
  <2>2. /\ TypeOK' /\ QueueInv' /\ MainParts'
    BY <2>1 DEF Inv, TypeOK, NetTypeOK, netVars, QueueInv, QueuedUnserved, AbsentUnserved,
       MainParts
  <2>3. Served' = Served /\ Children' = Children /\ Lost' = Lost /\ Killed' = Killed
    BY <2>1 DEF Served, Serving, Children, Lost, Killed
  <2>4. ChildInv' /\ ProcessInv'
    BY <2>1, <2>3 DEF Inv, ChildInv, ProcessInv, Processes
  <2>5. StreamInv'
    BY <2>1, StreamSame DEF Inv, StreamInv, netVars
  <2>6. FreeFds' = FreeFds
    BY <2>1 DEF FreeFds, OpenFds, netVars
  <2>7. DeathHasCause'
    BY <2>1, <2>3, <2>6 DEF Inv, DeathHasCause
  <2> QED
    BY <2>2, <2>4, <2>5, <2>7 DEF Inv
<1> QED
  BY <1>1, <1>2

\* The inductive invariant holds in every reachable state.
THEOREM InvHolds == Spec => []Inv
<1>1. Inv /\ [Next]_vars => Inv'
  BY NextInv
<1> QED
  BY InitInv, <1>1, PTL DEF Spec

\* Every variable keeps its type: no server counts more children than it has clients,
\* and none makes processes than it was given.
THEOREM TypeCorrect == Spec => []TypeOK
<1>1. Inv => TypeOK
  BY DEF Inv
<1> QED
  BY InvHolds, <1>1, PTL

\* Whatever is served at the same time, a client is sent its own text from the
\* beginning, and nothing of it is lost in between.
THEOREM EchoesAreFaithful == Spec => []EchoFaithful
<1>1. Inv => EchoFaithful
  BY DEF Inv, StreamInv, Faithful, EchoFaithful, Text
<1> QED
  BY InvHolds, <1>1, PTL

\* childProcCount is right however children exit between accept() and waitpid(), and
\* zombies do not pile up.
THEOREM ChildrenAreReaped == Spec => []ChildrenReaped
<1>1. Inv => ChildrenReaped
  <2>1. {c \in Clients : Serving(c)} \union zombies = Children
    BY DEF Served, Children
  <2> QED
    BY <2>1 DEF Inv, ChildInv, ChildrenReaped
<1> QED
  BY InvHolds, <1>1, PTL

\* No server ends but by the clients that vanish, as many as it has processes, or by
\* its operator, or for want of descriptors.
THEOREM DeathsHaveCauses == Spec => []DeathHasCause
<1>1. Inv => DeathHasCause
  BY DEF Inv
<1> QED
  BY InvHolds, <1>1, PTL

-----------------------------------------------------------------------------
(* Nobody waits in vain *)

\* Only who was served to the end has lost its connection, as long as there is a server.
GivenUpWhenDone == server = "running" => \A c \in Clients : peer[c] = "gone" => pc[c] = "done"

\* What a handler has to send back fits one recv().
BufFits == \A c \in Clients : Len(buffer[c]) <= RecvMax

\* Who scans was told only of ports that somebody waits at.
ReadyWaits == main = "scan" => ready \subseteq Waiting

VainInv == GivenUpWhenDone /\ BufFits /\ ReadyWaits

\* A server that runs has run before.
LEMMA RanBefore ==
  ASSUME Inv, Next, server' = "running" PROVE server = "running"
BY StaysDead DEF Inv, TypeOK

\* Whoever else waits than the one who is accepted still waits.
LEMMA OthersWait ==
  ASSUME TypeOK, NEW c \in Clients, Accepted(c), NEW p \in Waiting, p # PortOf[c]
  PROVE  p \in Waiting'
<1>1. backlog \in Seq(Clients)
  BY DEF TypeOK, NetTypeOK
<1>2. PICK k \in 1 .. Len(backlog) : backlog[k] = c /\ backlog' = RemoveAt(backlog, k)
  BY DEF Accepted
<1>3. /\ backlog' \in Seq(Clients)
      /\ Len(backlog') = Len(backlog) - 1
      /\ \A j \in 1 .. Len(backlog) - 1 :
           backlog'[j] = IF j < k THEN backlog[j] ELSE backlog[j + 1]
  BY <1>1, <1>2, SequenceWithout
<1>4. PICK l \in 1 .. Len(backlog) : p = PortOf[backlog[l]]
  BY <1>1 DEF Waiting, Range
<1>5. l # k /\ Len(backlog) \in Nat
  BY <1>1, <1>2, <1>4
<1>6. \E j \in 1 .. Len(backlog') : backlog'[j] = backlog[l]
  <2>1. CASE l < k
    <3>1. l \in 1 .. Len(backlog) - 1
      BY <1>5, <2>1
    <3> QED
      BY <1>3, <2>1, <3>1
  <2>2. CASE ~(l < k)
    <3>1. l - 1 \in 1 .. Len(backlog) - 1 /\ ~(l - 1 < k) /\ (l - 1) + 1 = l
      BY <1>5, <2>2
    <3> QED
      BY <1>3, <3>1
  <2> QED
    BY <2>1, <2>2
<1>7. backlog[l] \in Range(backlog')
  BY <1>3, <1>6 DEF Range
<1> QED
  BY <1>4, <1>7 DEF Waiting

\* Every step gives up only connections that are done with.
LEMMA NextGivenUp ==
  ASSUME Inv, GivenUpWhenDone, Next PROVE GivenUpWhenDone'
<1> SUFFICES ASSUME server' = "running", NEW d \in Clients, peer'[d] = "gone"
             PROVE  pc'[d] = "done"
  BY DEF GivenUpWhenDone
<1>0. /\ TypeOK /\ server = "running"
      /\ peer[d] = "gone" => pc[d] = "done"
  BY RanBefore DEF Inv, GivenUpWhenDone
<1>1. CASE Turn
  BY <1>0, <1>1, TurnFrame DEF netVars
<1>2. ASSUME NEW c \in Clients, Accepts(c) PROVE pc'[d] = "done"
  <2>1. Accepted(c) /\ pc[c] = "none"
    BY <1>0, <1>2, AcceptsIsAccepted, AcceptedQueue DEF Inv
  <2>2. peer' = peer /\ pc' = [pc EXCEPT ![c] = "recv"]
    BY <2>1 DEF Accepted
  <2> QED
    BY <1>0, <2>1, <2>2 DEF TypeOK
<1>3. ASSUME NEW c \in Clients, Works(c) PROVE pc'[d] = "done"
  <2>1. peer'[d] = "gone" => peer[d] = "gone"
    BY <1>0, <1>3 DEF Works, Receive, Echo, NetSend, TypeOK, NetTypeOK
  <2> QED
    BY <1>0, <1>3, <2>1, ServedWorks
<1>4. ASSUME NEW c \in Clients, Finishes(c) PROVE pc'[d] = "done"
  <2>1. d # c => peer'[d] = peer[d] /\ pc'[d] = pc[d]
    BY <1>0, <1>4, OthersSame
  <2>2. pc'[c] = "done"
    BY <1>0, <1>4, ServedLess
  <2> QED
    BY <1>0, <2>1, <2>2
<1>5. ASSUME NEW c \in Clients, Process(c) PROVE pc'[d] = "done"
  <2>1. pc' = pc /\ ~ClientFails(c)
    BY <1>0, <1>5 DEF Process, Client, ClientSend, ClientReceive, ClientCloses, ClientFails,
       ClientConnect, ClientKilled, serverVars
  <2>2. peer'[d] = "gone" => peer[d] = "gone"
    BY <1>0, <1>5, <2>1 DEF Process, Client, ClientSend, ClientReceive, NetClientRecv,
       ClientCloses, ClientConnect, NetConnect, ClientKilled, NetClientClose, TypeOK, NetTypeOK
  <2> QED
    BY <1>0, <2>1, <2>2
<1> QED
  BY <1>1, <1>2, <1>3, <1>4, <1>5, StepsGrouped

\* No step fills a handler's buffer with more than one recv() takes.
LEMMA NextBufFits ==
  ASSUME Inv, BufFits, Next PROVE BufFits'
<1>0. TypeOK
  BY DEF Inv
<1>1. Len(<<>>) <= RecvMax
  BY BoundsAssumption
<1>2. CASE Turn
  BY <1>2, TurnFrame DEF BufFits
<1>3. ASSUME NEW c \in Clients, Accepts(c) PROVE BufFits'
  BY <1>0, <1>3, AcceptsIsAccepted DEF BufFits, Accepted
<1>4. ASSUME NEW c \in Clients, Works(c) \/ Finishes(c) \/ Process(c) PROVE BufFits'
  <2>1. ASSUME NEW d \in Clients \ {c} PROVE Len(buffer'[d]) <= RecvMax
    BY <1>0, <1>4, OthersSame DEF BufFits
  <2>2. Len(buffer'[c]) <= RecvMax
    <3>1. CASE Receive(c)
      <4>1. PICK n \in 1 .. RecvMax : NetRecv(c, n) /\ buffer' = Filled(c, SubSeq(up[c], 1, n))
        BY <3>1 DEF Receive
      <4>2. n \in Nat /\ n <= RecvMax /\ n <= Len(up[c]) /\ up[c] \in Seq(Units)
        BY <1>0, <4>1, StreamTypes, BoundsAssumption DEF NetRecv
      <4>3. Len(SubSeq(up[c], 1, n)) = n
        BY <4>2
      <4>4. buffer'[c] = SubSeq(up[c], 1, n)
        BY <1>0, <4>1 DEF Filled, TypeOK
      <4> QED
        BY <4>2, <4>3, <4>4
    <3>2. CASE Echo(c) \/ Finishes(c)
      <4>1. buffer' = [buffer EXCEPT ![c] = <<>>]
        BY <3>2 DEF Echo, Finishes, Close, Dies, Over
      <4>2. buffer'[c] = <<>>
        BY <1>0, <4>1 DEF TypeOK
      <4> QED
        BY <1>1, <4>2
    <3>3. CASE Process(c)
      <4>1. buffer' = buffer
        BY <3>3 DEF Process, Client, ClientSend, ClientReceive, ClientCloses, ClientFails,
           ClientConnect, ClientKilled, serverVars
      <4> QED
        BY <4>1 DEF BufFits
    <3> QED
      BY <1>4, <3>1, <3>2, <3>3 DEF Works
  <2> QED
    BY <2>1, <2>2 DEF BufFits
<1> QED
  BY <1>2, <1>3, <1>4, StepsGrouped

\* A port that was reported keeps somebody waiting until its turn, whatever happens
\* at the other ports and to the client meanwhile.
LEMMA NextReadyWaits ==
  ASSUME Inv, ReadyWaits, Next PROVE ReadyWaits'
<1>0. /\ TypeOK /\ MainParts /\ backlog \in Seq(Clients)
  BY DEF Inv, TypeOK, NetTypeOK
<1>1. CASE Turn
  <2>1. backlog' = backlog
    BY <1>1, TurnFrame DEF netVars
  <2>2. Waiting' = Waiting
    BY <2>1 DEF Waiting
  <2>3. (main' = "scan") => (main = "scan" /\ ready' = ready) \/ ready' = Waiting
    BY <1>1 DEF Turn, PoolEnds, ThreadAcceptDies, Ends, ReapDone, Select, ScanDone, ScanEnds,
       KeyPressed, Reap, Waits, mainVars, selectVars
  <2> QED
    BY <2>2, <2>3 DEF ReadyWaits
<1>2. ASSUME NEW c \in Clients, Accepts(c) PROVE ReadyWaits'
  <2>1. CASE ScanAccept(c)
    <3>1. main = "scan" /\ ready' = ready \ {PortOf[c]}
      BY <2>1 DEF ScanAccept, ScanTakes
    <3>2. \A p \in ready' : p \in Waiting /\ p # PortOf[c]
      BY <3>1 DEF ReadyWaits
    <3>3. Accepted(c)
      BY <1>0, <1>2, AcceptsIsAccepted
    <3> QED
      BY <1>0, <3>2, <3>3, OthersWait DEF ReadyWaits
  <2>2. CASE ~ScanAccept(c)
    <3>1. main' # "scan"
      BY <1>0, <1>2, <2>2 DEF Accepts, SequentialAccept, ThreadAccept, ForkAccept, Forks,
         MainParts, mainVars
    <3> QED
      BY <3>1 DEF ReadyWaits
  <2> QED
    BY <2>1, <2>2
<1>3. ASSUME NEW c \in Clients, Works(c) \/ Finishes(c) \/ Process(c) PROVE ReadyWaits'
  <2>1. main' = main /\ ready' = ready
    BY <1>3 DEF Works, Receive, Echo, Finishes, Close, Dies, Over, Process, Client, ClientSend,
       ClientReceive, ClientCloses, ClientFails, ClientConnect, ClientKilled, serverVars,
       mainVars, selectVars
  <2>2. Waiting \subseteq Waiting'
    <3>1. CASE ClientConnect(c)
      <4>1. backlog' = Append(backlog, c)
        BY <3>1 DEF ClientConnect, NetConnect
      <4>2. /\ Len(backlog') = Len(backlog) + 1 /\ backlog' \in Seq(Clients)
            /\ \A k \in 1 .. Len(backlog) : k \in 1 .. Len(backlog') /\ backlog'[k] = backlog[k]
        BY <1>0, <4>1
      <4>3. Range(backlog) \subseteq Range(backlog')
        BY <1>0, <4>2 DEF Range
      <4> QED
        BY <4>3 DEF Waiting
    <3>2. CASE ~ClientConnect(c)
      <4>1. backlog' = backlog
        BY <1>3, <3>2 DEF Works, Receive, Echo, Finishes, Close, Dies, Over, Process, Client,
           ClientSend, ClientReceive, NetClientRecv, ClientCloses, ClientFails, ClientKilled,
           NetClientClose
      <4> QED
        BY <4>1 DEF Waiting
    <3> QED
      BY <3>1, <3>2
  <2> QED
    BY <2>1, <2>2 DEF ReadyWaits
<1> QED
  BY <1>1, <1>2, <1>3, StepsGrouped

\* Whose client has not been given up is still owed what its handler has to send, and
\* then the client has sent all it has to.
LEMMA SendersProceed ==
  ASSUME Inv, VainInv, server = "running", NEW c \in Clients, pc[c] = "send"
  PROVE  /\ Deliverable(c, buffer[c])
         /\ SendBlocks(c, buffer[c]) => written[c] = length[c]
<1>0. /\ TypeOK /\ Stream(c) /\ Faithful(c) /\ peer[c] \notin {"absent", "gone"}
      /\ Len(buffer[c]) <= RecvMax
  BY DEF Inv, StreamInv, QueueInv, AbsentUnserved, VainInv, GivenUpWhenDone, BufFits
<1>1. Deliverable(c, buffer[c])
  <2>1. NetTypeOK(Units) /\ buffer[c] \in Seq(Units)
    BY <1>0, StreamTypes DEF TypeOK
  <2> QED
    BY <1>0, <2>1, ServedIsDeliverable
<1>2. ASSUME SendBlocks(c, buffer[c]) PROVE written[c] = length[c]
  <2>1. outcome[c] = "none"
    BY <1>0, <1>2 DEF SendBlocks, Stream
  <2>2. Len(relayed[c]) + Len(buffer[c]) + Len(up[c]) = written[c]
    BY <1>0, <2>1, SentOfWritten
  <2>3. Len(buffer[c]) # 0
    BY <1>0, StreamTypes DEF Stream
  <2>4. \A r, b, u \in Nat : b # 0 => r + b + u # 0
    OBVIOUS
  <2>5. written[c] # 0
    BY <1>0, <2>2, <2>3, <2>4, StreamLengths, Zenon
  <2> QED
    BY <1>0, <2>5 DEF Stream
<1> QED
  BY <1>1, <1>2

\* Who waits for a client that is there waits for one that has something to do.
LEMMA ReceiversProceed ==
  ASSUME Inv, VainInv, server = "running", NEW c \in Clients, pc[c] = "recv", up[c] = <<>>
  PROVE  peer[c] \in Departed \/ (peer[c] = "here" /\ CanGoOn(c))
<1>0. /\ TypeOK /\ Stream(c) /\ Faithful(c) /\ peer[c] \notin {"absent", "gone"}
  BY DEF Inv, StreamInv, QueueInv, AbsentUnserved, VainInv, GivenUpWhenDone
<1>1. peer[c] \in {"here"} \union Departed
  BY <1>0 DEF TypeOK, NetTypeOK, PeerStates
<1>2. ASSUME peer[c] = "here" PROVE CanGoOn(c)
  <2>1. outcome[c] = "none" /\ buffer[c] = <<>>
    BY <1>0, <1>2 DEF Stream
  <2>2. Len(relayed[c]) + Len(buffer[c]) + Len(up[c]) = written[c]
    BY <1>0, <2>1, SentOfWritten
  <2>3. Len(buffer[c]) = 0 /\ Len(up[c]) = 0 /\ Len(relayed[c]) \in Nat
    BY <1>0, <2>1, StreamLengths
  <2>4. \A r \in Nat : r + 0 + 0 = r
    OBVIOUS
  <2>5. Len(relayed[c]) = written[c]
    <3>1. Len(relayed[c]) + 0 + 0 = written[c]
      BY <2>2, <2>3, Zenon
    <3> QED
      BY <2>3, <2>4, <3>1, Zenon
  <2>6. /\ seen[c] \in Nat /\ length[c] \in Nat /\ written[c] \in {0, length[c]}
        /\ seen[c] <= Len(relayed[c])
    BY <1>0, StreamTypes DEF Stream
  <2>7. \A s, w, l \in Nat : s <= w /\ w \in {0, l} => w < l \/ s < w \/ s = l
    OBVIOUS
  <2>8. written[c] < length[c] \/ seen[c] < written[c] \/ seen[c] = length[c]
    BY <2>3, <2>5, <2>6, <2>7
  <2> QED
    BY <2>5, <2>8 DEF CanGoOn
<1> QED
  BY <1>1, <1>2

\* No call of a server that serves waits for what will not come: not a send() to its
\* client, not a recv() from it, and no accept() at a port that select() reported.
THEOREM NobodyWaits == Spec => []NobodyWaitsInVain
<1>1. Init => VainInv
  <2> SUFFICES ASSUME Init PROVE VainInv
    OBVIOUS
  <2>1. GivenUpWhenDone
    BY DEF Init, NetInit, GivenUpWhenDone
  <2>2. BufFits
    <3>1. Len(<<>>) <= RecvMax
      BY BoundsAssumption
    <3> QED
      BY <3>1 DEF Init, BufFits
  <2>3. ReadyWaits
    BY DEF Init, ReadyWaits
  <2> QED
    BY <2>1, <2>2, <2>3 DEF VainInv
<1>2. Inv /\ VainInv /\ [Next]_vars => VainInv'
  <2> SUFFICES ASSUME Inv, VainInv, [Next]_vars PROVE VainInv'
    OBVIOUS
  <2>1. CASE Next
    BY <2>1, NextGivenUp, NextBufFits, NextReadyWaits DEF VainInv
  <2>2. CASE UNCHANGED vars
    <3>1. UNCHANGED <<peer, backlog, pc, buffer, main, ready, server>>
      BY <2>2 DEF vars, netVars, serverVars, mainVars, selectVars
    <3> QED
      BY <3>1 DEF VainInv, GivenUpWhenDone, BufFits, ReadyWaits, Waiting
  <2> QED
    BY <2>1, <2>2
<1>3. Inv /\ VainInv => NobodyWaitsInVain
  BY SendersProceed, ReceiversProceed DEF NobodyWaitsInVain, VainInv, ReadyWaits
<1> QED
  BY InvHolds, <1>1, <1>2, <1>3, PTL DEF Spec
=============================================================================
