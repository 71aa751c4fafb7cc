---------------------------- MODULE TcpNetProofs ----------------------------
(***************************************************************************)
(* Lemmas about the kernel model of TcpNet, for the proofs about the       *)
(* servers that use it: what each call does to the types, and that accept  *)
(* gives a descriptor nobody else has.                                     *)
(***************************************************************************)
EXTENDS TcpNet, TLAPS, WellFoundedInduction, SequenceTheorems

\* A nonempty set of natural numbers has a least element, and Min returns it.
LEMMA MinIsLeast ==
  ASSUME NEW S \in SUBSET Nat, S # {}
  PROVE  Min(S) \in S /\ \A x \in S : Min(S) <= x
<1> DEFINE Less == {p \in Nat \X Nat : p[1] < p[2]}
<1>1. IsWellFoundedOn(Less, Nat)
  <2>1. OpToRel(<, Nat) = Less
    BY DEF OpToRel
  <2> QED
    BY <2>1, NatLessThanWellFounded
<1> HIDE DEF Less
<1>2. PICK x \in S : \A y \in S : <<y, x>> \notin Less
  BY <1>1, WFMin
<1>3. ASSUME NEW y \in S PROVE x <= y
  <2>1. x \in Nat /\ y \in Nat
    OBVIOUS
  <2>2. ~(y < x)
    BY <1>2, <2>1 DEF Less
  <2> QED
    BY <2>1, <2>2
<1> QED
  BY <1>3 DEF Min

\* accept() gives a descriptor that is free: it is one of Fds and no other
\* connection has it.
LEMMA AcceptGivesFreeFd ==
  ASSUME NEW c \in Clients, NEW Sendable, NetTypeOK(Sendable), NetAccept(c)
  PROVE  /\ fd' \in [Clients -> Fds \union {0}]
         /\ fd'[c] # 0
         /\ \A d \in Clients \ {c} : fd'[d] = fd[d] /\ fd[d] # fd'[c]
<1>1. FreeFds \subseteq Fds /\ Fds \subseteq Nat \ {0} /\ FreeFds # {}
  BY FdsAssumption DEF FreeFds, NetAccept
<1>2. Min(FreeFds) \in FreeFds
  <2>1. FreeFds \in SUBSET Nat
    BY <1>1
  <2> QED
    BY <1>1, <2>1, MinIsLeast
<1>3. fd' = [fd EXCEPT ![c] = Min(FreeFds)]
  BY DEF NetAccept
<1>4. \A d \in Clients : fd[d] # Min(FreeFds)
  BY <1>1, <1>2 DEF FreeFds, OpenFds
<1> QED
  BY <1>1, <1>2, <1>3, <1>4 DEF NetTypeOK

\* The calls of a client keep the types.
LEMMA ClientCallsKeepTypes ==
  ASSUME NEW Sendable, NEW c \in Clients, NetTypeOK(Sendable),
         NetConnect(c) \/ NetClientSend(c) \/ NetClientRecv(c) \/ NetClientClose(c)
  PROVE  NetTypeOK(Sendable)'
<1>1. CASE NetConnect(c)
  BY <1>1 DEF NetConnect, NetTypeOK, PeerStates
<1>2. CASE NetClientSend(c)
  <2>1. written[c] + 1 \in 1 .. MaxUnits
    BY <1>2, BoundsAssumption DEF NetClientSend, NetTypeOK
  <2>2. Append(up[c], <<c, written[c] + 1>>) \in Seq(Units)
    BY <2>1 DEF NetTypeOK, Units
  <2> QED
    BY <1>2, <2>1, <2>2 DEF NetClientSend, NetTypeOK
<1>3. CASE NetClientRecv(c)
  BY <1>3 DEF NetClientRecv, NetTypeOK
<1>4. CASE NetClientClose(c)
  BY <1>4 DEF NetClientClose, NetTypeOK, PeerStates, Departed
<1> QED
  BY <1>1, <1>2, <1>3, <1>4

\* The first n units of what waits are units, and so are the ones after them.
LEMMA ReceivedUnits ==
  ASSUME NEW c \in Clients, NEW Sendable, NetTypeOK(Sendable),
         NEW n \in 1 .. RecvMax, NetRecv(c, n)
  PROVE  SubSeq(up[c], 1, n) \in Seq(Units) /\ up' \in [Clients -> Seq(Units)]
<1>1. up[c] \in Seq(Units) /\ n \in Nat /\ n <= Len(up[c])
  BY BoundsAssumption DEF NetTypeOK, NetRecv
<1>2. SubSeq(up[c], 1, n) \in Seq(Units)
  BY <1>1
<1>3. SubSeq(up[c], n + 1, Len(up[c])) \in Seq(Units)
  BY <1>1
<1> QED
  BY <1>2, <1>3 DEF NetTypeOK, NetRecv

-----------------------------------------------------------------------------
(* The text of a client on its way to the server *)

\* The units of c that the server has taken from the connection.
Taken(c) == written[c] - Len(up[c])

\* What waits in a connection is the end of what the client wrote.
WaitingIsEnd ==
    \A c \in Clients :
      /\ Taken(c) \in Nat
      /\ \A k \in 1 .. Len(up[c]) : up[c][k] = <<c, Taken(c) + k>>

\* What a client writes goes to the end of what waits, and is not yet taken.
LEMMA SendingKeepsWaiting ==
  ASSUME NEW Sendable, NetTypeOK(Sendable), WaitingIsEnd, NEW c \in Clients, NetClientSend(c)
  PROVE  WaitingIsEnd' /\ \A d \in Clients : Taken(d)' = Taken(d)
<1>1. /\ written' = [written EXCEPT ![c] = written[c] + 1]
      /\ up' = [up EXCEPT ![c] = Append(up[c], <<c, written[c] + 1>>)]
  BY DEF NetClientSend
<1>2. /\ up[c] \in Seq(Units) /\ written[c] \in Nat
      /\ up \in [Clients -> Seq(Units)] /\ written \in [Clients -> 0 .. MaxUnits]
  BY BoundsAssumption DEF NetTypeOK
<1>3. /\ Len(up'[c]) = Len(up[c]) + 1
      /\ \A k \in 1 .. Len(up[c]) : up'[c][k] = up[c][k]
      /\ up'[c][Len(up[c]) + 1] = <<c, written[c] + 1>>
      /\ written'[c] = written[c] + 1
      /\ \A d \in Clients \ {c} : up'[d] = up[d] /\ written'[d] = written[d]
  BY <1>1, <1>2
<1>4. \A d \in Clients : Taken(d)' = Taken(d)
  <2>1. Len(up[c]) \in Nat
    BY <1>2
  <2>2. (written[c] + 1) - (Len(up[c]) + 1) = written[c] - Len(up[c])
    BY <1>2, <2>1
  <2>3. Taken(c)' = Taken(c)
    BY <1>3, <2>2 DEF Taken
  <2>4. \A d \in Clients \ {c} : Taken(d)' = Taken(d)
    BY <1>3 DEF Taken
  <2> QED
    BY <2>3, <2>4
<1>5. \A k \in 1 .. Len(up'[c]) : up'[c][k] = <<c, Taken(c) + k>>
  <2>1. TAKE k \in 1 .. Len(up'[c])
  <2>2. CASE k \in 1 .. Len(up[c])
    BY <1>3, <2>2 DEF WaitingIsEnd
  <2>3. CASE k = Len(up[c]) + 1
    <3>1. Taken(c) + k = written[c] + 1
      BY <1>2, <2>3 DEF Taken
    <3> QED
      BY <1>3, <2>3, <3>1
  <2> QED
    BY <1>2, <1>3, <2>2, <2>3
<1> QED
  BY <1>3, <1>4, <1>5 DEF WaitingIsEnd

\* recv() takes the next units of the client, and what is left is still the end.
LEMMA ReceivingTakesNext ==
  ASSUME NEW Sendable, NetTypeOK(Sendable), WaitingIsEnd, NEW c \in Clients,
         NEW n \in 1 .. RecvMax, NetRecv(c, n), written' = written
  PROVE  /\ WaitingIsEnd'
         /\ Taken(c)' = Taken(c) + n /\ \A d \in Clients \ {c} : Taken(d)' = Taken(d)
         /\ SubSeq(up[c], 1, n) \in Seq(Units) /\ Len(SubSeq(up[c], 1, n)) = n
         /\ \A k \in 1 .. n : SubSeq(up[c], 1, n)[k] = <<c, Taken(c) + k>>
<1>1. n <= Len(up[c]) /\ up' = [up EXCEPT ![c] = SubSeq(up[c], n + 1, Len(up[c]))]
  BY DEF NetRecv
<1>2. /\ up[c] \in Seq(Units) /\ written[c] \in Nat /\ n \in Nat /\ n # 0
      /\ up \in [Clients -> Seq(Units)]
  BY BoundsAssumption DEF NetTypeOK
<1>3. /\ up'[c] = SubSeq(up[c], n + 1, Len(up[c]))
      /\ \A d \in Clients \ {c} : up'[d] = up[d]
  BY <1>1, <1>2
<1>4. /\ Len(up'[c]) = Len(up[c]) - n
      /\ \A k \in 1 .. Len(up[c]) - n : up'[c][k] = up[c][n + k]
      /\ SubSeq(up[c], 1, n) \in Seq(Units) /\ Len(SubSeq(up[c], 1, n)) = n
      /\ \A k \in 1 .. n : SubSeq(up[c], 1, n)[k] = up[c][k]
  BY <1>1, <1>2, <1>3
<1>5. Taken(c) \in Nat /\ \A k \in 1 .. Len(up[c]) : up[c][k] = <<c, Taken(c) + k>>
  BY DEF WaitingIsEnd
<1>6. Taken(c)' = Taken(c) + n /\ \A d \in Clients \ {c} : Taken(d)' = Taken(d)
  <2>1. Len(up[c]) \in Nat
    BY <1>2
  <2>2. written[c] - (Len(up[c]) - n) = written[c] - Len(up[c]) + n
    BY <1>2, <2>1
  <2>3. Taken(c)' = Taken(c) + n
    BY <1>4, <2>2 DEF Taken
  <2>4. \A d \in Clients \ {c} : Taken(d)' = Taken(d)
    BY <1>3 DEF Taken
  <2> QED
    BY <2>3, <2>4
<1>7. \A k \in 1 .. Len(up'[c]) : up'[c][k] = <<c, Taken(c)' + k>>
  <2>1. TAKE k \in 1 .. Len(up'[c])
  <2>2. /\ k \in 1 .. Len(up[c]) - n /\ n + k \in 1 .. Len(up[c])
        /\ Taken(c) + (n + k) = Taken(c)' + k
    BY <1>1, <1>2, <1>4, <1>5, <1>6
  <2> QED
    BY <1>4, <1>5, <2>2
<1>8. WaitingIsEnd'
  <2>1. Taken(c)' \in Nat
    BY <1>2, <1>5, <1>6
  <2>2. ASSUME NEW d \in Clients \ {c}
        PROVE  /\ Taken(d)' \in Nat
               /\ \A k \in 1 .. Len(up'[d]) : up'[d][k] = <<d, Taken(d)' + k>>
    <3>1. up'[d] = up[d] /\ Taken(d)' = Taken(d)
      BY <1>3, <1>6
    <3> QED
      BY <3>1 DEF WaitingIsEnd
  <2> QED
    BY <1>7, <2>1, <2>2 DEF WaitingIsEnd
<1>9. \A k \in 1 .. n : SubSeq(up[c], 1, n)[k] = <<c, Taken(c) + k>>
  BY <1>1, <1>2, <1>4, <1>5
<1> QED
  BY <1>4, <1>6, <1>8, <1>9

\* Taking off again what was put at the end of a sequence.
LEMMA FrontOfConcatenation ==
  ASSUME NEW S, NEW s \in Seq(S), NEW t \in Seq(S)
  PROVE  SubSeq(s \o t, 1, Len(s \o t) - Len(t)) = s
<1>1. Len(s \o t) - Len(t) = Len(s)
  OBVIOUS
<1>2. \A k \in 1 .. Len(s) : (s \o t)[k] = s[k]
  OBVIOUS
<1>3. s \o t \in Seq(S) /\ Len(s) \in Nat /\ Len(s) <= Len(s \o t)
  OBVIOUS
<1>4. SubSeq(s \o t, 1, Len(s)) \in Seq(S) /\ Len(SubSeq(s \o t, 1, Len(s))) = Len(s)
  BY <1>3
<1>5. \A k \in 1 .. Len(s) : SubSeq(s \o t, 1, Len(s))[k] = s[k]
  BY <1>2, <1>3
<1> QED
  BY <1>1, <1>4, <1>5

\* A sequence without its k-th element has the others, in their order.
LEMMA SequenceWithout ==
  ASSUME NEW S, NEW q \in Seq(S), NEW k \in 1 .. Len(q)
  PROVE  /\ RemoveAt(q, k) \in Seq(S)
         /\ Len(RemoveAt(q, k)) = Len(q) - 1
         /\ \A j \in 1 .. Len(q) - 1 : RemoveAt(q, k)[j] = IF j < k THEN q[j] ELSE q[j + 1]
<1> DEFINE A == SubSeq(q, 1, k - 1)
           B == SubSeq(q, k + 1, Len(q))
<1>1. A \in Seq(S) /\ Len(A) = k - 1 /\ \A j \in 1 .. k - 1 : A[j] = q[j]
  OBVIOUS
<1>2. B \in Seq(S) /\ Len(B) = Len(q) - k /\ \A j \in 1 .. Len(q) - k : B[j] = q[k + j]
  OBVIOUS
<1>3. RemoveAt(q, k) = A \o B
  BY DEF RemoveAt
<1> HIDE DEF A, B
<1>4. /\ A \o B \in Seq(S) /\ Len(A \o B) = Len(A) + Len(B)
      /\ \A j \in 1 .. Len(A) + Len(B) :
           (A \o B)[j] = IF j <= Len(A) THEN A[j] ELSE B[j - Len(A)]
  BY <1>1, <1>2, ConcatProperties
<1>5. Len(q) \in Nat /\ Len(A) + Len(B) = Len(q) - 1
  BY <1>1, <1>2
<1>6. ASSUME NEW j \in 1 .. Len(q) - 1
      PROVE  (A \o B)[j] = IF j < k THEN q[j] ELSE q[j + 1]
  <2>1. CASE j < k
    BY <1>1, <1>4, <1>5, <2>1
  <2>2. CASE ~(j < k)
    <3>1. j - (k - 1) \in 1 .. Len(q) - k /\ k + (j - (k - 1)) = j + 1
      BY <1>5, <2>2
    <3>2. j \in 1 .. Len(A) + Len(B) /\ ~(j <= Len(A)) /\ Len(A) = k - 1
      BY <1>1, <1>5, <2>2
    <3>3. (A \o B)[j] = B[j - (k - 1)]
      BY <1>4, <3>2
    <3> QED
      BY <1>2, <2>2, <3>1, <3>3
  <2> QED
    BY <2>1, <2>2
<1> QED
  BY <1>3, <1>4, <1>5, <1>6

\* A send to a connection that was not given up returns or ends the server, at once or
\* after the client has received: buffers that one recv() fills an idle client's take.
LEMMA ServedIsDeliverable ==
  ASSUME NEW Sendable, NetTypeOK(Sendable), NEW c \in Clients, NEW ms \in Seq(Sendable),
         Len(ms) <= RecvMax, peer[c] \notin {"absent", "gone"}
  PROVE  Deliverable(c, ms)
<1>1. CASE SendBlocks(c, ms)
  <2> DEFINE sent == Len(relayed[c])
             got == seen[c]
             n == Len(ms)
  <2>1. sent \in Nat /\ got \in Nat /\ n \in Nat /\ n <= RecvMax
    BY DEF NetTypeOK
  <2>2. sent - got + n > DownCap
    BY <1>1 DEF SendBlocks
  <2> HIDE DEF sent, got, n
  <2>3. got < sent
    BY <2>1, <2>2, BoundsAssumption
  <2> QED
    BY <1>1, <2>3 DEF Deliverable, sent, got
<1>2. CASE ~SendBlocks(c, ms)
  <2>1. peer[c] \in {"here"} \union Departed
    BY DEF NetTypeOK, PeerStates
  <2> QED
    BY <1>2, <2>1 DEF Deliverable
<1> QED
  BY <1>1, <1>2
=============================================================================
