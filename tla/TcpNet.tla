------------------------------- MODULE TcpNet -------------------------------
(***************************************************************************)
(* The part of the kernel the TCP chat servers rely on: the listen queue,  *)
(* the descriptor table, and one connection per client with its two byte   *)
(* streams.  It is not code of the repository; it is modelled from how the *)
(* servers use socket(2) on Linux and is external in the map.              *)
(*                                                                         *)
(* A client process connects at most once; a user who comes back is        *)
(* another element of Clients.  A stream is a sequence of units, a unit    *)
(* being a piece of text TCP does not divide further; recv returns any     *)
(* nonempty prefix of the units that are waiting.                          *)
(***************************************************************************)
EXTENDS Integers, FiniteSets, Sequences, SequencesExt

CONSTANTS
    Clients,      \* client processes, each of which connects at most once
    Fds,          \* descriptors the server may still open, above stdio's
    MaxPending,   \* the second argument of listen()
    MaxUnits,     \* bound: units one client writes
    UpCap,        \* units the buffers from a client to the server hold
    DownCap,      \* units the buffers from the server to a client hold
    RecvMax       \* units one recv of the server takes at most

ASSUME FdsAssumption == Fds \subseteq Nat \ {0} /\ IsFiniteSet(Fds)
ASSUME BoundsAssumption ==
    /\ MaxPending \in Nat
    /\ MaxUnits \in Nat
    /\ UpCap \in Nat \ {0}
    /\ RecvMax \in Nat \ {0}
    /\ DownCap \in Nat /\ DownCap >= RecvMax

VARIABLES
    peer,      \* the client's end of its connection, as the server's kernel knows it
    backlog,   \* connections established and not yet accepted, oldest first
    fd,        \* the server's descriptor of the connection, 0 when it has none
    written,   \* units the client has written so far
    up,        \* units written by the client the server has not received
    relayed,   \* every unit the server has sent to the client (history)
    seen       \* how many of those the client has received

netVars == <<peer, backlog, fd, written, up, relayed, seen>>

(***************************************************************************)
(* "closed": the client closed with nothing left unread (FIN); a send      *)
(*           still succeeds, and the RST it provokes makes the end broken. *)
(* "reset":  the client closed with bytes unread (RST); the next call of   *)
(*           the server that meets the error returns it, once.             *)
(* "broken": a send raises SIGPIPE.                                        *)
(* "gone":   the server has closed its end too, or has exited.             *)
(***************************************************************************)
Departed == {"closed", "reset", "broken"}
PeerStates == {"absent", "here", "gone"} \union Departed

Units == Clients \X (1 .. MaxUnits)

NetInit ==
    /\ peer = [c \in Clients |-> "absent"]
    /\ backlog = <<>>
    /\ fd = [c \in Clients |-> 0]
    /\ written = [c \in Clients |-> 0]
    /\ up = [c \in Clients |-> <<>>]
    /\ relayed = [c \in Clients |-> <<>>]
    /\ seen = [c \in Clients |-> 0]

\* The types of these variables; the server sends elements of Sendable.
NetTypeOK(Sendable) ==
    /\ peer \in [Clients -> PeerStates]
    /\ backlog \in Seq(Clients)
    /\ fd \in [Clients -> Fds \union {0}]
    /\ written \in [Clients -> 0 .. MaxUnits]
    /\ up \in [Clients -> Seq(Units)]
    /\ relayed \in [Clients -> Seq(Sendable)]
    /\ seen \in [Clients -> Nat]

OpenFds == {fd[c] : c \in Clients} \ {0}
FreeFds == Fds \ OpenFds

\* The client whose connection has descriptor f, for an open f.
OwnerOf(f) == CHOOSE c \in Clients : fd[c] = f

-----------------------------------------------------------------------------
(* Calls of a client process. *)

\* connect(): Linux queues one connection more than listen() was told.
NetConnect(c) ==
    /\ peer[c] = "absent"
    /\ Len(backlog) <= MaxPending
    /\ peer' = [peer EXCEPT ![c] = "here"]
    /\ backlog' = Append(backlog, c)
    /\ UNCHANGED <<fd, written, up, relayed, seen>>

\* send() by the client: it blocks while the buffers towards the server are full.
NetClientSend(c) ==
    /\ peer[c] = "here"
    /\ written[c] < MaxUnits
    /\ Len(up[c]) < UpCap
    /\ written' = [written EXCEPT ![c] = @ + 1]
    /\ up' = [up EXCEPT ![c] = Append(@, <<c, written[c] + 1>>)]
    /\ UNCHANGED <<peer, backlog, fd, relayed, seen>>

\* recv() by the client, one unit at a time: a longer one is several of these.
NetClientRecv(c) ==
    /\ peer[c] = "here"
    /\ seen[c] < Len(relayed[c])
    /\ seen' = [seen EXCEPT ![c] = @ + 1]
    /\ UNCHANGED <<peer, backlog, fd, written, up, relayed>>

\* close(), exit or death of the client process.
NetClientClose(c) ==
    /\ peer[c] = "here"
    /\ peer' = [peer EXCEPT ![c] = IF seen[c] < Len(relayed[c]) THEN "reset" ELSE "closed"]
    /\ UNCHANGED <<backlog, fd, written, up, relayed, seen>>

-----------------------------------------------------------------------------
(* Calls of the server.  Each fixes the variables it names and no other. *)

\* accept(): the oldest connection of the queue gets the lowest free descriptor,
\* whether or not its client is still there.
NetAccept(c) ==
    /\ backlog # <<>>
    /\ c = Head(backlog)
    /\ FreeFds # {}
    /\ backlog' = Tail(backlog)
    /\ fd' = [fd EXCEPT ![c] = Min(FreeFds)]

\* recv() has something to report: bytes, the end of the stream or an error.
Readable(c) == up[c] # <<>> \/ peer[c] \in Departed

\* recv() > 0: the first n of the units that wait.
NetRecv(c, n) ==
    /\ n <= Len(up[c])
    /\ up' = [up EXCEPT ![c] = SubSeq(@, n + 1, Len(@))]

\* recv() <= 0: the client has left and every unit of it was received; a
\* pending error is reported and cleared.
NetRecvEnd(c) ==
    /\ up[c] = <<>>
    /\ peer[c] \in Departed
    /\ peer' = [peer EXCEPT ![c] = IF @ = "reset" THEN "broken" ELSE @]

\* A send() of ms to c blocks while c is there and does not empty its buffers.
SendBlocks(c, ms) ==
    peer[c] = "here" /\ Len(relayed[c]) - seen[c] + Len(ms) > DownCap

\* send() succeeds.  The client may be gone already: the RST this provokes
\* may arrive before or after the server's next call.
NetSend(c, ms) ==
    /\ peer[c] \in {"here", "closed"}
    /\ ~SendBlocks(c, ms)
    /\ relayed' = [relayed EXCEPT ![c] = @ \o ms]
    /\ peer' \in {peer, [peer EXCEPT ![c] = IF @ = "closed" THEN "broken" ELSE @]}

\* A send() of ms to c returns or ends the server, if not at once then after the
\* client has received what there is for it.
Deliverable(c, ms) ==
    IF SendBlocks(c, ms) THEN seen[c] < Len(relayed[c])
    ELSE peer[c] \in {"here"} \union Departed

\* close() of the server's end, after recv() reported that the client has left.
NetClose(c) ==
    /\ fd' = [fd EXCEPT ![c] = 0]
    /\ peer' = [peer EXCEPT ![c] = "gone"]
=============================================================================
