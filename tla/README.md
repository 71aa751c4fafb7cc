# A verification project for SocketChat-RealTime

The repository is a collection of small C programs that talk over sockets: chat
servers built on threads, on `select()` and on UDP, echo servers that serve
several clients in five ways, dialogues that take turns, and file transfers. Every program is short; what
is hard in them is what happens between several of them and the kernel: who is
scheduled when, who leaves when, and which datagram is lost. This directory
models those parts in TLA+, checks them with TLC and proves what it can with
TLAPS.

## 1. Inventory

| Component | Sources | State it keeps | Operations | Hard behaviour |
|---|---|---|---|---|
| Threaded chat | `Test_Code/tcp_chat_arbitrary_{server,client}.c` | table `client_sockets`, mutex, one descriptor per client | accept, add, recv, broadcast, remove, close; client: two threads | interleaving of handlers, blocking sends under the mutex, clients that vanish in the middle of a broadcast, a full table |
| select() chat | `MoreLearning/TCP_CHAT/Brodcast/{Server,Client}.c` | table `clients`, the set `readfds` of a turn | select, accept, scan, recv, broadcast, close | one thread for everybody, stale readiness, a full table, descriptors running out |
| Broadcast list chat | `Test_Code/tcp_chat_broadcast_{server,client}.c` | compacted list `clients[0..nclients-1]`, mutex | accept, add, echo, remove; operator's thread; client: two threads and `pthread_join` | list compacted while walked, two senders on one socket, quitting |
| UDP file transfer | `MoreLearning/UDP_FILE/*.c` | packet count, file written | request, send, wait for ACK, end marker, timeouts | loss, late and foreign datagrams, two timers, markers in the data |
| Duplex chat | `MoreLearning/TCP_CHAT/Arbitary/*.c` | flag `running` shared by two threads | send, receive | one side ends the other through the flag; the end of the input, which nobody notices |
| UDP chat room | `MoreLearning/UDP_CHAT/Brodcast/*.c` | list of addresses; client's global `server` | receive, register, broadcast | list that never shrinks, an address used again, an empty datagram that ends a receiver |
| Turn-taking chats | `Socket_{Server,Client}.c`, `MoreLearning/{TCP,UDP}_CHAT/TurnTaking`, `Test_Code/*_chat_turntaking_*` | whose turn it is | type, send, receive, leave | both sides waiting, lost datagram, one-sided leaving |
| Echo servers | `Test_Code/tcp_echo_server_*`, `tcp_echo_client.c` | children, pool, descriptor set of `select()` | accept, fork, echo, reap, shut down | zombies, a process that dies of one client, a readiness that is old when used |
| TCP file transfer with consent | `Test_Code/tcp_file_transfer_*` | stage of the handshake, files of the server | command, prompts, answer, data | an answer and data in one `recv`, children that share a terminal and files, a side that dies, a descriptor that parent and child both have |
| Other TCP file transfers | `Test_Code/tcpFT*`, `MoreLearning/TCP_FILE` | position in a file, announced size | header, data | a sender that dies, a file that changes after it was measured, short reads |
| Uppercase echo | `Test_Code/tcp_echo_uppercase_*` | none beyond a buffer | one `read`, one `write` | a side that dies first |
| TCP one-way | `Test_Code/tcp_oneway_*`, `MoreLearning/TCP_ONE_WAY` | none beyond a buffer | send, receive | lines cut and joined on the stream |
| UDP echo, one-way, broadcast | `Test_Code/udp_*`, `MoreLearning/UDP_ONE_WAY` | none beyond a buffer | receive, answer | an answer that never comes or is another's, a broadcast that its sender hears |
| Example, helper, make | `system_signal_handling_example.c`, `DieWithError.h`, Makefiles | none | | |

The programs of a component share no memory with those of another. They meet in
the kernel: connections, socket buffers, the descriptor table, datagrams. What
makes each component correct:

* *Chat rooms* (threaded, select): a text goes to every other member and to
  nobody else, in one order for all, without gaps; the table holds the open
  connections and nothing else; nobody waits for ever; clients end with the
  server.
* *Broadcast list*: an echo is the author's own text, the operator's lines reach
  everybody listed, in order; quitting ends the client.
* *UDP file*: what is written is the file in order; a transfer without loss is
  complete; both sides end.
* *Turn taking*: exactly one side waits for the other, and nobody goes on
  talking to a party that has left.
* *Echo servers*: every client is served and gets its own text, every child is
  reaped, one client's death ends no more than it must.
* *File transfer over TCP*: files are touched only with the consent of both
  sides, a copy is the file, and both sides end.
* *Pairs over one connection*: a side that ends and reports nothing has all it
  was sent; when one side is over, so is the other.
* *UDP servers*: nobody hears itself, nobody hears a text twice, an answer is the
  asker's own, and a client none of whose datagrams is lost is served.

## 2. Modules

| Module | Models |
|---|---|
| `TcpNet` | the kernel under the TCP servers: listen queue, descriptors, two streams per connection, what `send` and `recv` report after a client has left. External: modelled from socket(2) on Linux as the servers use it |
| `ThreadedChat` | the threaded chat server and its client |
| `SelectChat` | the select() chat server and its client |
| `BroadcastList` | the broadcast list server and its client |
| `UdpFile` | both UDP file programs, their timers and the lossy network |
| `EchoServers` | the five concurrent echo servers and their client |
| `FileTransfer` | the file transfer with consent: the server's children, its terminal and files, and the client |
| `TurnTaking` | the five pairs of programs that take turns |
| `StreamPair` | six pairs of programs over one TCP connection: the duplex chat, two file transfers, two one-way pairs, the uppercase echo |
| `UdpServers` | five kinds of UDP servers with their clients: chat room, echo, uppercase echo, broadcast, one-way |
| `ChatRoom` | abstract: a room with members and atomic posts, which `ThreadedChat` and `SelectChat` implement |
| `MC*` | instances for TLC (symmetry sets) |
| `TcpNetProofs`, `ThreadedChatProofs`, `SelectChatProofs`, `BroadcastListProofs`, `UdpProofs`, `FileTransferProofs`, `EchoServersProofs`, `PairProofs` | lemmas and theorems |

Definitions named "Mutant" in a comment are plausible bugs; each is used by one
mutation of `PROJECT.json` and by nothing else.

### TcpNet

One connection per client. `peer[c]` says what the server's kernel knows of the
client's end: *here*; *closed* (FIN: everything it was sent had been read);
*reset* (it left bytes unread: the next call of the server that meets the error
returns it once); *broken* (a send raises SIGPIPE); *gone*. The first `send`
after a FIN succeeds and provokes a RST, and the model lets the RST arrive
before or after the next call. A stream is a sequence of *units*, pieces that
TCP does not divide further, and a `recv` takes any nonempty prefix of what
waits, up to `RecvMax`. `accept` gives the lowest free descriptor, so that
numbers are reused as soon as they can be. `UpCap` and `DownCap` are the socket
buffers: a full one blocks the sender, on either side.

### ThreadedChat

`main()` is `Accept`; a handler goes through `AddToTable`, `Receive`,
`BroadcastLock`, one `BroadcastSend` per target, `BroadcastUnlock`, and at the
end `ReceiveEnd`, `RemoveFromTable`, `CloseSocket`. Adding and removing hold the
mutex over a loop without a system call and are one step each. `BroadcastDies`
is DieWithError on a failed send and SIGPIPE alike. The client's two threads have a
program counter each: `send_thread` (`spc`) goes from `fgets` to `send` and back
(`ClientReads`, `ClientSend`), ends with the input (`ClientInputEnds`) or ends the
process when `send` fails (`ClientSendFails`); `receive_thread` (`rpc`) receives
(`ClientReceive`), learns of the end (`ClientSeesEnd`) and calls `exit`
(`ClientExits`). `Reset` says what the death of the server makes of a connection.
The client never closes while the server runs, so leaving is being killed
(`ClientKilled`). `Speakers`, `Leavers` and `Enders` bound who types, who is killed
and whose input ends.

### SelectChat

One program counter: `Select` takes a snapshot of what is readable, `Accept` and
the scan act on the snapshot while clients go on. `broadcast()` is one step per
send. `AcceptError` is the -1 the code stores when `accept` fails. The client is
one thread around `select()`, which is why it can be blocked in `send` and not
read.

### BroadcastList

The server's main thread, one handler per client and the operator's thread; the
list is a sequence, removal is `Without`. The client's user types lines
(`ClientReads`) or leaves by an empty one, exit or quit (`ClientCloses`). The
length of a line is not in the model. `ClientCloses` models
`close()` as Linux does it: a thread inside `recv` on the descriptor keeps the
connection open until that `recv` returns. The history variable `since` is the number
of the first line a client is owed, set when it is put on the list (`FirstLine`: the line
that waits for the mutex at that moment, or else the next one).

### UdpFile

Chunk *k* is the number *k*; a datagram may be lost and is never reordered or
duplicated (one host). `Tick` is one second and may come at any time a process
waits, so that a process may be slow without bound and a timeout can fire with the
answer on its way; the history variable `slow` remembers that time has passed while
somebody had something to do. `lastChunk` says how the last chunk reads: like data or like
one of the two markers, for which the client takes it.

### EchoServers

The servers share `HandleTCPClient()` (`Receive`, `Echo`, `Close`, `Dies`), and
the variable `design` says which main loop is around it: `SequentialAccept` (the
iterative server and each process of the pool), `ForkAccept` with `Reap` and
`ReapDone`, `ThreadAccept`, and `Select`, `ScanAccept`, `ScanDone` with the return
key. What an error ends is what `Dies` says of each design: the process, with all
its threads. Each child has its own descriptors, so only the threads can run out of
them. A client sends one word, which fits the socket buffers, reads until as much has come
back and closes; only clients in `Leavers` are killed. One listen queue stands
for those of all ports; what a port accepts is the oldest connection to it.

### FileTransfer

The parent accepts and forks (`Fork`) and then closes its copy of the descriptor
(`ParentCloses`): `parent` is the client it is at, `held` those whose connection
it has a descriptor of. A client sees the end of the stream when both the
child's and the parent's copy are closed (`Closed`). It connects (`ClientConnect`) and
sends its command (`ClientRequest`) in two steps, between which it may be killed or the
server stopped (`ClientRequestDies`).

A file is a sequence of pieces TCP does not divide, and its bytes are named by
their owner, so that a copy can be compared with the original. The child's
`child[c]` goes through the command, the operator's answer, the client's
confirmation, and the file. The operator's line goes to *any* child
that waits for one (`ReadLine`). `RecvConfirm` receives any prefix of what waits,
so the client's "OK" may come with the beginning of its file; `IsOk` is the
`strcmp` of all of it. Files are read and written at each child's own offset
(`Written`), with nothing to keep two children apart. `OperatorStops` is an interrupt, which ends
the server and its children.

### TurnTaking

The ten programs are one loop around `fgets`, `send` and `recv`. What they differ in
is a record per program (`SocketServer`, ..., `FirstClient`): who begins, whether the
word to leave with is sent and heeded, what the end of the stream, the end of the
input and an empty line do. The actions read these records. `end` is what either
side's kernel knows of the other: after a FIN `recv` returns 0 and one `send`
succeeds; a RST makes the next call fail. The servers of `First` and the UDP pairs see several
clients, and so may each of the others have some in its listen queue.

### StreamPair

`program` says which pair it is, and each side has a sending and a receiving loop,
of which the chat runs both at once, the uppercase pair one after the other, and
the rest one. The loops share their actions: `Types`, `ReadsEnd` or `ReadsFile` fills
`item`, `Sent`, `SendFails` or `SendKills` disposes of it, `Receive` takes any
prefix of what waits, and `NextStep` says what a program does after a `recv`. The
end of the stream is `ReceivesEnd`, which in the chat clears `running` for the
other thread, and `EndsEarly` in the framed transfer, which alone tells an early
end from a late one. `Leave` is what a kernel does when a process is over: FIN, or
RST if something was left unread. A file's size is measured when it is opened
(`SizesGiven`), and the file may grow or shrink by a buffer before it is read. A
line is one unit, or two when its tail happens to begin with exit or quit.

### UdpServers

`kind` says which server runs. They are one loop (`Handles`): `Registered` is the
chat's list of addresses, `Targets` whom a text is sent to and `Reply` what is
sent. Any datagram may be lost, also for want of room (`Stores`). An address is
that of a socket and not of a process: one that `Starts` may get a port that
another had, with whatever is on its way to it. The chat's user types
(`Says`); once the input has ended, the client sends what its buffer holds again
and again (`Repeats`), which is nothing if no line was read before, and an empty
datagram ends the thread that receives it (`Listens`). The other clients send one
text (`Asks`), and those of the two echo servers take the first datagram that comes for
the answer (`Answered`). The broadcast server hears what it broadcasts.

### ChatRoom

The abstract room: `Enter`, `Post`, `EndPost`, `Leave`, `Crash`, and `LoseSeat`, which
only the select() server uses (the -1 of a failed `accept` keeps an entry for
ever). A post is one event, is the next piece of the author's text, and goes to
all other members. `ThreadedChat` maps its posts to the moment the mutex is
taken, `SelectChat` to the `recv`; the addressees the loop has not reached yet count as having
received the text, and a crash takes it from any of them.

## 3. Runs

| Run | Question | Bounds |
|---|---|---|
| `ThreadedChatSafety` | Does the table match the open connections, is an entry only taken from a client that left, can whoever holds the mutex get on (`MutexNotHostage`), and is the server a `ChatRoom`, crashes in the middle of a post included? | 3 clients, two that type two units each and may be killed, one that listens; a table of 2; descriptors that are reused |
| `ThreadedChatLive` | Does every broadcast under the mutex end, is every text relayed and every departed client forgotten (`HandlersAdvance`)? Does a client end with the server whatever its two threads were doing, and with all it was sent unless it was reset (`ClientsFollowServer`)? | 3 clients for 2 descriptors, two that type, the input of one of which may end, and one that may be killed; buffers of one unit so that sends block and something waits when the server dies |
| `SelectChatRoom` | Is what `select()` reported still true when it is acted on, does the table match the connections, is this server the same `ChatRoom`, is everybody in the table served? | 3 clients, a table of 3, 2 descriptors, so that `accept` fails and seats are lost |
| `BroadcastList` | Is everybody whom the list had room for on it once until it goes, and nobody else; does a client get every line from the one it was listed for on, and its own echoes, with two senders per socket; does every `send` that blocks wait for a thread that reads (`SendsGetThrough`), does a line end, does a client that quit end once spoken to? | 3 clients, one that talks, quits or is killed; 2 descriptors, so that one is reused and `accept` fails (the list itself does not fill up); buffers of one unit, so that sends block; 2 lines |
| `UdpFileTransfer` | Is the written file in order, with no more missing than was lost? Does the client outlast a prompt server? Do both ends end? | 2 clients, 3 chunks, 3 losses, any timing |
| `EchoServers` | At each of the five servers: do echoes stay with their authors, are children counted and reaped, what ends the server, does no call wait for what cannot come (`NobodyWaitsInVain`), which a port that blocks `accept()` would, is everybody else served? | 3 clients with words of 2 units, 2 that may be killed, a pool of 2, 2 ports, 2 descriptors |
| `FileTransfer` | Is no file touched without consent; is an upload a prefix at any time, a finished copy the file, and a refusal due to an answer merged with data only (`CopyFaithful`); do the two sides never wait for each other (`NeverBothWait`); does every transfer that has begun end at both (`TransferEnds`), which it does not while anybody still has a descriptor of a connection the other waits on? | 2 clients and one name, so that they share a file; files of 0 and 2 pieces, unreadable, and with a NUL byte in front |
| `TurnTaking` | For each of the five pairs: is there one text at a time, why can both sides wait for ever, how long does one talk to a party that left? | 3 clients, 3 lines each |
| `StreamPair` | For each of the six pairs: does a side that ends without a complaint have all of it, and does the end of one side end the other, unless that waits for its user? | files and inputs of up to 3 units, buffers of 3, a `recv` of up to 2; either side may be killed |
| `UdpServers` | For each of the five kinds: does anybody hear itself or hear twice, whose answer does a client take, is who loses nothing served? | 4 clients on 3 ports, one of which is used twice; a list of 2; one client that is killed, one whose input ends; buffers of 2 datagrams |

The bounds are small because the programs treat clients, entries and chunks
alike: a property of the table relates two clients and a third that reuses a
descriptor, a property of an order relates two authors and two readers, a gap in a
file needs a chunk before and one after it, three losses are what it takes to make
the client give up on a prompt server, and three lines are one more than anybody types for a
party that left (two, where the programs do not notice or do not agree who begins). Symmetry is used where clients differ in nothing but their
name (see the `MC` modules), in runs without liveness. Each passing property is violated
when the code has the bug its mutant names, so the bounds reach the case.

### What the code does and its documents deny

Each of these runs ends with a counterexample; each was also reproduced with the
compiled programs.

| Run | Finding |
|---|---|
| `SelectChatFull` | A newcomer that connects while a departed client still has its entry is never listed, with fewer than ten clients alive (`Server.c:49`) |
| `SelectChatStall` | A client blocked in `send` and the server blocked sending to it wait for each other (`Server.c:15`, `Client.c:37`) |

Other behaviours the models contain, and which one may want to know of, are
not contradicted by a document: two texts to a client that has just left kill the
select() server by SIGPIPE (`BroadcastDies`); a lost packet leaves a hole in a file that
the client takes for complete (`MissesOnlyLost` bounds the hole); a last packet
that reads `EOF` is taken for the marker and not written (`lastChunk`); any datagram counts as the acknowledgment of the last packet, the request of a second client included (`ServerAck`); an entry
that holds -1 is never used again (`LoseSeat`). Of the list chat's client: after
`quit` it waits until the server happens to send something
(`QuitEndsWhenSpokenTo`). Of the file transfer: an upload whose first bytes arrive with
the client's "OK" is refused, and the client reports "Finished sending file."
(`CopyFaithful`), unless the file begins with a NUL byte, when it is
stored without what came along; a client that cannot read its own file empties the
server's; a missing file is downloaded as an error text; a download from a server
that was stopped may be reported as finished though it is a part. Of the dialogues: an empty
line, the end of the input or one lost datagram leaves both sides waiting
(`StuckHasCause`), the UDP server of `Test_Code` does not look for "exit" in the
first datagram, and the programs of `Socket`, and sides of `First` that do not
agree who begins, let their user type two lines to nobody, where everybody else types one
(`LateLinesBounded`). One vanished client ends the iterative, threaded and
multiplexing echo servers, even one that vanished in the listen queue (`DeathHasCause`).
A user of the line client may type any number of lines to a server that is gone, because
the first `send` after the end succeeds and none is looked at
(`TCP_CLIENT_ONE_WAY.c:38`; `PairEnds` excepts it). Of the pairs: the receiver of
`TCP_FILE` takes the part that a dead sender leaves for the file, the one of `tcpFT`
never does (`CopyWhole`), but it stores the number of bytes it was promised even if the file
has grown since; the line server is misled by the tail of a line that begins with
exit, and does not see an exit that came in one `recv` behind another line. Of the UDP
programs: once the list is full of clients that left nobody new is told anything
(`Served`); an empty datagram makes a chat client deaf, and a late answer goes to
the next process on its port (`HeardRight`).

## 4. Fairness

Weak fairness only, of each thread or process by itself: a thread that can run
without interruption runs in the end. Users and the operator are not fair: nobody has to
connect, type, quit or leave. In `ThreadedChat` each of a client's two threads is weakly fair by
itself, so that one that is blocked does not count for the other. Fairness of a client's
`receive_thread` is what makes a blocked `send` of the server end, and it is justified because that thread
does nothing but receive; the select() client has no such thread, and
`SelectChatStall` shows what follows; `ListedServed` of `SelectChatRoom` is
checked with buffers that do not fill, where no send blocks. `HandlersAdvance`
also needs the mutex to be given to a waiting handler in the end. Weak fairness
gives that only because the units a client writes are bounded, so that the
contention ends; a `pthread_mutex` promises no more.
`UdpFileTransfer` assumes that time passes (`WF(Tick)`). In `FileTransfer` the
parent, the children and the clients are fair, and the operator and the users, who may leave
any prompt unanswered, are not: the liveness properties begin after the prompts.
In `EchoServers` a client that has connected is fair because it is a program
without a user; nobody has to connect, be killed or hit return. In `StreamPair`
each loop of each side is fair, and the users are not: they need neither type nor end
their input, and `PairEnds` excepts a side that waits for its user: in the chat one whose
other thread has received the end and cleared `running`, in the line client any. In `UdpServers`
the server and the clients are fair and the network is not: `Served` speaks of clients
that lost nothing. `TurnTaking` is
checked for safety only: its loops go round as often as users type and no more.

## 5. Proofs

`ThreadedChatProofs` proves for any number of clients, descriptors, entries and units:

* `TypeCorrect`: `Spec => []TypeOK`.
* `InvHolds`: `Spec => []Inv`, the inductive invariant.
* `TableIsConsistent`: `Spec => []TableConsistent`.
* `EntriesAreKept`: `Spec => EntryKept`, an action property.
* `MutexIsNotHostage`: `Spec => []MutexNotHostage`.
* `RoomImplemented`: `Spec => ImplementsRoom`, the refinement of `ChatRoom`.

`TableConsistent` is not inductive. That `AddToTable` does not enter a
descriptor a second time needs that no two clients have the same one
(`FdsDistinct`), which `accept` keeps because it takes a free descriptor
(`AcceptGivesFreeFd`, from the least element lemma `MinIsLeast`) and gives it to
a client that has none: one in the listen queue has no handler and is there once
(`QueuedUnserved`, `AbsentUnserved`). That `CloseSocket` leaves no entry behind
needs the phases: entries belong to handlers between add and remove, and
`OpenWhileServed` ties the phases to descriptors. `EntryKept` needs
`RemovedDeparted`: a handler reaches its removal only after its client left.

The refinement says of the texts what the table invariants say of the table: one
order for all, no gaps, nobody outside. It needs four invariants more. `WaitingIsEnd`
(of `TcpNetProofs`): what waits in a connection is the end of what its client wrote, so
what a `recv` returns comes right after what was posted before. `BufferIsLastTaken`: a
handler's buffer is what it took last, until it is broadcast. `PostNotEmpty`: and that is
not nothing. `MutexHeldBySender`: the
mutex belongs to the one handler that is sending, so that only one post is at hand.
Then every step is one of the room or none: adding is `Enter`, taking the mutex
`Post`, a `send` nothing, because its addressee already counts as served, unlocking
`EndPost`, removing `Leave`, and a failed `send` a `Crash` with the addressees not yet
reached. The room counts its members and the server looks for a free entry; that the
two agree (`FreeEntryIffRoom`) is a bijection between members and used entries.

`MutexNotHostage` is what `HandlersAdvance` needs of the state before fairness comes in. Its
holder sends (`MutexHeldBySender`) to entries of members; that such a connection still has
somebody at its other end is `GivenUpWhenDone`, and that a `send` which blocks has something
in front of it that the client can receive is `PostFits`: a text is what one `recv` took, and the
buffers of an idle client hold that. That the client does receive it is `ThreadsFollow`:
while the server runs, the `receive_thread` of a client that is there is in `recv`, wherever
its `send_thread` is. `ServedIsDeliverable` of `TcpNetProofs` puts the two
together, here and for the two other servers with such a property.

`UdpProofs` proves for a file of any length, any number of clients and any
number of lost datagrams:

* `TypeCorrect`: `Spec => []TypeOK`.
* `InvHolds`: `Spec => []Inv`, the inductive invariant.
* `WritesInOrder`: `Spec => []InOrder`.
* `MissesNoMore`: `Spec => []MissesOnlyLost`.
* `GivesUpLate`: `Spec => []PatientEnough`.

`InOrder` is not inductive: the next chunk written comes from the datagrams on
their way, so the invariant orders those among themselves and behind what is
written (`Ascending`), and bounds both by what the server has sent, which is why
the next chunk sent comes after all of them. `MissesOnlyLost` is counted
when the end marker is read: by then everything sent was written or lost
(`Accounted`, which also counts what is on its way), nothing is behind the
marker and the whole file was sent before it (`MarkerLast`). `OneServed` says
that all of this concerns one client only.

`PatientEnough` adds up the timeouts of both sides, and its invariant `Patience` says how
far they explain a wait. A client has waited at most two seconds for every datagram that
was lost or waits at either side, less the one the server owes its wait to (`Spare`), and
for what the server has waited so far (`Waited`). A wait ends when a datagram is
taken, which `Spare` then no longer counts, and the time that passes while the server waits
is charged to it; that nothing but the served client counts is `Inv`'s
(`OneServed`, `Phases`). The condition that no process was `slow` is the property's own: time
then passes only when every box is empty.

The same module proves of the five UDP servers, as the instance `Udp` of
`UdpServers`, for any number of clients, ports, lines and lost datagrams:

* `UdpServersInv`: `[]UdpInv`, the inductive invariant.
* `UdpTypes`: `[]Udp!TypeOK`.
* `UdpHeardRight`: `[]Udp!HeardRight`.

`HeardRight` looks back at what was told to whom, and the texts that will be told wait
in the server's socket. `Fresh` is the part about them: while its author types, a chat text
there is there once and was told to nobody, because the author's next text has the next
number; when the input has ended the same text comes again and again, which is why
the property stops there. `Addressed` keeps the address a text came with
and that nothing returns to it, `NoDoubles` that the list the server goes through has no
address twice, and `Deafened` that an empty datagram had a silent author elsewhere. For the
echo servers, whose clients take the first datagram for their answer, `Owned` follows each
text through both sockets: it is underway once, to the port it was sent from, and its author
waits for it or one with that port was killed (`OneUser`: a port has one
process at a time).

`SelectChatProofs` proves for any number of clients, descriptors, entries and units:

* `TypeCorrect`: `Spec => []TypeOK`.
* `InvHolds`: `Spec => []Inv`, the inductive invariant.
* `TableIsConsistent`: `Spec => []TableConsistent`.
* `ReadsWithoutBlocking`: `Spec => []NeverBlocksReading`.
* `RoomImplemented`: `Spec => ImplementsRoom`, the refinement of `ChatRoom`.

`TableConsistent` needs here too that descriptors are distinct and that a queued
client has none. `NeverBlocksReading` is about what `select()` said some time ago:
the invariant keeps, for every descriptor that the scan has still `Ahead`, that it
is open (`ReportedOpen`), that there is something to read from it
(`ReportedReadable`), and that the queue is not empty if the listening descriptor was
reported (`QueueReported`). Clients only add what can be read, and the server takes
only what its scan is at. The descriptor that `accept` gives is not among those
reported, because these are open, and `close` is called for the one the scan is at.

The refinement needs `WaitingIsEnd` as well, and that the text being sent has an author
in the table (`PostHasAuthor`). Here `recv` is the `Post`, a failed `accept` takes a seat
for ever (`LoseSeat`), and seats are what `FreeEntryIffRoom` counts.

`BroadcastListProofs` proves for any number of clients, descriptors and entries:

* `TypeCorrect`: `Spec => []TypeOK`.
* `InvHolds`: `Spec => []Inv`, the inductive invariant.
* `ListIsConsistent`: `Spec => []ListConsistent`.
* `StreamsAreFaithful`: `Spec => []StreamsFaithful`.
* `AllSendsGetThrough`: `Spec => []SendsGetThrough`.

`add_client` appends without looking whether the descriptor is listed already; that it
never is needs `FdsDistinct`, and with it the same chain as in the threaded chat.
`remove_client` takes out the first entry only, and `close` follows; that no entry of the
descriptor is left needs that there was one at most. `WithoutEntry` says what
compacting does to a list of any length, and so that whoever else was on it still is: a client that has
been listed (`since`) stays on the list until its own handler removes it. That the operator's thread sends to
open connections only (`TargetIsClient`) follows, whatever happens between two of its
sends.

`StreamsFaithful` speaks of two authors of one stream, and its invariant says how far either
has come: a stream holds just the echoes up to `Echoed(c)`, which is what the handler took
(`WaitingIsEnd`) less what its buffer holds (`BufferIsNext`), and no line beyond
`Given(c)`, which is the last one typed unless the loop still owes it to this client
(`Owed`). A connected client that was listed has every line from `since` to `Given(c)`, whether it
was sent any before or not. The mutex comes in with
`LoopHoldsMutex`: nobody joins or leaves while the loop runs, so each listed client is
owed the line until the loop is past its one entry (`LoopPasses`); `NewUnwritten` and `NewUnowed` say that
who joins has no line and is owed none before.

`SendsGetThrough` also asks for the thread that reads. While the client's end is open there is
one (`HereReads`): a client that quits closes its connection at once if its receiving thread is
printing, which ends when it comes back to `recv`, and otherwise the connection stays open just
as long as that thread is inside `recv`. `LoopHoldsMutex` and `TargetIsClient` say that the operator's
thread walks entries of open connections, and only while it has the mutex.

`FileTransferProofs` proves for any number of clients, file names and pieces:

* `TypeCorrect`: `Spec => []TypeOK`.
* `InvHolds`: `Spec => []Inv`, the inductive invariant.
* `ConsentComesFirst`: `Spec => []ConsentFirst`.
* `CopiesAreFaithful`: `Spec => []CopyFaithful`.
* `TheyNeverBothWait`: `Spec => []NeverBothWait`.

`Talk(c)` is about client `c` and its child alone and ties what either does next to
what is on its way between them; a step of another client leaves it alone
(`SameTalk`). Consent follows from it: "OK" is on its way to the client only after
the operator accepted, and the child passes `confirm` only by the client's
"OK". What was sent is at any time what was written, what came with the answer and
what is still on its way (`Pending`, `Upload`, `Download`). `Stored` and `Fetched` say
what the files hold while a client is `Alone` with its name, which once lost is never
regained (`WritersStay`): that is why another child's writes need not be followed.

For `NeverBothWait`, `Talk(c)` leaves three things open. A child that was not yet
asked has the command before it once the client has sent it and waits (`Requested`). No
client has connected to a server that was stopped before it forked a child for it (`Unserved`).
And the parent has a descriptor of no connection but the one it has just accepted (`Held`),
which it will close before anything else: so a client that waits for the end of the
stream waits for somebody who can go on.

`EchoServersProofs` proves for any finite number of clients, and any ports, units,
descriptors and size of the pool:

* `TypeCorrect`: `Spec => []TypeOK`.
* `InvHolds`: `Spec => []Inv`, the inductive invariant.
* `EchoesAreFaithful`: `Spec => []EchoFaithful`.
* `ChildrenAreReaped`: `Spec => []ChildrenReaped`.
* `DeathsHaveCauses`: `Spec => []DeathHasCause`.
* `NobodyWaits`: `Spec => []NobodyWaitsInVain`.

`Stream(c)` ties what a client has seen and how it ends to what the kernel knows of its
connection: a reset or broken connection is one of a client that was killed, so
that is what every failing `send` or `recv` of a server is charged to. `ChildrenReaped`
needs that the children of the count are those that run and those not yet waited for,
and that the children remembered when the server woke
(`old`) have exited for good: one that exits later is not among them. For `DeathHasCause`
of the pool, `ProcessInv` balances the books: processes that are free or serve, and the
clients that were killed, are together at least as many as were forked.

`NobodyWaitsInVain` is about each call that may block. For `send` it is the argument of the
threaded chat (`GivenUpWhenDone`, `BufFits`). A `recv` with nothing before it is of a client
that has left or has all of its text back, or still to send or to receive, by counting its
units (`SentOfWritten`). And `accept` at a port that `select` reported: `ReadyWaits` keeps
somebody waiting there until the scan comes to the port, because nobody leaves a queue but by
being accepted, of each port at most one client is accepted in a scan, and a
connection that others are accepted before stays in the queue (`OthersWait`).

`PairProofs` proves for all five pairs and any number of clients and lines:

* `TypeCorrect`: `Spec => []TypeOK`.
* `InvHolds`: `Spec => []Inv`, the inductive invariant.
* `OneTextInFlight`: `Spec => []OneInFlight`.
* `WaitingHasCause`: `Spec => []StuckHasCause`.
* `LateLinesAreFew`: `Spec => []LateLinesBounded`.

The turn is a token. `OneSpeaks` says that it is with one side or on its way as one
text, never in two places; `Moving` that it is somewhere as long as both sides go on
(`Alive`) and none of the causes has happened. A server that begins holds the token of
every client in its listen queue, which is what makes both true before `Accept`.
`Ending` ties the kernels' ends to the sides: one is not open only when the other side
is gone, and then nothing of this side is on its way. With it a side that types for a
party that has left is told so by the kernel before it types again (`Late`), or, with the
programs of `Socket` and sides that do not agree (`Twice`), before it types a third time. `Mute`
says of sides that do not agree that they are sides of `First`, and which of them have a turn at all. The ten
programs enter the proof by what `ProgramFacts` and `OneBegins` say of their records, and the
eleven actions of a party as four kinds of steps: speaking (`Spoke`), receiving
(`Heard`), being told of the end (`HeardEnd`) and closing (`Closed`).

The same module proves of the six pairs over one connection, as the instance `Pair` of
`StreamPair`, for files, messages and buffers of any size:

* `StreamPairInv`: `[]PairInv`, the inductive invariant.
* `PairTypesHold`: `[]Pair!TypeOK`.
* `PairCopyWhole`: `[]Pair!CopyWhole`.

`CopyWhole` speaks of a side that has ended, which is long after it took its last unit:
`Taken` says it of the moment at which a side stops receiving, and nothing is received later.
There the amount is known by `Conserved`: where it is fixed, what a side has received, what
is on its way to it and what the other still has in its buffer and to send add
up to it, for the uppercase pair with the answer that is not written yet. It holds while the other side
is not killed, and then that side's end cuts nothing off: it has
nothing left to send (`Stopped`, `Buffers`), and its kernel resets the connection only if units wait
for it, of which there are none for a side that only sends (`OneWay`) or has received the
whole amount. That an end reported by `recv` is one of a side that is over
is `PeersGone`. `LinesKept` counts the lines, whose number is not fixed, and keeps
the one that ends the input last, which is why a server that is not misled has them
all. The framed server counts its own units and needs none of this.

Two specifications are proved about through an instance because their definitions and
variables share names with those of another (`Init`, `TypeOK`, `inbox`, `lost`). What their modules assume of the constants is
therefore a hypothesis of these theorems (`UdpParameters`, `PairParameters`), which
is those modules' ASSUME, word for word, and which TLC evaluates in their runs.

The assumptions are those of the modules: `FdsAssumption` (descriptors are
finitely many positive numbers), `BoundsAssumption`, `TableAssumption` (the table
has an entry), `ListAssumption` (the list's length and the number of lines are numbers),
`FreeAssumption` and `NamesAssumption` (the name of the free mutex is not a client, nor is the operator),
`NobodyAssumption` (the same for a parent that is in `accept`),
`ChunksAssumption` and `NoClientAssumption` (the same for the UDP file server that was not asked yet),
`ListenerAssumption` (the listening descriptor is none of the clients'),
`PiecesAssumption` and `RequestsAssumption` (files have a bounded number of pieces, and
requests are among those the client can make), `ClientsAssumption` (finitely many
clients), `ForkAssumption` (at least one process), `LengthsAssumption` (texts
fit a stream), `LeaversAssumption` and `PortAssumption` (ports are numbers), and for
`TurnTaking` `TurnsAssumption` and its own `ClientsAssumption` (the server is no client).

Every invariant, the action property and both refinements that the passing runs check are
proved. The type invariants of `ThreadedChat`, `BroadcastList`, `UdpFile` and `StreamPair` are
proved only: their runs leave them out for the properties that say more. Only model-checked is liveness (`HandlersAdvance`,
`ClientsFollowServer`, `ListedServed`, `BothEnd`, `LineSent`, `QuitEndsWhenSpokenTo`,
`TransferEnds`, `ClientsServed`, `PairEnds` and `Served`): the prover does not reason about
fairness and ENABLED. Of four of these the half that needs neither is an invariant and proved:
that who waits waits for somebody who can go on (`MutexNotHostage` of `HandlersAdvance`,
`SendsGetThrough` of `LineSent`, `NeverBothWait` of `TransferEnds`, `NobodyWaitsInVain` of
`ClientsServed`). That it does go on, and that all of it ends, is left to the runs. No definition is recursive, so there is no induction over data.

The proofs led to two changes of the model. `Init` of `StreamPair` chose `left` by a CASE
whose arms overlapped, for the side of the framed transfer that sends nothing: TLC takes
the first that holds, but the definition left the choice open, and the proof of the first state
failed. And `Targets` of `UdpServers` was a sequence that was only ever used as a set.

## 6. Not modelled

* Start-up: socket, bind, listen, malloc and pthread_create failures end the
  process before it serves anybody, or in place of serving one more client.
  (The select() server ignores a failed `bind`.)
* Bytes behind a full buffer (`tcp_chat_arbitrary_server.c:105`,
  `Brodcast/Server.c:64`): undefined, but fixed by the stack layout of a build;
  in builds with the documented flags they are padding and zero.
* Text: wording, prompts and logs; what a unit says matters only where the code
  looks at it (quit, markers), and is kept there.
* Lengths. That a line of exactly 31 characters makes the list chat's client leave
  (`tcp_chat_broadcast_client.c:78`) is decided within one loop of one thread.
* Datagrams that are duplicated or, of one sender, reordered: the programs' addresses
  are those of one host or one network.
* The address that the UDP chat's receiving thread writes over the one the other thread
  sends to (`UDP_CHAT/Brodcast/Client.c:19`): nobody but the server sends to a
  client, so it is always the same; the data race is between equal values.
* The file `received.txt` that clients of the UDP file server would share if they were started in one
  directory: each has its own. A `fopen` of the local copy that fails (`TCP_FILE_CLIENT.c:26`)
  ends its client as being killed does.
* `waitpid() < 0` in the multiprocess echo server, which ends it: `ChildrenReaped` says that the
  count is never larger than the children there are, so it does not happen. DieWithError on a
  `recvfrom` or `sendto` of the UDP servers that fails.
* Words other than SEND and RECV as the command of a file transfer: the server asks for them
  too, and then transfers nothing.
* Linux takes the descriptor of `accept` when it is called, the model when a connection has
  come. While nobody is in the queue the two differ by one descriptor, which no property depends on.
* The first half of `tcpFTserver.c` and `tcpFTclient.c`, an earlier version that is
  commented out, and a name of more than 4096 bytes, which ends the server.
* `system_signal_handling_example.c`, which shows `signal()` and talks to nobody,
  `DieWithError.h`, which prints and exits, and the Makefiles.

## 7. Plan

Every invariant is proved, and so is the deadlock-freedom under four of the liveness properties.
What could follow is the rest of what needs no fairness: that each loop comes nearer to its end with
every step (the entries a post has still to reach, the datagrams and seconds a transfer has
left), as action properties, and for `StreamPair` and `UdpServers` that a side that waits has
another to wait for.
