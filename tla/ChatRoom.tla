------------------------------ MODULE ChatRoom ------------------------------
(***************************************************************************)
(* What a broadcast chat server promises.  The room has members.  A client *)
(* whose connection the server holds may post; a post is one atomic event  *)
(* that puts the text at the end of the inbox of every member other than   *)
(* its author.  Nobody joins, leaves or posts before the post at hand is   *)
(* finished.  If the server crashes in the middle of a post, some of the   *)
(* addressees miss that post, and nothing else is lost.  A room may lose   *)
(* seats, but never one that is taken.                                     *)
(***************************************************************************)
EXTENDS Naturals, FiniteSets, Sequences

CONSTANTS
    Clients,      \* the clients, each of which enters the room at most once
    Capacity,     \* how many members the room has at most
    PostMax       \* units of one post at most

VARIABLES
    open,      \* the server runs
    entered,   \* clients that have come in (and may have left)
    members,   \* clients that get the posts of the others
    seats,     \* how many members there can be
    posted,    \* how many units of its text each client has posted
    post,      \* the post being delivered, or NoPost
    inbox      \* what each client has been sent

roomVars == <<open, entered, members, seats, posted, post, inbox>>

NoPost == [ms |-> <<>>, to |-> {}]

Init ==
    /\ open = TRUE
    /\ entered = {}
    /\ members = {}
    /\ seats = Capacity
    /\ posted = [c \in Clients |-> 0]
    /\ post = NoPost
    /\ inbox = [c \in Clients |-> <<>>]

\* A full room lets a client in without making it a member.
Enter(c) ==
    /\ open /\ post = NoPost
    /\ c \notin entered
    /\ entered' = entered \union {c}
    /\ members' = IF Cardinality(members) < seats THEN members \union {c} ELSE members
    /\ UNCHANGED <<open, seats, posted, post, inbox>>

\* The next n units of c's text, in order.
Text(c, n) == [i \in 1 .. n |-> <<c, posted[c] + i>>]

Post(c) ==
    /\ open /\ post = NoPost
    /\ c \in entered
    /\ \E n \in 1 .. PostMax :
         LET to == members \ {c} IN
         /\ post' = [ms |-> Text(c, n), to |-> to]
         /\ inbox' = [d \in Clients |-> IF d \in to THEN inbox[d] \o Text(c, n) ELSE inbox[d]]
         /\ posted' = [posted EXCEPT ![c] = @ + n]
    /\ UNCHANGED <<open, entered, members, seats>>

EndPost ==
    /\ open /\ post # NoPost
    /\ post' = NoPost
    /\ UNCHANGED <<open, entered, members, seats, posted, inbox>>

Leave(c) ==
    /\ open /\ post = NoPost
    /\ c \in members
    /\ members' = members \ {c}
    /\ UNCHANGED <<open, entered, seats, posted, post, inbox>>

LoseSeat ==
    /\ open /\ post = NoPost
    /\ Cardinality(members) < seats
    /\ seats' = seats - 1
    /\ UNCHANGED <<open, entered, members, posted, post, inbox>>

\* The addressees in missed do not get the post that was being delivered.
Crash ==
    /\ open
    /\ open' = FALSE
    /\ \E missed \in SUBSET post.to :
         inbox' = [d \in Clients |->
                     IF d \in missed
                     THEN SubSeq(inbox[d], 1, Len(inbox[d]) - Len(post.ms))
                     ELSE inbox[d]]
    /\ post' = NoPost
    /\ UNCHANGED <<entered, members, seats, posted>>

Next ==
    \/ \E c \in Clients : Enter(c) \/ Post(c) \/ Leave(c)
    \/ EndPost
    \/ LoseSeat
    \/ Crash

Spec == Init /\ [][Next]_roomVars
=============================================================================
