---------------------------- MODULE MailChannel ----------------------------
(***************************************************************************)
(* What the lock server and its clients rely on when they use the post     *)
(* office (see ServerMail): between each machine and each mailbox there is *)
(* a channel that keeps order and neither repeats nor invents a message.   *)
(* A message is lost only while it is being sent.                          *)
(***************************************************************************)
EXTENDS Naturals, Sequences

CONSTANTS
    Machines, Boxes,
    Senders, Receivers,  \* threads that call PostOffice::Send and ::Receive
    Machine,             \* the machine a thread runs on
    BoxOf,               \* the mailbox a receiver reads
    MaxSends,            \* bound: messages each sender sends
    NoMail

VARIABLES
    chan,   \* messages under way or in the mailbox, per machine and mailbox
    sent,   \* the number of messages each sender has handed to the network
    hand    \* what each receiver got from its last Receive

Places   == Machines \X Boxes
Channels == Machines \X Places
Messages == [from : Senders, n : Nat, to : Places]

Init ==
    /\ chan = [c \in Channels |-> <<>>]
    /\ sent = [t \in Senders |-> 0]
    /\ hand = [r \in Receivers |-> NoMail]

Send(t, place) ==
    LET mail == [from |-> t, n |-> sent[t] + 1, to |-> place] IN
    /\ sent[t] < MaxSends[t]
    /\ sent' = [sent EXCEPT ![t] = @ + 1]
    /\ \/ chan' = [chan EXCEPT ![<<Machine[t], place>>] = Append(@, mail)]
       \/ UNCHANGED chan
    /\ UNCHANGED hand

Receive(r, m) ==
    LET c == <<m, <<Machine[r], BoxOf[r]>>>> IN
    /\ chan[c] # <<>>
    /\ hand' = [hand EXCEPT ![r] = Head(chan[c])]
    /\ chan' = [chan EXCEPT ![c] = Tail(@)]
    /\ UNCHANGED sent

Next ==
    \/ \E t \in Senders, place \in Places : Send(t, place)
    \/ \E r \in Receivers, m \in Machines : Receive(r, m)

Spec == Init /\ [][Next]_<<chan, sent, hand>>
=============================================================================
