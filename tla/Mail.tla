-------------------------------- MODULE Mail --------------------------------
(***************************************************************************)
(* The post office (network/post.cc) over the simulated network            *)
(* (machine/network.cc), with the mailboxes of threads/synchlist.cc.       *)
(*                                                                         *)
(* A machine has one network device, driven by two interrupt handlers, a   *)
(* postal worker thread, and threads that send or receive.  Locks are the  *)
(* FIFO locks of NachosSynch: the first of a lock's sequence holds it.     *)
(* An action is what a thread does between two places where interrupts     *)
(* come back on (the ends of the Lock, Condition and Semaphore routines).  *)
(***************************************************************************)
EXTENDS Naturals, Sequences

CONSTANTS
    Machines, Boxes,
    Senders, Receivers,  \* threads that call PostOffice::Send and ::Receive
    Machine,             \* the machine a thread runs on
    BoxOf,               \* the mailbox a receiver reads
    Listening,           \* the machines whose socket exists
    ChanceToWork,        \* chanceToWork, in percent
    MaxSends,            \* bound: messages each sender sends
    NoMail

Places == Machines \X Boxes

ASSUME MailAssumption ==
    /\ Machine \in [Senders \cup Receivers -> Machines]
    /\ BoxOf \in [Receivers -> Boxes]
    /\ Listening \subseteq Machines
    /\ ChanceToWork \in 0 .. 100 /\ MaxSends \in [Senders -> Nat]
    /\ Senders \cap Receivers = {} /\ Receivers \cap Machines = {}

VARIABLES
    pc,                \* [thread or machine (its postal worker) -> where it is]
    sent,              \* messages each sender handed to the network
    out,               \* the message a sender is sending
    hand,              \* what a receiver got from its last Receive
    sendLock,          \* queues of PostOffice::sendLock
    sendInt,           \* NetworkSendDone interrupts scheduled
    messageSent,       \* values of the two semaphores
    messageAvailable,
    wire,              \* the datagram socket of each machine
    inHdr,             \* the one packet the device buffers (length 0: NoMail)
    buffer,            \* the packet in the postal worker's hands
    box, lock, listEmpty  \* each mailbox: SynchList's list, lock, condition

vars == <<pc, sent, out, hand, sendLock, sendInt, messageSent,
          messageAvailable, wire, inHdr, buffer, box, lock, listEmpty>>
sending    == <<sent, out, sendLock, sendInt, messageSent>>
device     == <<wire, inHdr, messageAvailable>>
mailboxes  == <<box, lock, listEmpty>>

Messages == [from : Senders, n : Nat, to : Places]

Init ==
    /\ pc = [t \in Senders \cup Receivers \cup Machines |->
               IF t \in Machines THEN "wait" ELSE "user"]
    /\ sent = [t \in Senders |-> 0]
    /\ out  = [t \in Senders |-> NoMail]
    /\ hand = [r \in Receivers |-> NoMail]
    /\ sendLock = [m \in Machines |-> <<>>]
    /\ sendInt  = [m \in Machines |-> 0]
    /\ messageSent = [m \in Machines |-> 0]
    /\ messageAvailable = [m \in Machines |-> 0]
    /\ wire   = [m \in Machines |-> <<>>]
    /\ inHdr  = [m \in Machines |-> NoMail]
    /\ buffer = [m \in Machines |-> NoMail]
    /\ box = [p \in Places |-> <<>>]
    /\ lock = [p \in Places |-> <<>>]
    /\ listEmpty = [p \in Places |-> <<>>]

-----------------------------------------------------------------------------
(* The datagram sockets (machine/sysdep.cc).  A send to a name that nobody
   has bound fails, which its caller sees and the network does not.         *)

SendToSocket(m, mail) ==
    wire' = IF m \in Listening THEN [wire EXCEPT ![m] = Append(@, mail)] ELSE wire
PollSocket(m) == wire[m] # <<>>
ReadFromSocket(m) ==
    /\ inHdr' = [inHdr EXCEPT ![m] = Head(wire[m])]
    /\ wire' = [wire EXCEPT ![m] = Tail(@)]

-----------------------------------------------------------------------------
At(t, from, to) == pc[t] = from /\ pc' = [pc EXCEPT ![t] = to]
Holds(t, queue) == queue # <<>> /\ Head(queue) = t

-----------------------------------------------------------------------------
(* PostOffice::Send and Network::Send                                       *)

(* Send builds the packet and calls sendLock->Acquire.                      *)
Send(t, place) ==
    /\ sent[t] < MaxSends[t]
    /\ At(t, "user", "acquire")
    /\ out' = [out EXCEPT ![t] = [from |-> t, n |-> sent[t] + 1, to |-> place]]
    /\ sendLock' = [sendLock EXCEPT ![Machine[t]] = Append(@, t)]
    /\ UNCHANGED <<sent, hand, sendInt, messageSent, device, buffer, mailboxes>>

(* Deviation: a lost packet returns before the interrupt is scheduled.      *)
NetworkSendLostFirst(t) ==
    LET m == Machine[t] IN
    /\ At(t, "acquire", "sent")
    /\ Holds(t, sendLock[m])
    /\ sent' = [sent EXCEPT ![t] = @ + 1]
    /\ \/ ChanceToWork < 100 /\ UNCHANGED <<wire, sendInt>>
       \/ /\ ChanceToWork > 0
          /\ sendInt' = [sendInt EXCEPT ![m] = @ + 1]
          /\ SendToSocket(out[t].to[1], out[t])
    /\ UNCHANGED <<out, hand, sendLock, messageSent, inHdr, messageAvailable, buffer, mailboxes>>

(* With the lock held: the completion interrupt is scheduled, then the
   packet is dropped at random or put into the socket of its addressee, if
   there is one.                                                            *)
NetworkSend(t) ==
    LET m == Machine[t] IN
    /\ At(t, "acquire", "sent")
    /\ Holds(t, sendLock[m])
    /\ sent' = [sent EXCEPT ![t] = @ + 1]
    /\ sendInt' = [sendInt EXCEPT ![m] = @ + 1]
    /\ \/ ChanceToWork < 100 /\ UNCHANGED wire
       \/ /\ ChanceToWork > 0
          /\ SendToSocket(out[t].to[1], out[t])
    /\ UNCHANGED <<out, hand, sendLock, messageSent, inHdr, messageAvailable, buffer, mailboxes>>

(* messageSent->P()                                                         *)
MessageSentP(t) ==
    LET m == Machine[t] IN
    /\ messageSent[m] > 0
    /\ At(t, "sent", "release")
    /\ messageSent' = [messageSent EXCEPT ![m] = @ - 1]
    /\ UNCHANGED <<sent, out, hand, sendLock, sendInt, device, buffer, mailboxes>>

(* sendLock->Release(), and Send returns.                                   *)
SendReturn(t) ==
    /\ At(t, "release", "user")
    /\ out' = [out EXCEPT ![t] = NoMail]
    /\ sendLock' = [sendLock EXCEPT ![Machine[t]] = Tail(@)]
    /\ UNCHANGED <<sent, hand, sendInt, messageSent, device, buffer, mailboxes>>

-----------------------------------------------------------------------------
(* Interrupt handlers                                                       *)

PacketSent(m) == messageSent' = [messageSent EXCEPT ![m] = @ + 1]

SendDone(m) ==
    /\ sendInt[m] > 0
    /\ sendInt' = [sendInt EXCEPT ![m] = @ - 1]
    /\ PacketSent(m)
    /\ UNCHANGED <<pc, sent, out, hand, sendLock, device, buffer, mailboxes>>

IncomingPacket(m) == messageAvailable' = [messageAvailable EXCEPT ![m] = @ + 1]

(* Deviation: a packet is read although one is buffered.                    *)
CheckPktAvailAlways(m) ==
    /\ PollSocket(m)
    /\ ReadFromSocket(m)
    /\ IncomingPacket(m)
    /\ UNCHANGED <<pc, sending, hand, buffer, mailboxes>>

(* Network::CheckPktAvail.  The poll that finds a packet buffered, or none
   in the socket, changes nothing.                                          *)
CheckPktAvail(m) ==
    /\ inHdr[m] = NoMail
    /\ PollSocket(m)
    /\ ReadFromSocket(m)
    /\ IncomingPacket(m)
    /\ UNCHANGED <<pc, sending, hand, buffer, mailboxes>>

-----------------------------------------------------------------------------
(* PostOffice::PostalDelivery, the loop of the postal worker                *)

(* messageAvailable->P()                                                    *)
MessageAvailableP(m) ==
    /\ messageAvailable[m] > 0
    /\ At(m, "wait", "receive")
    /\ messageAvailable' = [messageAvailable EXCEPT ![m] = @ - 1]
    /\ UNCHANGED <<sending, hand, wire, inHdr, buffer, mailboxes>>

(* Network::Receive empties the device's buffer; Put starts with the
   Acquire of the mailbox.                                                  *)
NetworkReceive(m) ==
    LET p == inHdr[m].to IN
    /\ inHdr[m] # NoMail
    /\ At(m, "receive", "put")
    /\ buffer' = [buffer EXCEPT ![m] = inHdr[m]]
    /\ inHdr' = [inHdr EXCEPT ![m] = NoMail]
    /\ lock' = [lock EXCEPT ![p] = Append(@, m)]
    /\ UNCHANGED <<sending, hand, wire, messageAvailable, box, listEmpty>>

(* Deviation: the message is appended and nobody is signalled.              *)
PutNoSignal(m) ==
    LET p == buffer[m].to IN
    /\ At(m, "put", "putRelease")
    /\ Holds(m, lock[p])
    /\ box' = [box EXCEPT ![p] = Append(@, buffer[m])]
    /\ UNCHANGED <<sending, hand, device, buffer, lock, listEmpty>>

(* SynchList::Append: the message goes to the end of the list; Signal moves
   the first waiter to the queue of the lock.                               *)
Put(m) ==
    LET p == buffer[m].to
        woken == SubSeq(listEmpty[p], 1, IF listEmpty[p] = <<>> THEN 0 ELSE 1) IN
    /\ At(m, "put", "putRelease")
    /\ Holds(m, lock[p])
    /\ box' = [box EXCEPT ![p] = Append(@, buffer[m])]
    /\ lock' = [lock EXCEPT ![p] = @ \o woken]
    /\ listEmpty' = [listEmpty EXCEPT ![p] = SubSeq(@, Len(woken) + 1, Len(@))]
    /\ UNCHANGED <<sending, hand, device, buffer>>

PutRelease(m) ==
    LET p == buffer[m].to IN
    /\ At(m, "putRelease", "wait")
    /\ lock' = [lock EXCEPT ![p] = Tail(@)]
    /\ buffer' = [buffer EXCEPT ![m] = NoMail]
    /\ UNCHANGED <<sending, hand, device, box, listEmpty>>

-----------------------------------------------------------------------------
(* PostOffice::Receive, MailBox::Get, SynchList::Remove                     *)

PlaceOf(r) == <<Machine[r], BoxOf[r]>>

Receive(r) ==
    /\ At(r, "user", "remove")
    /\ lock' = [lock EXCEPT ![PlaceOf(r)] = Append(@, r)]
    /\ UNCHANGED <<sending, hand, device, buffer, box, listEmpty>>

(* The loop around Wait: the list is tested with the lock held.             *)
RemoveWait(r) ==
    LET p == PlaceOf(r) IN
    /\ pc[r] = "remove" /\ Holds(r, lock[p])
    /\ box[p] = <<>>
    /\ lock' = [lock EXCEPT ![p] = Tail(@)]
    /\ listEmpty' = [listEmpty EXCEPT ![p] = Append(@, r)]
    /\ UNCHANGED <<pc, sending, hand, device, buffer, box>>

RemoveItem(r) ==
    LET p == PlaceOf(r) IN
    /\ At(r, "remove", "getRelease")
    /\ Holds(r, lock[p])
    /\ box[p] # <<>>
    /\ hand' = [hand EXCEPT ![r] = Head(box[p])]
    /\ box' = [box EXCEPT ![p] = Tail(@)]
    /\ UNCHANGED <<sending, device, buffer, lock, listEmpty>>

ReceiveReturn(r) ==
    /\ At(r, "getRelease", "user")
    /\ lock' = [lock EXCEPT ![PlaceOf(r)] = Tail(@)]
    /\ UNCHANGED <<sending, hand, device, buffer, box, listEmpty>>

-----------------------------------------------------------------------------
SendSteps(t) == NetworkSend(t) \/ MessageSentP(t) \/ SendReturn(t)
ReceiveSteps(r) == Receive(r) \/ RemoveWait(r) \/ RemoveItem(r) \/ ReceiveReturn(r)
WorkerSteps(m) == MessageAvailableP(m) \/ NetworkReceive(m) \/ Put(m) \/ PutRelease(m)

Next ==
    \/ \E t \in Senders : SendSteps(t) \/ \E place \in Places : Send(t, place)
    \/ \E r \in Receivers : ReceiveSteps(r)
    \/ \E m \in Machines : SendDone(m) \/ CheckPktAvail(m) \/ WorkerSteps(m)

Spec == Init /\ [][Next]_vars

(* The scheduler runs every ready thread again and again (NachosSynch), the
   machine delivers every scheduled interrupt, and CheckPktAvail schedules
   itself again each time.  Receivers loop, as both threads of a server do.
   Nobody is made to send.                                                  *)
Fairness ==
    /\ \A t \in Senders : WF_vars(SendSteps(t))
    /\ \A r \in Receivers : WF_vars(ReceiveSteps(r))
    /\ \A m \in Machines : /\ WF_vars(SendDone(m))
                           /\ WF_vars(CheckPktAvail(m))
                           /\ WF_vars(WorkerSteps(m))

FairSpec == Spec /\ Fairness

-----------------------------------------------------------------------------
(* Properties                                                               *)

TypeOK ==
    /\ pc \in [Senders \cup Receivers \cup Machines ->
                 {"user", "acquire", "sent", "release", "remove", "getRelease",
                  "wait", "receive", "put", "putRelease"}]
    /\ sent \in [Senders -> Nat]
    /\ out \in [Senders -> Messages \cup {NoMail}]
    /\ hand \in [Receivers -> Messages \cup {NoMail}]
    /\ {sendInt, messageSent, messageAvailable} \subseteq [Machines -> Nat]
    /\ {inHdr, buffer} \subseteq [Machines -> Messages \cup {NoMail}]
    /\ sendLock \in [Machines -> Seq(Senders)]
    /\ wire \in [Machines -> Seq(Messages)]
    /\ box \in [Places -> Seq(Messages)]
    /\ lock \in [Places -> Seq(Receivers \cup Machines)]
    /\ listEmpty \in [Places -> Seq(Receivers)]

(* All mail for a place, oldest first.                                      *)
One(mail) == IF mail = NoMail THEN <<>> ELSE <<mail>>
Undelivered(m) ==
    (IF pc[m] = "put" THEN One(buffer[m]) ELSE <<>>) \o One(inHdr[m]) \o wire[m]
Pending(m, place) ==
    SelectSeq(box[place] \o Undelivered(place[1]),
              LAMBDA mail : Machine[mail.from] = m /\ mail.to = place)

Channel == INSTANCE MailChannel WITH
    chan <- [c \in Machines \X Places |-> Pending(c[1], c[2])]

(* The post office implements the channels that the lock server assumes: in
   order per machine and mailbox, nothing twice, nothing lost once the
   network accepted it, and a receiver gets what was sent to its mailbox.   *)
ImplementsChannel == Channel!Spec

(* A call of PostOffice::Send returns, also when the packet is lost or the
   addressee is not there (its callers send again or give up).              *)
SendReturns == \A t \in Senders : pc[t] = "acquire" ~> pc[t] = "user"

(* A packet that got into a socket is read, if anybody reads its mailbox.   *)
IsMail(mail, t, n) == mail # NoMail /\ mail.from = t /\ mail.n = n
OnTheWire(t, n) ==
    \E r \in Receivers : \E i \in DOMAIN wire[Machine[r]] :
        /\ IsMail(wire[Machine[r]][i], t, n)
        /\ wire[Machine[r]][i].to = PlaceOf(r)
EveryMailRead ==
    \A t \in Senders : \A n \in 1 .. MaxSends[t] :
        OnTheWire(t, n) ~> \E r \in Receivers : IsMail(hand[r], t, n)
=============================================================================
