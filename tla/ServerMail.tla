----------------------------- MODULE ServerMail -----------------------------
(***************************************************************************)
(* The mail between clients and servers that the modules of the lock       *)
(* server share.  A server has mailbox 0 for its clients and mailbox 1 for *)
(* the other servers, a client one mailbox for the answers.                *)
(*                                                                         *)
(* No message is lost (-rel 1); the messages of one machine to one mailbox *)
(* arrive in order.                                                        *)
(***************************************************************************)
EXTENDS Integers, Sequences, FiniteSets

CONSTANTS
    NumServers,          \* totalNumServers
    Clients              \* user threads, each with a mailbox of its own

VARIABLE net             \* messages under way or in a mailbox, per sender and mailbox

Servers  == 0 .. NumServers - 1
Machines == Servers \cup Clients
Boxes    == (Servers \X {0, 1}) \cup (Clients \X {0})
Channels == Machines \X Boxes

ASSUME MailAssumption == NumServers \in Nat \ {0} /\ Clients \cap Servers = {}

(* What a machine sends in one go is a function from mailboxes to the
   messages for each, in order; a message names its mailbox in "to".        *)
Nothing == [b \in Boxes |-> <<>>]
Only(x) == [b \in Boxes |-> IF b = x.to THEN <<x>> ELSE <<>>]

(* N after machine m sent mail.                                             *)
Posted(N, m, mail) ==
    [ch \in Channels |-> IF ch[1] = m THEN N[ch] \o mail[ch[2]] ELSE N[ch]]

(* The first message from src in mailbox b is handled by sending mail.      *)
Handle(src, b, mail) ==
    net' = Posted([net EXCEPT ![<<src, b>>] = Tail(@)], b[1], mail)

First(src, b) == Head(net[<<src, b>>])
Arrived(src, b, types) == net[<<src, b>>] # <<>> /\ First(src, b).type \in types
=============================================================================
