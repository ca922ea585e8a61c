---------------------------- MODULE ServerCreate ----------------------------
(***************************************************************************)
(* Creation by name in the replicated lock server: the CREATE requests and *)
(* the questions servers ask one another, of code/network/server.cc, for   *)
(* one kind of object (lock, condition or monitor variable).               *)
(*                                                                         *)
(* A server has two threads.  Box 0 answers a client if it has the object  *)
(* and else passes the request to box 1 of its own machine.  Box 1 asks    *)
(* the other servers and creates the object when all deny it.  A handler   *)
(* changes only what its own thread writes, so each one is one action.     *)
(***************************************************************************)
EXTENDS ServerMail

CONSTANTS
    Names, NoName,
    Mangled,             \* a name that no client uses
    Kind,                \* the kind of object: "Lock", "CV" or "MV"
    MaxObjects,          \* MAX_SERVER_LOCKS, MAX_SERVER_CVS, MAX_SERVER_MV_ARRAYS
    MaxAsks              \* bound: each client's Create calls for each name

Slots == 0 .. MaxObjects - 1

ASSUME ServerAssumption ==
    /\ MaxObjects \in Nat \ {0} /\ MaxAsks \in [Clients -> [Names -> Nat]]
    /\ NoName \notin Names /\ Mangled \notin Names \cup {NoName}
    /\ Kind \in {"Lock", "CV", "MV"}

VARIABLES
    table,         \* serverLockTable (serverConditionTable, serverMVTable): names
    pendingCreates, nextQueryID,
    created,       \* of the PendingCreates that had all denials; they are not freed
    down,          \* servers that crashed
    forgotten,     \* history: clients whose PendingCreate was erased by mistake
    asked,         \* the name each client waits for
    asks,          \* calls it made for each name
    answers        \* history: <<name, index>> pairs it got

serverVars == <<table, pendingCreates, nextQueryID, created, down, forgotten>>
clientVars == <<asked, asks, answers>>
vars == <<serverVars, net, clientVars>>

OtherServers(s) == SelectSeq([i \in 1..NumServers |-> i - 1], LAMBDA r : r # s)

(* The messages of a sequence, by mailbox.                                  *)
ToBoxes(out) == [b \in Boxes |-> SelectSeq(out, LAMBDA x : x.to = b)]

Elements(q) == {q[i] : i \in 1..Len(q)}
Without(q, i) == SubSeq(q, 1, i - 1) \o SubSeq(q, i + 1, Len(q))
Lowest(S) == CHOOSE i \in S : \A j \in S : i <= j

(* Messages name their mailbox; "from" is the header's sender, which a
   server that passes a request on leaves alone.                            *)
Create(b, c, n)      == [to |-> b, type |-> "CREATE", from |-> c, name |-> n]
DoYouHave(r, s, k, n) == [to |-> <<r, 1>>, type |-> "DO_YOU_HAVE", from |-> s, id |-> k, name |-> n]
Have(r, s, k)        == [to |-> <<r, 1>>, type |-> "HAVE", from |-> s, id |-> k]
DoNotHave(r, s, k)   == [to |-> <<r, 1>>, type |-> "DO_NOT_HAVE", from |-> s, id |-> k]
Reply(c, i)          == [to |-> <<c, 0>>, type |-> "REPLY", index |-> i]

Init ==
    /\ table = [s \in Servers |-> [i \in Slots |-> NoName]]
    /\ pendingCreates = [s \in Servers |-> <<>>]
    /\ nextQueryID = [s \in Servers |-> 0]
    /\ created = [s \in Servers |-> {}]
    /\ down = {} /\ forgotten = {}
    /\ net = [ch \in Channels |-> <<>>]
    /\ asked = [c \in Clients |-> NoName]
    /\ asks = [c \in Clients |-> [n \in Names |-> 0]]
    /\ answers = [c \in Clients |-> {}]

-----------------------------------------------------------------------------
(* The system call of a client                                             *)

(* A request to a server picked at random.                                  *)
Ask(c, n, s) ==
    /\ asked[c] = NoName /\ asks[c][n] < MaxAsks[c][n]
    /\ asked' = [asked EXCEPT ![c] = n]
    /\ asks' = [asks EXCEPT ![c][n] = @ + 1]
    /\ net' = Posted(net, c, Only(Create(<<s, 0>>, c, n)))
    /\ UNCHANGED <<serverVars, answers>>

(* The first answer in the mailbox is taken for the answer to the request.  *)
Receive(c, s) ==
    /\ asked[c] # NoName
    /\ Arrived(s, <<c, 0>>, {"REPLY"})
    /\ answers' = [answers EXCEPT ![c] = @ \cup {<<asked[c], First(s, <<c, 0>>).index>>}]
    /\ asked' = [asked EXCEPT ![c] = NoName]
    /\ Handle(s, <<c, 0>>, Nothing)
    /\ UNCHANGED <<serverVars, asks>>

-----------------------------------------------------------------------------
(* Tables                                                                  *)

Has(s, n) == n \in {table[s][i] : i \in Slots}
IndexOf(s, n) == Lowest({i \in Slots : table[s][i] = n})

encodeIndex(s, i) == s * MaxObjects + i

(* ServerCreateLock: the entry with the name or else the lowest free one; -1
   if there is none.                                                        *)
EntryFor(s, n) == IF Has(s, n) THEN IndexOf(s, n)
                  ELSE IF Has(s, NoName) THEN IndexOf(s, NoName) ELSE -1
Entered(s, n) == [table EXCEPT ![s] = [i \in Slots |-> IF i = EntryFor(s, n) THEN n ELSE @[i]]]

-----------------------------------------------------------------------------
(* Server(): the thread of mailbox 0                                       *)

(* CREATE: an answer, or the request passed on to the own mailbox 1.  A
   single server, which has no mailbox 1, creates the object at once.       *)
Box0Create(s, src) ==
    LET m == First(src, <<s, 0>>)
        alone == NumServers = 1
    IN /\ s \notin down
       /\ Arrived(src, <<s, 0>>, {"CREATE"})
       /\ table' = IF alone THEN Entered(s, m.name) ELSE table
       /\ Handle(src, <<s, 0>>,
                 IF alone \/ Has(s, m.name)
                 THEN Only(Reply(m.from, encodeIndex(s, EntryFor(s, m.name))))
                 ELSE Only(Create(<<s, 1>>, m.from, m.name)))
       /\ UNCHANGED <<pendingCreates, nextQueryID, created, down, forgotten, clientVars>>

-----------------------------------------------------------------------------
(* ServerToServerMessageHandler(): the thread of mailbox 1                 *)

PendingFor(s, n) == {i \in 1..Len(pendingCreates[s]) : pendingCreates[s][i].name = n}
PendingWith(s, k) == {i \in 1..Len(pendingCreates[s]) : pendingCreates[s][i].id = k}

(* What the question carries for a name: CREATE_MV copies it from the wrong
   place of the request.                                                    *)
QueriedName(n) == IF Kind = "MV" THEN Mangled ELSE n

(* The request must start a PendingCreate of its own.                       *)
NewPending(s, n) == PendingFor(s, n) = {}

(* CREATE: an answer, one more waiting client, or a PendingCreate and a
   question to every other server.  The PendingCreate takes a query ID and so
   does the QueryStatus that keeps a client's request.                      *)
Box1Create(s, src) ==
    LET m == First(src, <<s, 1>>)
        k == nextQueryID[s]
        others == OtherServers(s)
    IN /\ s \notin down
       /\ Arrived(src, <<s, 1>>, {"CREATE"})
       /\ \/ /\ Has(s, m.name)
             /\ Handle(src, <<s, 1>>, Only(Reply(m.from, encodeIndex(s, IndexOf(s, m.name)))))
             /\ UNCHANGED <<pendingCreates, nextQueryID>>
          \/ /\ ~Has(s, m.name) /\ ~NewPending(s, m.name)
             /\ pendingCreates' =
                   [pendingCreates EXCEPT ![s][Lowest(PendingFor(s, m.name))].waitingClients =
                       Append(@, m.from)]
             /\ nextQueryID' = [nextQueryID EXCEPT ![s] = @ + 1]
             /\ Handle(src, <<s, 1>>, Nothing)
          \/ /\ ~Has(s, m.name) /\ NewPending(s, m.name)
             /\ pendingCreates' =
                   [pendingCreates EXCEPT ![s] = Append(@,
                       [name |-> m.name, id |-> k, responseTracker |-> {s}, numResponses |-> 0,
                        waitingClients |-> <<m.from>>, serverResponseQueue |-> <<>>])]
             /\ nextQueryID' = [nextQueryID EXCEPT ![s] = @ + 2]
             /\ Handle(src, <<s, 1>>,
                       ToBoxes([i \in 1..Len(others) |-> DoYouHave(others[i], s, k, QueriedName(m.name))]))
       /\ UNCHANGED <<table, created, down, forgotten, clientVars>>

(* Deviation: a server that has a create pending denies the object.         *)
DefersNever(s, r, p) == FALSE

(* determineResponseToCreateRequest: r has said it does not have the object,
   or its number is the higher one.                                         *)
Defers(s, r, p) == r \in p.responseTracker \/ s < r

(* DO_YOU_HAVE: yes, no, or an answer when the PendingCreate is settled.    *)
Question(s, src) ==
    LET m == First(src, <<s, 1>>)
        P == PendingFor(s, m.name)
        i == Lowest(P)
    IN /\ s \notin down
       /\ Arrived(src, <<s, 1>>, {"DO_YOU_HAVE"})
       /\ \/ /\ Has(s, m.name)
             /\ Handle(src, <<s, 1>>, Only(Have(m.from, s, m.id)))
             /\ UNCHANGED pendingCreates
          \/ /\ ~Has(s, m.name)
             /\ P # {} => ~Defers(s, m.from, pendingCreates[s][i])
             /\ Handle(src, <<s, 1>>, Only(DoNotHave(m.from, s, m.id)))
             /\ UNCHANGED pendingCreates
          \/ /\ ~Has(s, m.name)
             /\ P # {} /\ Defers(s, m.from, pendingCreates[s][i])
             /\ pendingCreates' = [pendingCreates EXCEPT ![s][i].serverResponseQueue =
                                      Append(@, [replyMachine |-> m.from, replyMessageID |-> m.id])]
             /\ Handle(src, <<s, 1>>, Nothing)
       /\ UNCHANGED <<table, nextQueryID, created, down, forgotten, clientVars>>

(* Deviation: the waiting clients are forgotten.                            *)
ForwardedNone(s, p, r) == <<>>

(* forwardWaitingClientMessagesToServer                                     *)
Forwarded(s, p, r) ==
    [i \in 1..Len(p.waitingClients) |-> Create(<<r, 1>>, p.waitingClients[i], p.name)]

(* HAVE: the waiting clients go to the server that has the object.  The
   servers that wait for an answer are forgotten.  An answer for a create
   that is settled is ignored.                                              *)
Found(s, src) ==
    LET m == First(src, <<s, 1>>)
        P == PendingWith(s, m.id)
        i == Lowest(P)
    IN /\ s \notin down
       /\ Arrived(src, <<s, 1>>, {"HAVE"})
       /\ pendingCreates' = [pendingCreates EXCEPT ![s] = IF P = {} THEN @ ELSE Without(@, i)]
       /\ Handle(src, <<s, 1>>,
                 IF P = {} THEN Nothing ELSE ToBoxes(Forwarded(s, pendingCreates[s][i], m.from)))
       /\ UNCHANGED <<table, nextQueryID, created, down, forgotten, clientVars>>

(* Deviation: only the clients are told of the creation.                     *)
AnnouncedToClients(s, p, index) ==
    [j \in 1..Len(p.waitingClients) |-> Reply(p.waitingClients[j], index)]

(* notifyServersOfCreation, messageBackClients                              *)
Announced(s, p, index) ==
    [j \in 1..Len(p.serverResponseQueue) |->
        Have(p.serverResponseQueue[j].replyMachine, s, p.serverResponseQueue[j].replyMessageID)]
    \o [j \in 1..Len(p.waitingClients) |-> Reply(p.waitingClients[j], index)]

(* p has one denial less than there are other servers.                      *)
Enough(p) == p.numResponses + 1 = NumServers - 1

(* DO_NOT_HAVE: the last one creates the object.                            *)
Denied(s, src) ==
    LET m == First(src, <<s, 1>>)
        i == Lowest(PendingWith(s, m.id))
        p == pendingCreates[s][i]
    IN /\ s \notin down
       /\ Arrived(src, <<s, 1>>, {"DO_NOT_HAVE"})
       /\ PendingWith(s, m.id) # {}
       /\ \/ /\ ~Enough(p)
             /\ pendingCreates' = [pendingCreates EXCEPT ![s][i].numResponses = @ + 1,
                                                         ![s][i].responseTracker = @ \cup {m.from}]
             /\ Handle(src, <<s, 1>>, Nothing)
             /\ UNCHANGED <<table, created>>
          \/ /\ Enough(p)
             /\ pendingCreates' = [pendingCreates EXCEPT ![s] = Without(@, i)]
             /\ table' = Entered(s, p.name)
             /\ created' = [created EXCEPT ![s] = @ \cup
                                {[name |-> p.name, waiting |-> Len(p.waitingClients)]}]
             /\ Handle(src, <<s, 1>>, ToBoxes(Announced(s, p, encodeIndex(s, EntryFor(s, p.name)))))
       /\ UNCHANGED <<nextQueryID, down, forgotten, clientVars>>

(* A message without a type: the handler does what was left in the variable
   "action", which is nothing that another server or a client understands.  *)
Untyped(s) == [to |-> <<s, 1>>, type |-> "UNTYPED"]

(* The tables once object p is created a second time.  The answers to the
   waiting clients were written over the request, so that the name of a lock or
   condition is now what an empty string's memory holds, a name of the table or
   another; that of a monitor variable lies behind them.                    *)
Recreated(s, p) ==
    IF Kind = "MV" THEN {Entered(s, p.name)}
    ELSE {table} \cup (IF Has(s, NoName) THEN {[table EXCEPT ![s][IndexOf(s, NoName)] = Mangled]} ELSE {})

(* p is announced again: the headers of its clients' requests have the server
   itself for their sender by now.  The answers to servers go out again too;
   they are left out, as their creates are settled and Found ignores them.   *)
AnnouncedAgain(s, p) == [j \in 1..p.waiting |-> Untyped(s)]

(* DO_NOT_HAVE for a create that is settled: temp is uninitialised.  It is
   NULL or an older create that lacks denials, and nothing happens; or it
   points nowhere and the server crashes; or it is a create that had all of
   them, which is carried out again, and the entry at the uninitialised
   tempIndex is erased, with the clients that wait in it.                   *)
StrayDenial(s, src) ==
    LET m == First(src, <<s, 1>>)
        q == pendingCreates[s]
    IN /\ s \notin down
       /\ Arrived(src, <<s, 1>>, {"DO_NOT_HAVE"})
       /\ PendingWith(s, m.id) = {}
       /\ \/ /\ down' \in {down, down \cup {s}}
             /\ Handle(src, <<s, 1>>, Nothing)
             /\ UNCHANGED <<table, pendingCreates, forgotten>>
          \/ \E p \in created[s], i \in DOMAIN q :
                /\ table' \in Recreated(s, p)
                /\ pendingCreates' = [pendingCreates EXCEPT ![s] = Without(q, i)]
                /\ forgotten' = forgotten \cup Elements(q[i].waitingClients)
                /\ Handle(src, <<s, 1>>, ToBoxes(AnnouncedAgain(s, p)))
                /\ UNCHANGED down
       /\ UNCHANGED <<nextQueryID, created, clientVars>>

(* A message without a type is dropped.                                     *)
DropUntyped(s, src) ==
    /\ s \notin down
    /\ Arrived(src, <<s, 1>>, {"UNTYPED"})
    /\ Handle(src, <<s, 1>>, Nothing)
    /\ UNCHANGED <<serverVars, clientVars>>

-----------------------------------------------------------------------------
Deliver(s, src) ==
    \/ Box0Create(s, src) \/ Box1Create(s, src) \/ Question(s, src)
    \/ Found(s, src) \/ Denied(s, src) \/ StrayDenial(s, src) \/ DropUntyped(s, src)

Next ==
    \/ \E c \in Clients, n \in Names, s \in Servers : Ask(c, n, s)
    \/ \E c \in Clients, s \in Servers : Receive(c, s)
    \/ \E s \in Servers, src \in Machines : Deliver(s, src)

Spec == Init /\ [][Next]_vars

-----------------------------------------------------------------------------
PendingRecords ==
    [name : Names, id : Nat, responseTracker : SUBSET Servers, numResponses : 0 .. NumServers - 2,
     waitingClients : Seq(Clients), serverResponseQueue : Seq([replyMachine : Servers, replyMessageID : Nat])]

TypeOK ==
    /\ table \in [Servers -> [Slots -> Names \cup {NoName, Mangled}]]
    /\ pendingCreates \in [Servers -> Seq(PendingRecords)]
    /\ nextQueryID \in [Servers -> Nat] /\ down \subseteq Servers
    /\ created \in [Servers -> SUBSET [name : Names, waiting : 1 .. Cardinality(Clients)]]
    /\ DOMAIN net = Channels
    /\ forgotten \subseteq Clients
    /\ asked \in [Clients -> Names \cup {NoName}]
    /\ asks \in [Clients -> [Names -> Nat]]
    /\ \A c \in Clients, n \in Names : asks[c][n] <= MaxAsks[c][n]
    /\ answers \in [Clients -> SUBSET (Names \X Int)]

(* A name denotes one object in the whole system: two servers that are asked
   for it at the same time never both create it, and every index that a
   client got for the name, through however many servers, is that object's. *)
OneObjectPerName ==
    /\ \A n \in Names :
          Cardinality({<<s, i>> \in Servers \X Slots : table[s][i] = n}) <= 1
    /\ \A c \in Clients : \A a \in answers[c] :
          /\ a[2] \in 0 .. NumServers * MaxObjects - 1
          /\ table[a[2] \div MaxObjects][a[2] % MaxObjects] = a[1]

(* Where the request or the answer of a client is: in the mail, or with the
   creates pending.                                                         *)
InMail(c) ==
    UNION {{<<ch, j>> : j \in {i \in DOMAIN net[ch] :
                \/ net[ch][i].type = "CREATE" /\ net[ch][i].from = c
                \/ net[ch][i].type = "REPLY" /\ ch[2] = <<c, 0>>}} : ch \in Channels}
InCreates(c) ==
    UNION {{<<s, x.id, j>> : j \in {k \in DOMAIN x.waitingClients : x.waitingClients[k] = c}}
           : <<s, x>> \in UNION {{s} \X Elements(pendingCreates[s]) : s \in Servers}}

(* A client that waits has one request or answer under way, or is one of those
   forgotten with an erased create; one that does not wait has none: an answer
   left over would be taken for that of the next call, a lost one leaves the
   client waiting for ever.                                                 *)
OneAnswerPerRequest ==
    \A c \in Clients :
        Cardinality(InMail(c)) + Cardinality(InCreates(c)) =
            IF asked[c] = NoName \/ c \in forgotten THEN 0 ELSE 1

(* A server keeps back its answer to the question of p, a create of r.       *)
KeptBack(r, p) ==
    \E s \in Servers : \E x \in Elements(pendingCreates[s]) :
        [replyMachine |-> r, replyMessageID |-> p.id] \in Elements(x.serverResponseQueue)

(* When all mail is read, the creates still pending (and by
   OneAnswerPerRequest the clients still waiting) are only those to which another
   pending create keeps an answer back: there is a circle of deferrals, or
   nobody waits.  In particular those that a server deferred and then forgets,
   as it learns that another has the object, are answered by that one.  An
   erased create takes the answers it kept back with it.                    *)
StuckOnlyInCircles ==
    (\A ch \in Channels : net[ch] = <<>>) /\ forgotten = {} =>
        \A r \in Servers : \A p \in Elements(pendingCreates[r]) : KeptBack(r, p)
=============================================================================
