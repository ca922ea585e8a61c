-------------------------- MODULE ServerUseProofs --------------------------
(***************************************************************************)
(* Mutual exclusion in the replicated lock server, and what it rests on:   *)
(* the request of a client is in one place, whichever servers it travels   *)
(* through, and what is found there is what the client waits for.  Then,   *)
(* that the servers give up a query only if its object is gone, or is the  *)
(* first one of its server.                                                *)
(*                                                                         *)
(* For any numbers of servers, clients, locks, conditions and variables    *)
(* and any programs.                                                       *)
(***************************************************************************)
EXTENDS ServerUse, FiniteSetTheorems, SequenceTheorems, WellFoundedInduction, TLAPS

-----------------------------------------------------------------------------
(* Messages                                                                *)

(* What a request may carry, whoever is to handle it.                       *)
Contents == {x \in [op : Ops, obj : Numbers, arg : Nat] :
                x.obj \in Existing(KindOf(x.op)) /\ x.arg \in Args(x.op)}

Requests  == [to : Boxes, type : Ops, from : Machines, obj : Numbers, arg : Nat]
Answers   == [to : Boxes, type : {"REPLY"}, value : Int]
Doubts    == [to : Boxes, type : {"DOES_CLIENT_HAVE_LOCK"}, from : Servers, client : Clients, lockNum : LockNums]
Verdicts  == [to : Boxes, type : {"CV_LOCK_TRACKER_RESPONSE"}, client : Clients, lockNum : LockNums, held : BOOLEAN]
Questions == [to : Boxes, type : {"DO_YOU_HAVE"}, from : Servers, id : Nat, kind : {"lock", "cv", "mv"}, obj : Numbers]
Findings  == [to : Boxes, type : {"HAVE", "DO_NOT_HAVE"}, from : Servers, id : Nat]
Messages  == Requests \cup Answers \cup Doubts \cup Verdicts \cup Questions \cup Findings

Queries == [id : Nat, numResponsesReceived : Nat, data : Requests]

(* The request of a client that waits is what the client waits for.         *)
Asks(c, op, k, a) == call[c] = [op |-> op, obj |-> k, arg |-> a]

(* A request in mailbox b.  Of the servers' own only Wait's RELEASE exists,
   and it goes straight to the server of the lock.                          *)
GoodRequest(x, b) ==
    /\ x.obj \in Existing(KindOf(x.type)) /\ x.arg \in Args(x.type)
    /\ x.from \in Clients /\ x.type # "DESTROY_MV" => Asks(x.from, x.type, x.obj, x.arg)
    /\ x.from \notin Clients => x.type = "RELEASE" /\ Mine(b[1], x.obj) /\ b[2] = 0

(* Server s has put an operation of client c with lock l off.               *)
PutOff(s, c, l) ==
    \E i \in DOMAIN cvLockTrackerList[s] :
        cvLockTrackerList[s][i].client = c /\ cvLockTrackerList[s][i].lockNum = l

Owns(c, l) == lock[l].live /\ lock[l].owner = c

GoodMessage(x, b) ==
    /\ x.to = b
    /\ x.type \in Ops => b[1] \in Servers /\ GoodRequest(x, b)
    /\ x.type = "DOES_CLIENT_HAVE_LOCK" => b = <<x.lockNum \div MaxObjects, 0>> /\ PutOff(x.from, x.client, x.lockNum)
    /\ x.type = "CV_LOCK_TRACKER_RESPONSE" => b[1] \in Servers /\ b[2] = 0 /\ PutOff(b[1], x.client, x.lockNum)
    /\ x.type \in {"DO_YOU_HAVE", "HAVE", "DO_NOT_HAVE"} => b[1] \in Servers /\ b[2] = 1
    /\ x.type = "REPLY" /\ b[1] \in Clients /\ call[b[1]].op = "ACQUIRE" => Owns(b[1], call[b[1]].obj)

GoodMail == \A ch \in Channels : \A i \in DOMAIN net[ch] : GoodMessage(net[ch][i], ch[2])

GoodQueries ==
    \A s \in Servers : \A i \in DOMAIN queryQueue[s] :
        /\ queryQueue[s][i].data.from \in Clients
        /\ GoodRequest(queryQueue[s][i].data, <<s, 1>>)

GoodTrackers ==
    \A s \in Servers : \A i \in DOMAIN cvLockTrackerList[s] :
        LET e == cvLockTrackerList[s][i] IN
        Asks(e.client, e.op, e.cvNum, e.lockNum) /\ ~Mine(s, e.lockNum)

GoodQueues ==
    /\ \A l \in LockNums : \A i \in DOMAIN lock[l].queue :
          call[lock[l].queue[i]].op = "ACQUIRE" /\ call[lock[l].queue[i]].obj = l
    /\ \A k \in CVNums : \A i \in DOMAIN cond[k].queue :
          call[cond[k].queue[i]].op = "WAIT" /\ call[cond[k].queue[i]].obj = k

-----------------------------------------------------------------------------
(* Where the request of a client is                                        *)

Single(q, T) == \A i, j \in DOMAIN q : q[i] \in T /\ q[j] \in T => i = j
Hit(q, T)    == \E i \in DOMAIN q : q[i] \in T

MailOf(c)  == {x \in Messages : IsAbout(x, c)}
QueryOf(c) == {x \in Queries : IsAbout(x.data, c)}
TrackerOf(c) == {x \in Trackers : x.client = c}
DoubtOf(c) == {x \in Messages : x.type \in {"DOES_CLIENT_HAVE_LOCK", "CV_LOCK_TRACKER_RESPONSE"} /\ x.client = c}

(* The places that hold something of client c: channels, servers that ask
   the others, servers that put an operation off, locks, conditions.        *)
NetAt(c)      == {ch \in Channels : Hit(net[ch], MailOf(c))}
AskedAt(c)    == {s \in Servers : Hit(queryQueue[s], QueryOf(c))}
DeferredAt(c) == {s \in Servers : Hit(cvLockTrackerList[s], TrackerOf(c))}
QueuedAt(c)   == {l \in LockNums : Hit(lock[l].queue, {c})}
AsleepAt(c)   == {k \in CVNums : Hit(cond[k].queue, {c})}

Tagged(A, B, C, D, E) ==
    {<<"net", x>> : x \in A} \cup {<<"query", x>> : x \in B} \cup {<<"tracker", x>> : x \in C}
    \cup {<<"lock", x>> : x \in D} \cup {<<"cv", x>> : x \in E}
Occupied(c) == Tagged(NetAt(c), AskedAt(c), DeferredAt(c), QueuedAt(c), AsleepAt(c))

OnceEach(c) ==
    /\ \A ch \in Channels : Single(net[ch], MailOf(c))
    /\ \A s \in Servers : Single(queryQueue[s], QueryOf(c)) /\ Single(cvLockTrackerList[s], TrackerOf(c))
    /\ \A l \in LockNums : Single(lock[l].queue, {c})
    /\ \A k \in CVNums : Single(cond[k].queue, {c})

OnePlace(c) ==
    /\ OnceEach(c)
    /\ \A p, q \in Occupied(c) : p = q
    /\ call[c] = Idle => Occupied(c) = {}

(* A server asks about a client's lock once at a time.                      *)
OneDoubt(c) ==
    /\ \A ch \in Channels : Single(net[ch], DoubtOf(c))
    /\ \A ch, dh \in Channels : Hit(net[ch], DoubtOf(c)) /\ Hit(net[dh], DoubtOf(c)) => ch = dh

-----------------------------------------------------------------------------
(* Who owns a lock                                                         *)

Ownership ==
    /\ \A c \in Clients : \A l \in holds[c] : Owns(c, l) /\ <<"lock", l>> \notin retired
    /\ \A c \in Clients : /\ call[c].op = "RELEASE" => call[c].obj \notin holds[c]
                          /\ call[c].op = "WAIT" => call[c].arg \notin holds[c]

Retirement ==
    /\ \A l \in LockNums : ~lock[l].live \/ lock[l].isToBeDeleted => <<"lock", l>> \in retired
    /\ \A c \in Clients :
          /\ call[c].op \in {"ACQUIRE", "RELEASE"} => <<"lock", call[c].obj>> \notin retired
          /\ call[c].op = "WAIT" => <<"lock", call[c].arg>> \notin retired
          /\ call[c].op = "DESTROY_LOCK" => <<"lock", call[c].obj>> \in retired

StateOK ==
    /\ TypeOK
    /\ net \in [Channels -> Seq(Messages)]
    /\ queryQueue \in [Servers -> Seq(Queries)]
    /\ call \in [Clients -> {Idle} \cup Contents]
    /\ \A c \in Clients : call[c].op # "DESTROY_MV"
    /\ \A l \in LockNums : lock[l].owner \in Clients \cup {NoOne}

Inv ==
    /\ StateOK
    /\ GoodMail /\ GoodQueries /\ GoodTrackers /\ GoodQueues
    /\ \A c \in Clients : OnePlace(c) /\ OneDoubt(c)
    /\ Ownership /\ Retirement
    /\ SleepersGaveUpLock

-----------------------------------------------------------------------------
(* Sequences and what is in them                                           *)

(* The lowest number of a nonempty set is one of its numbers.               *)
LEMMA LowestIn ==
    ASSUME NEW S \in SUBSET Nat, S # {}
    PROVE  Lowest(S) \in S /\ \A m \in S : Lowest(S) <= m
<1> DEFINE R == OpToRel(<, Nat)
<1>1. IsWellFoundedOn(R, Nat)
  BY NatLessThanWellFounded
<1>2. \A m, n \in Nat : m < n => <<m, n>> \in R
  BY DEF OpToRel
<1> HIDE DEF R
<1>3. PICK n \in S : \A m \in S : ~ (<<m, n>> \in R)
  BY <1>1, WFMin
<1>4. \A m \in S : m \in Nat /\ n \in Nat /\ ~ (m < n)
  BY <1>2, <1>3
<1>5. \A m \in S : n <= m
  BY <1>4
<1> QED BY <1>5 DEF Lowest

(* The first element leaves: what else is there stays.                      *)
LEMMA TailKeeps ==
    ASSUME NEW X, NEW q \in Seq(X), q # <<>>, NEW T, Single(q, T)
    PROVE  /\ Tail(q) \in Seq(X)
           /\ Single(Tail(q), T)
           /\ Hit(Tail(q), T) <=> (Hit(q, T) /\ Head(q) \notin T)
<1>1. /\ Tail(q) \in Seq(X) /\ Len(Tail(q)) = Len(q) - 1
      /\ \A i \in 1 .. Len(Tail(q)) : Tail(q)[i] = q[i + 1]
      /\ Head(q) = q[1] /\ Len(q) \in Nat \ {0}
  BY HeadTailProperties, EmptySeq
<1>2. DOMAIN q = 1 .. Len(q) /\ DOMAIN Tail(q) = 1 .. Len(q) - 1
  BY <1>1
<1>3. Single(Tail(q), T)
  <2> SUFFICES ASSUME NEW i \in 1 .. Len(q) - 1, NEW j \in 1 .. Len(q) - 1,
                      q[i + 1] \in T, q[j + 1] \in T
               PROVE  i = j
    BY <1>1, <1>2 DEF Single
  <2>1. i + 1 \in 1 .. Len(q) /\ j + 1 \in 1 .. Len(q)
    BY <1>1
  <2> QED BY <1>2, <2>1 DEF Single
<1>4. ASSUME Hit(Tail(q), T) PROVE Hit(q, T) /\ Head(q) \notin T
  <2>1. PICK i \in 1 .. Len(q) - 1 : q[i + 1] \in T
    BY <1>1, <1>2, <1>4 DEF Hit
  <2>2. i + 1 \in 1 .. Len(q) /\ 1 \in 1 .. Len(q) /\ i + 1 # 1
    BY <1>1
  <2> QED BY <1>1, <1>2, <2>1, <2>2 DEF Hit, Single
<1>5. ASSUME Hit(q, T), Head(q) \notin T PROVE Hit(Tail(q), T)
  <2>1. PICK i \in 1 .. Len(q) : q[i] \in T /\ i # 1
    BY <1>1, <1>2, <1>5 DEF Hit
  <2>2. i - 1 \in 1 .. Len(q) - 1 /\ (i - 1) + 1 = i
    BY <1>1, <2>1
  <2> QED BY <1>1, <1>2, <2>1, <2>2 DEF Hit
<1> QED BY <1>1, <1>3, <1>4, <1>5

(* Two sequences one after the other.                                       *)
LEMMA ConcatKeeps ==
    ASSUME NEW X, NEW q \in Seq(X), NEW r \in Seq(X), NEW T
    PROVE  /\ q \o r \in Seq(X)
           /\ Hit(q \o r, T) <=> (Hit(q, T) \/ Hit(r, T))
           /\ Single(q, T) /\ Single(r, T) /\ ~(Hit(q, T) /\ Hit(r, T)) => Single(q \o r, T)
<1>1. /\ q \o r \in Seq(X) /\ Len(q \o r) = Len(q) + Len(r)
      /\ \A i \in 1 .. Len(q) + Len(r) :
            (q \o r)[i] = IF i <= Len(q) THEN q[i] ELSE r[i - Len(q)]
      /\ Len(q) \in Nat /\ Len(r) \in Nat
      /\ DOMAIN q = 1 .. Len(q) /\ DOMAIN r = 1 .. Len(r) /\ DOMAIN (q \o r) = 1 .. Len(q) + Len(r)
  BY ConcatProperties
<1>2. ASSUME Hit(q \o r, T) PROVE Hit(q, T) \/ Hit(r, T)
  <2>1. PICK i \in 1 .. Len(q) + Len(r) : (q \o r)[i] \in T
    BY <1>1, <1>2 DEF Hit
  <2>2. i \in 1 .. Len(q) \/ (i - Len(q) \in 1 .. Len(r) /\ ~(i <= Len(q)))
    BY <1>1
  <2> QED BY <1>1, <2>1, <2>2 DEF Hit
<1>3. ASSUME Hit(q, T) PROVE Hit(q \o r, T)
  <2>1. PICK i \in 1 .. Len(q) : q[i] \in T
    BY <1>1, <1>3 DEF Hit
  <2>2. i \in 1 .. Len(q) + Len(r) /\ i <= Len(q)
    BY <1>1
  <2> QED BY <1>1, <2>1, <2>2 DEF Hit
<1>4. ASSUME Hit(r, T) PROVE Hit(q \o r, T)
  <2>1. PICK i \in 1 .. Len(r) : r[i] \in T
    BY <1>1, <1>4 DEF Hit
  <2>2. i + Len(q) \in 1 .. Len(q) + Len(r) /\ ~(i + Len(q) <= Len(q)) /\ (i + Len(q)) - Len(q) = i
    BY <1>1
  <2> QED BY <1>1, <2>1, <2>2 DEF Hit
<1>5. ASSUME Single(q, T), Single(r, T), ~(Hit(q, T) /\ Hit(r, T)) PROVE Single(q \o r, T)
  <2> SUFFICES ASSUME NEW i \in 1 .. Len(q) + Len(r), NEW j \in 1 .. Len(q) + Len(r),
                      (q \o r)[i] \in T, (q \o r)[j] \in T
               PROVE  i = j
    BY <1>1 DEF Single
  <2>1. /\ i \in 1 .. Len(q) \/ (i - Len(q) \in 1 .. Len(r) /\ ~(i <= Len(q)))
        /\ j \in 1 .. Len(q) \/ (j - Len(q) \in 1 .. Len(r) /\ ~(j <= Len(q)))
    BY <1>1
  <2>2. CASE i \in 1 .. Len(q)
    <3>1. q[i] \in T /\ Hit(q, T) /\ ~Hit(r, T)
      BY <1>1, <1>5, <2>2 DEF Hit
    <3>2. j \in 1 .. Len(q)
      BY <1>1, <2>1, <3>1 DEF Hit
    <3> QED BY <1>1, <1>5, <2>2, <3>1, <3>2 DEF Single
  <2>3. CASE i - Len(q) \in 1 .. Len(r) /\ ~(i <= Len(q))
    <3>1. r[i - Len(q)] \in T /\ Hit(r, T) /\ ~Hit(q, T)
      BY <1>1, <1>5, <2>3 DEF Hit
    <3>2. j - Len(q) \in 1 .. Len(r) /\ ~(j <= Len(q))
      BY <1>1, <2>1, <3>1 DEF Hit
    <3>3. i - Len(q) = j - Len(q)
      BY <1>1, <1>5, <2>3, <3>1, <3>2 DEF Single
    <3> QED BY <1>1, <2>3, <3>2, <3>3
  <2> QED BY <2>1, <2>2, <2>3
<1> QED BY <1>1, <1>2, <1>3, <1>4, <1>5

(* One more at the end.                                                     *)
LEMMA AppendKeeps ==
    ASSUME NEW X, NEW q \in Seq(X), NEW x \in X, NEW T
    PROVE  /\ Append(q, x) \in Seq(X)
           /\ Hit(Append(q, x), T) <=> (Hit(q, T) \/ x \in T)
           /\ Single(q, T) /\ ~(Hit(q, T) /\ x \in T) => Single(Append(q, x), T)
<1>1. <<x>> \in Seq(X) /\ Append(q, x) = q \o <<x>>
  BY AppendIsConcat
<1>2. Single(<<x>>, T) /\ (Hit(<<x>>, T) <=> x \in T)
  BY DEF Single, Hit
<1>3. /\ q \o <<x>> \in Seq(X)
      /\ Hit(q \o <<x>>, T) <=> (Hit(q, T) \/ Hit(<<x>>, T))
      /\ Single(q, T) /\ Single(<<x>>, T) /\ ~(Hit(q, T) /\ Hit(<<x>>, T)) => Single(q \o <<x>>, T)
  BY <1>1, ConcatKeeps
<1> QED BY <1>1, <1>2, <1>3

(* The i-th is taken out.                                                   *)
LEMMA WithoutKeeps ==
    ASSUME NEW X, NEW q \in Seq(X), NEW i \in 1 .. Len(q), NEW T, Single(q, T)
    PROVE  /\ Without(q, i) \in Seq(X)
           /\ Len(Without(q, i)) = Len(q) - 1
           /\ \A j \in 1 .. Len(q) - 1 : Without(q, i)[j] = IF j < i THEN q[j] ELSE q[j + 1]
           /\ Single(Without(q, i), T)
           /\ Hit(Without(q, i), T) <=> (Hit(q, T) /\ q[i] \notin T)
<1>1. /\ Without(q, i) \in Seq(X) /\ Len(Without(q, i)) = Len(q) - 1 /\ Len(q) \in Nat
      /\ \A j \in 1 .. Len(q) - 1 : Without(q, i)[j] = IF j < i THEN q[j] ELSE q[j + 1]
  <2>1. /\ SubSeq(q, 1, i - 1) \in Seq(X) /\ Len(SubSeq(q, 1, i - 1)) = i - 1
        /\ \A j \in 1 .. i - 1 : SubSeq(q, 1, i - 1)[j] = q[j]
        /\ SubSeq(q, i + 1, Len(q)) \in Seq(X) /\ Len(SubSeq(q, i + 1, Len(q))) = Len(q) - i
        /\ \A j \in 1 .. Len(q) - i : SubSeq(q, i + 1, Len(q))[j] = q[i + j]
    OBVIOUS
  <2> DEFINE a == SubSeq(q, 1, i - 1)
             b == SubSeq(q, i + 1, Len(q))
  <2>2. /\ a \o b \in Seq(X) /\ Len(a \o b) = Len(a) + Len(b)
        /\ \A j \in 1 .. Len(a) + Len(b) : (a \o b)[j] = IF j <= Len(a) THEN a[j] ELSE b[j - Len(a)]
    BY <2>1, ConcatProperties
  <2>3. Len(a) = i - 1 /\ Len(b) = Len(q) - i /\ Len(q) \in Nat
    BY <2>1
  <2>4. Without(q, i) = a \o b
    BY DEF Without
  <2>6. /\ \A j \in 1 .. i - 1 : a[j] = q[j]
        /\ \A j \in 1 .. Len(q) - i : b[j] = q[i + j]
    BY <2>1
  <2> HIDE DEF a, b
  <2>5. ASSUME NEW j \in 1 .. Len(q) - 1
        PROVE  (a \o b)[j] = IF j < i THEN q[j] ELSE q[j + 1]
    <3>1. CASE j < i
      <4>1. j \in 1 .. i - 1 /\ j \in 1 .. Len(a) + Len(b) /\ j <= Len(a)
        BY <2>3, <3>1
      <4> QED BY <2>6, <2>2, <3>1, <4>1
    <3>2. CASE ~(j < i)
      <4>1. /\ j - Len(a) \in 1 .. Len(q) - i /\ j \in 1 .. Len(a) + Len(b) /\ ~(j <= Len(a))
            /\ i + (j - Len(a)) = j + 1
        BY <2>3, <3>2
      <4>2. b[j - Len(a)] = q[i + (j - Len(a))]
        BY <2>6, <4>1
      <4> QED BY <2>2, <3>2, <4>1, <4>2
    <3> QED BY <3>1, <3>2
  <2> QED BY <2>2, <2>3, <2>4, <2>5
<1>2. DOMAIN q = 1 .. Len(q) /\ DOMAIN Without(q, i) = 1 .. Len(q) - 1
  BY <1>1
<1>3. Single(Without(q, i), T)
  <2> SUFFICES ASSUME NEW j \in 1 .. Len(q) - 1, NEW k \in 1 .. Len(q) - 1,
                      Without(q, i)[j] \in T, Without(q, i)[k] \in T
               PROVE  j = k
    BY <1>2 DEF Single
  <2>1. j \in DOMAIN q /\ j + 1 \in DOMAIN q /\ k \in DOMAIN q /\ k + 1 \in DOMAIN q
    BY <1>1, <1>2
  <2>2. (IF j < i THEN j ELSE j + 1) = (IF k < i THEN k ELSE k + 1)
    BY <1>1, <2>1 DEF Single
  <2> QED BY <2>2
<1>4. ASSUME Hit(Without(q, i), T) PROVE Hit(q, T) /\ q[i] \notin T
  <2>1. PICK j \in 1 .. Len(q) - 1 : Without(q, i)[j] \in T
    BY <1>2, <1>4 DEF Hit
  <2>2. PICK k \in DOMAIN q : k # i /\ q[k] \in T
    <3>1. CASE j < i
      BY <1>1, <1>2, <2>1, <3>1
    <3>2. CASE ~(j < i)
      <4>1. j + 1 \in DOMAIN q /\ j + 1 # i
        BY <1>1, <1>2, <3>2
      <4> QED BY <1>1, <2>1, <3>2, <4>1
    <3> QED BY <3>1, <3>2
  <2> QED BY <1>2, <2>2 DEF Hit, Single
<1>5. ASSUME Hit(q, T), q[i] \notin T PROVE Hit(Without(q, i), T)
  <2>1. PICK k \in 1 .. Len(q) : q[k] \in T /\ k # i
    BY <1>2, <1>5 DEF Hit
  <2>2. CASE k < i
    <3>1. k \in 1 .. Len(q) - 1
      BY <1>1, <2>2
    <3> QED BY <1>1, <1>2, <2>1, <2>2, <3>1 DEF Hit
  <2>3. CASE ~(k < i)
    <3>1. k - 1 \in 1 .. Len(q) - 1 /\ ~(k - 1 < i) /\ (k - 1) + 1 = k
      BY <1>1, <2>1, <2>3
    <3> QED BY <1>1, <1>2, <2>1, <3>1 DEF Hit
  <2> QED BY <2>2, <2>3
<1> QED BY <1>1, <1>3, <1>4, <1>5

-----------------------------------------------------------------------------
(* The mail                                                                *)

Mails == [Boxes -> Seq(Messages)]

(* Machines, mailboxes and channels.                                        *)
LEMMA BoxFacts ==
    /\ \A m \in Machines : <<m, 0>> \in Boxes
    /\ \A s \in Servers : <<s, 1>> \in Boxes /\ s \in Machines /\ s \notin Clients
    /\ \A c \in Clients : c \in Machines /\ c \notin Servers
    /\ \A b \in Boxes : b[1] \in Machines /\ b[2] \in {0, 1} /\ b = <<b[1], b[2]>> /\ (b[2] = 1 => b[1] \in Servers)
    /\ \A ch \in Channels : ch[1] \in Machines /\ ch[2] \in Boxes /\ ch = <<ch[1], ch[2]>>
    /\ NoOne \notin Machines
<1>1. \A c \in Clients : c \notin Servers
  BY MailAssumption
<1>2. \A b \in Boxes : b[1] \in Machines /\ b[2] \in {0, 1} /\ b = <<b[1], b[2]>> /\ (b[2] = 1 => b[1] \in Servers)
  BY DEF Boxes, Machines
<1>3. \A ch \in Channels : ch[1] \in Machines /\ ch[2] \in Boxes /\ ch = <<ch[1], ch[2]>>
  BY DEF Channels
<1>4. \A m \in Machines : <<m, 0>> \in Boxes
  BY DEF Boxes, Machines
<1>5. \A s \in Servers : <<s, 1>> \in Boxes
  BY DEF Boxes
<1>6. NoOne \notin Machines
  BY UseAssumption
<1> QED BY <1>1, <1>2, <1>3, <1>4, <1>5, <1>6 DEF Machines

(* The mail after sending: the old messages and the new ones.               *)
LEMMA PostedOrigin ==
    ASSUME NEW N \in [Channels -> Seq(Messages)], NEW m \in Machines, NEW mail \in Mails
    PROVE  /\ Posted(N, m, mail) \in [Channels -> Seq(Messages)]
           /\ \A ch \in Channels :
                 /\ N[ch] \in Seq(Messages) /\ mail[ch[2]] \in Seq(Messages)
                 /\ Posted(N, m, mail)[ch] = IF ch[1] = m THEN N[ch] \o mail[ch[2]] ELSE N[ch]
                 /\ \A i \in DOMAIN Posted(N, m, mail)[ch] :
                       \/ i \in DOMAIN N[ch] /\ Posted(N, m, mail)[ch][i] = N[ch][i]
                       \/ /\ ch[1] = m
                          /\ \E k \in DOMAIN mail[ch[2]] : Posted(N, m, mail)[ch][i] = mail[ch[2]][k]
<1> DEFINE P == Posted(N, m, mail)
<1>1. P = [ch \in Channels |-> IF ch[1] = m THEN N[ch] \o mail[ch[2]] ELSE N[ch]]
  BY DEF Posted
<1>2. \A ch \in Channels : N[ch] \in Seq(Messages) /\ mail[ch[2]] \in Seq(Messages)
  BY BoxFacts DEF Mails
<1> HIDE DEF P
<1>3. ASSUME NEW ch \in Channels
      PROVE  /\ P[ch] \in Seq(Messages)
             /\ P[ch] = IF ch[1] = m THEN N[ch] \o mail[ch[2]] ELSE N[ch]
             /\ \A i \in DOMAIN P[ch] :
                   \/ i \in DOMAIN N[ch] /\ P[ch][i] = N[ch][i]
                   \/ ch[1] = m /\ \E k \in DOMAIN mail[ch[2]] : P[ch][i] = mail[ch[2]][k]
  <2>1. CASE ch[1] # m
    <3>1. P[ch] = N[ch]
      BY <1>1, <2>1
    <3> QED BY <1>2, <2>1, <3>1
  <2>2. CASE ch[1] = m
    <3>1. P[ch] = N[ch] \o mail[ch[2]]
      BY <1>1, <2>2
    <3>2. /\ Len(N[ch]) \in Nat /\ Len(mail[ch[2]]) \in Nat
          /\ DOMAIN N[ch] = 1 .. Len(N[ch]) /\ DOMAIN mail[ch[2]] = 1 .. Len(mail[ch[2]])
      BY <1>2
    <3>3. /\ P[ch] \in Seq(Messages) /\ Len(P[ch]) = Len(N[ch]) + Len(mail[ch[2]])
          /\ \A i \in 1 .. Len(N[ch]) + Len(mail[ch[2]]) :
                P[ch][i] = IF i <= Len(N[ch]) THEN N[ch][i] ELSE mail[ch[2]][i - Len(N[ch])]
      BY <1>2, <3>1, ConcatProperties
    <3>4. DOMAIN P[ch] = 1 .. Len(N[ch]) + Len(mail[ch[2]])
      BY <3>2, <3>3
    <3>5. ASSUME NEW i \in DOMAIN P[ch]
          PROVE  \/ i \in DOMAIN N[ch] /\ P[ch][i] = N[ch][i]
                 \/ \E k \in DOMAIN mail[ch[2]] : P[ch][i] = mail[ch[2]][k]
      <4>1. i \in DOMAIN N[ch] \/ (i - Len(N[ch]) \in DOMAIN mail[ch[2]] /\ ~(i <= Len(N[ch])))
        BY <3>2, <3>4
      <4> QED BY <3>2, <3>3, <3>4, <4>1
    <3> QED BY <2>2, <3>1, <3>3, <3>5
  <2> QED BY <2>1, <2>2
<1>4. P \in [Channels -> Seq(Messages)]
  BY <1>1, <1>3
<1>5. P = Posted(N, m, mail)
  BY DEF P
<1> QED BY <1>2, <1>3, <1>4, <1>5

(* What is added to channels that hold at most one message of T.            *)
LEMMA PostedKeeps ==
    ASSUME NEW N \in [Channels -> Seq(Messages)], NEW m \in Machines, NEW mail \in Mails, NEW T,
           NEW ch \in Channels
    PROVE  /\ Hit(Posted(N, m, mail)[ch], T) <=> (Hit(N[ch], T) \/ (ch[1] = m /\ Hit(mail[ch[2]], T)))
           /\ Single(N[ch], T) /\ (ch[1] = m => Single(mail[ch[2]], T) /\ ~(Hit(N[ch], T) /\ Hit(mail[ch[2]], T)))
              => Single(Posted(N, m, mail)[ch], T)
<1>1. /\ N[ch] \in Seq(Messages) /\ mail[ch[2]] \in Seq(Messages)
      /\ Posted(N, m, mail)[ch] = IF ch[1] = m THEN N[ch] \o mail[ch[2]] ELSE N[ch]
  BY PostedOrigin
<1>2. /\ Hit(N[ch] \o mail[ch[2]], T) <=> (Hit(N[ch], T) \/ Hit(mail[ch[2]], T))
      /\ Single(N[ch], T) /\ Single(mail[ch[2]], T) /\ ~(Hit(N[ch], T) /\ Hit(mail[ch[2]], T))
         => Single(N[ch] \o mail[ch[2]], T)
  BY <1>1, ConcatKeeps
<1> QED BY <1>1, <1>2

(* A message that is handled is gone, what is sent is there, and the rest
   stays: T stands for the messages of one client.                          *)
LEMMA HandleKeeps ==
    ASSUME NEW src \in Machines, NEW b \in Boxes, NEW mail \in Mails, NEW T,
           net \in [Channels -> Seq(Messages)], net[<<src, b>>] # <<>>,
           Handle(src, b, mail), \A ch \in Channels : Single(net[ch], T)
    PROVE  /\ First(src, b) \in Messages
           /\ net' \in [Channels -> Seq(Messages)]
           /\ Hit(net[<<src, b>>], T) \/ First(src, b) \notin T
           /\ \A ch \in Channels :
                 /\ Hit(net'[ch], T) <=> \/ Hit(net[ch], T) /\ (ch # <<src, b>> \/ First(src, b) \notin T)
                                         \/ ch[1] = b[1] /\ Hit(mail[ch[2]], T)
                 /\ (ch[1] = b[1] => /\ Single(mail[ch[2]], T)
                                     /\ Hit(net[ch], T) /\ Hit(mail[ch[2]], T) => ch = <<src, b>> /\ First(src, b) \in T)
                    => Single(net'[ch], T)
<1> DEFINE sb == <<src, b>>
           N == [net EXCEPT ![sb] = Tail(@)]
<1>1. sb \in Channels /\ b[1] \in Machines
  BY BoxFacts DEF Channels
<1>2. net[sb] \in Seq(Messages) /\ net[sb] # <<>> /\ First(src, b) = Head(net[sb]) /\ Single(net[sb], T)
  BY <1>1 DEF First
<1>3. /\ Tail(net[sb]) \in Seq(Messages) /\ Single(Tail(net[sb]), T)
      /\ Hit(Tail(net[sb]), T) <=> (Hit(net[sb], T) /\ First(src, b) \notin T)
  BY <1>2, TailKeeps
<1>4. First(src, b) \in Messages /\ (Hit(net[sb], T) \/ First(src, b) \notin T)
  <2>1. Head(net[sb]) \in Messages /\ Head(net[sb]) = net[sb][1] /\ 1 \in DOMAIN net[sb]
    BY <1>2, EmptySeq, HeadTailProperties
  <2> QED BY <1>2, <2>1 DEF Hit
<1>5. N \in [Channels -> Seq(Messages)] /\ N[sb] = Tail(net[sb]) /\ \A ch \in Channels : ch # sb => N[ch] = net[ch]
  BY <1>1, <1>3
<1>6. net' = Posted(N, b[1], mail)
  BY DEF Handle
<1> HIDE DEF N, sb
<1>7. net' \in [Channels -> Seq(Messages)]
  BY <1>1, <1>5, <1>6, PostedOrigin
<1>8. ASSUME NEW ch \in Channels
      PROVE  /\ Hit(net'[ch], T) <=> \/ Hit(net[ch], T) /\ (ch # sb \/ First(src, b) \notin T)
                                     \/ ch[1] = b[1] /\ Hit(mail[ch[2]], T)
             /\ (ch[1] = b[1] => /\ Single(mail[ch[2]], T)
                                 /\ Hit(net[ch], T) /\ Hit(mail[ch[2]], T) => ch = sb /\ First(src, b) \in T)
                => Single(net'[ch], T)
  <2>1. /\ Hit(net'[ch], T) <=> (Hit(N[ch], T) \/ (ch[1] = b[1] /\ Hit(mail[ch[2]], T)))
        /\ Single(N[ch], T) /\ (ch[1] = b[1] => Single(mail[ch[2]], T) /\ ~(Hit(N[ch], T) /\ Hit(mail[ch[2]], T)))
           => Single(net'[ch], T)
    BY <1>1, <1>5, <1>6, PostedKeeps
  <2>2. CASE ch = sb
    BY <1>3, <1>5, <2>1, <2>2
  <2>3. CASE ch # sb
    BY <1>5, <2>1, <2>3
  <2> QED BY <2>2, <2>3
<1> QED BY <1>4, <1>7, <1>8 DEF sb

(* Where a message comes from: it was there before, and not the one that was
   handled, or it has just been sent.                                       *)
LEMMA HandleOrigin ==
    ASSUME NEW src \in Machines, NEW b \in Boxes, NEW mail \in Mails,
           net \in [Channels -> Seq(Messages)], net[<<src, b>>] # <<>>,
           Handle(src, b, mail), NEW ch \in Channels, NEW i \in DOMAIN net'[ch]
    PROVE  \/ \E j \in DOMAIN net[ch] : net'[ch][i] = net[ch][j] /\ (ch = <<src, b>> => j # 1)
           \/ ch[1] = b[1] /\ \E k \in DOMAIN mail[ch[2]] : net'[ch][i] = mail[ch[2]][k]
<1> DEFINE sb == <<src, b>>
           N == [net EXCEPT ![sb] = Tail(@)]
<1>1. sb \in Channels /\ b[1] \in Machines
  BY BoxFacts DEF Channels
<1>2. net[sb] \in Seq(Messages) /\ net[sb] # <<>>
  BY <1>1
<1>3. /\ Tail(net[sb]) \in Seq(Messages) /\ Len(Tail(net[sb])) = Len(net[sb]) - 1
      /\ \A j \in 1 .. Len(Tail(net[sb])) : Tail(net[sb])[j] = net[sb][j + 1]
      /\ DOMAIN net[sb] = 1 .. Len(net[sb]) /\ Len(net[sb]) \in Nat
  BY <1>2, HeadTailProperties
<1>4. DOMAIN Tail(net[sb]) = 1 .. Len(net[sb]) - 1
  BY <1>3
<1>5. N \in [Channels -> Seq(Messages)] /\ N[sb] = Tail(net[sb]) /\ \A x \in Channels : x # sb => N[x] = net[x]
  BY <1>1, <1>3
<1>6. net' = Posted(N, b[1], mail)
  BY DEF Handle
<1> HIDE DEF N, sb
<1>7. \/ i \in DOMAIN N[ch] /\ net'[ch][i] = N[ch][i]
      \/ ch[1] = b[1] /\ \E k \in DOMAIN mail[ch[2]] : net'[ch][i] = mail[ch[2]][k]
  <2>1. PICK M \in [Channels -> Seq(Messages)], m \in Machines : M = N /\ m = b[1]
    BY <1>1, <1>5
  <2> DEFINE P == Posted(M, m, mail)
  <2>2. \A k \in DOMAIN P[ch] :
           \/ k \in DOMAIN M[ch] /\ P[ch][k] = M[ch][k]
           \/ ch[1] = m /\ \E h \in DOMAIN mail[ch[2]] : P[ch][k] = mail[ch[2]][h]
    <3>1. /\ Posted(M, m, mail) \in [Channels -> Seq(Messages)]
          /\ \A x \in Channels :
                /\ M[x] \in Seq(Messages) /\ mail[x[2]] \in Seq(Messages)
                /\ Posted(M, m, mail)[x] = IF x[1] = m THEN M[x] \o mail[x[2]] ELSE M[x]
                /\ \A j \in DOMAIN Posted(M, m, mail)[x] :
                      \/ j \in DOMAIN M[x] /\ Posted(M, m, mail)[x][j] = M[x][j]
                      \/ /\ x[1] = m
                         /\ \E k \in DOMAIN mail[x[2]] : Posted(M, m, mail)[x][j] = mail[x[2]][k]
      BY PostedOrigin
    <3> QED BY <3>1
  <2>3. net' = P
    BY <1>6, <2>1
  <2> HIDE DEF P
  <2> QED BY <2>1, <2>2, <2>3
<1>8. ASSUME i \in DOMAIN N[ch], net'[ch][i] = N[ch][i]
      PROVE  \E j \in DOMAIN net[ch] : net'[ch][i] = net[ch][j] /\ (ch = sb => j # 1)
  <2>1. CASE ch = sb
    <3>1. i \in 1 .. Len(net[sb]) - 1 /\ N[ch][i] = net[sb][i + 1]
      BY <1>3, <1>4, <1>5, <1>8, <2>1
    <3>2. i + 1 \in DOMAIN net[sb] /\ i + 1 # 1
      BY <1>3, <3>1
    <3> QED BY <1>8, <2>1, <3>1, <3>2
  <2>2. CASE ch # sb
    BY <1>5, <1>8, <2>2
  <2> QED BY <2>1, <2>2
<1> QED BY <1>7, <1>8 DEF sb

-----------------------------------------------------------------------------
(* What is sent                                                            *)

(* Sending nothing.                                                         *)
LEMMA NothingMail ==
    /\ Nothing \in Mails
    /\ \A b \in Boxes : DOMAIN Nothing[b] = {}
    /\ \A b \in Boxes : \A T : ~Hit(Nothing[b], T) /\ Single(Nothing[b], T)
<1>1. \A b \in Boxes : Nothing[b] = <<>>
  BY DEF Nothing
<1>2. DOMAIN (<<>>) = {}
  OBVIOUS
<1>3. \A b \in Boxes : \A T : ~Hit(Nothing[b], T) /\ Single(Nothing[b], T)
  BY <1>1, <1>2 DEF Hit, Single
<1> QED BY <1>1, <1>2, <1>3 DEF Nothing, Mails

(* Sending one message.                                                     *)
LEMMA OnlyMail ==
    ASSUME NEW x \in Messages
    PROVE  /\ Only(x) \in Mails
           /\ \A b \in Boxes : \A k \in DOMAIN Only(x)[b] : b = x.to /\ Only(x)[b][k] = x
           /\ \A b \in Boxes : \A T : /\ Hit(Only(x)[b], T) <=> (b = x.to /\ x \in T)
                                      /\ Single(Only(x)[b], T)
<1>1. \A b \in Boxes : Only(x)[b] = IF b = x.to THEN <<x>> ELSE <<>>
  BY DEF Only
<1>2. DOMAIN (<<>>) = {} /\ DOMAIN <<x>> = {1} /\ <<x>>[1] = x /\ <<x>> \in Seq(Messages) /\ <<>> \in Seq(Messages)
  OBVIOUS
<1>3. \A b \in Boxes : \A k \in DOMAIN Only(x)[b] : b = x.to /\ Only(x)[b][k] = x
  BY <1>1, <1>2
<1>4. \A b \in Boxes : \A T : /\ Hit(Only(x)[b], T) <=> (b = x.to /\ x \in T)
                              /\ Single(Only(x)[b], T)
  BY <1>1, <1>2 DEF Hit, Single
<1>5. Only(x) \in Mails
  BY <1>2 DEF Only, Mails
<1> QED BY <1>3, <1>4, <1>5

(* Each answer of Replies(q) goes to a machine in q.                        *)
LEMMA RepliesMail ==
    ASSUME NEW q \in Seq(Machines)
    PROVE  /\ Replies(q) \in Mails
           /\ \A b \in Boxes : \A k \in DOMAIN Replies(q)[b] :
                 /\ b[2] = 0 /\ Replies(q)[b][k] = Reply(b[1], -1)
                 /\ \E j \in DOMAIN q : q[j] = b[1]
           /\ \A c \in Clients : \A b \in Boxes :
                 /\ Hit(Replies(q)[b], MailOf(c)) <=> (b = <<c, 0>> /\ Hit(q, {c}))
                 /\ Single(q, {c}) => Single(Replies(q)[b], MailOf(c))
           /\ \A c \in Clients : \A b \in Boxes : ~Hit(Replies(q)[b], DoubtOf(c)) /\ Single(Replies(q)[b], DoubtOf(c))
<1> DEFINE I(b) == {j \in 1..Len(q) : q[j] = b[1]}
<1>1. \A b \in Boxes : Replies(q)[b] = IF b[2] = 1 THEN <<>>
                                       ELSE [i \in 1 .. Cardinality(I(b)) |-> Reply(b[1], -1)]
  BY DEF Replies
<1>2. DOMAIN q = 1 .. Len(q) /\ Len(q) \in Nat
  OBVIOUS
<1>a. \A b \in Boxes : I(b) \subseteq 1 .. Len(q) /\ \A j : j \in I(b) <=> j \in DOMAIN q /\ q[j] = b[1]
  BY <1>2
<1> HIDE DEF I
<1>3. ASSUME NEW b \in Boxes
      PROVE  /\ Cardinality(I(b)) \in Nat
             /\ Cardinality(I(b)) = 0 <=> ~Hit(q, {b[1]})
             /\ Single(q, {b[1]}) => Cardinality(I(b)) <= 1
  <2>1. IsFiniteSet(1 .. Len(q)) /\ I(b) \subseteq 1 .. Len(q)
    BY <1>2, <1>a, FS_Interval
  <2>2. IsFiniteSet(I(b)) /\ Cardinality(I(b)) \in Nat
    BY <2>1, FS_Subset, FS_CardinalityType
  <2>3. Cardinality(I(b)) = 0 <=> I(b) = {}
    BY <2>2, FS_EmptySet
  <2>4. I(b) = {} <=> ~Hit(q, {b[1]})
    BY <1>a DEF Hit
  <2>5. ASSUME Single(q, {b[1]}), I(b) # {} PROVE Cardinality(I(b)) <= 1
    <3>1. PICK j : j \in I(b)
      BY <2>5
    <3>2. I(b) = {j}
      BY <1>a, <2>5, <3>1 DEF Single
    <3>3. Cardinality({j}) = 1
      BY FS_Singleton
    <3> QED BY <3>2, <3>3
  <2> QED BY <2>2, <2>3, <2>4, <2>5
<1>4. \A m \in Machines : Reply(m, -1) \in Messages
  <2>1. \A m \in Machines : <<m, 0>> \in Boxes
    BY BoxFacts
  <2>2. -1 \in Int
    OBVIOUS
  <2>3. ASSUME NEW m \in Machines PROVE Reply(m, -1) \in Answers
    BY <2>1, <2>2 DEF Reply, Answers
  <2> QED BY <2>3 DEF Messages
<1>5. ASSUME NEW b \in Boxes
      PROVE  /\ Replies(q)[b] \in Seq(Messages)
             /\ DOMAIN Replies(q)[b] = IF b[2] = 1 THEN {} ELSE 1 .. Cardinality(I(b))
             /\ \A k \in DOMAIN Replies(q)[b] : b[2] = 0 /\ Replies(q)[b][k] = Reply(b[1], -1)
  <2>1. b[1] \in Machines /\ b[2] \in {0, 1}
    BY BoxFacts
  <2>2. DOMAIN (<<>>) = {} /\ <<>> \in Seq(Messages)
    OBVIOUS
  <2>3. CASE b[2] = 1
    BY <1>1, <2>2, <2>3
  <2>4. CASE b[2] = 0
    <3>1. Replies(q)[b] = [i \in 1 .. Cardinality(I(b)) |-> Reply(b[1], -1)]
      BY <1>1, <2>4
    <3>2. Replies(q)[b] \in [1 .. Cardinality(I(b)) -> Messages]
      BY <1>4, <2>1, <3>1
    <3>3. Replies(q)[b] \in Seq(Messages)
      BY <1>3, <3>2, SeqDef
    <3> QED BY <2>4, <3>1, <3>3
  <2> QED BY <2>1, <2>3, <2>4
<1>6. Replies(q) \in Mails
  BY <1>5 DEF Mails, Replies
<1>7. ASSUME NEW b \in Boxes, NEW k \in DOMAIN Replies(q)[b] PROVE \E j \in DOMAIN q : q[j] = b[1]
  <2>1. Cardinality(I(b)) # 0
    BY <1>3, <1>5, <1>7
  <2> QED BY <1>3, <2>1 DEF Hit
<1>8. ASSUME NEW c \in Clients, NEW b \in Boxes
      PROVE  /\ Hit(Replies(q)[b], MailOf(c)) <=> (b = <<c, 0>> /\ Hit(q, {c}))
             /\ Single(q, {c}) => Single(Replies(q)[b], MailOf(c))
  <2>1. b[1] \in Machines /\ b[2] \in {0, 1} /\ b = <<b[1], b[2]>>
    BY BoxFacts
  <2>2. Reply(b[1], -1) \in MailOf(c) <=> b[1] = c
    <3>1. Reply(b[1], -1).type = "REPLY" /\ Reply(b[1], -1).to = <<b[1], 0>>
      BY DEF Reply
    <3>2. IsAbout(Reply(b[1], -1), c) <=> <<b[1], 0>> = <<c, 0>>
      BY <3>1 DEF IsAbout, Ops, LockOps, UseOps, MVOps
    <3> QED BY <1>4, <2>1, <3>2 DEF MailOf
  <2>3. b[1] = c => (Cardinality(I(b)) # 0 <=> Hit(q, {c})) /\ (Single(q, {c}) => Cardinality(I(b)) <= 1)
    BY <1>3
  <2>4. Cardinality(I(b)) \in Nat
    BY <1>3
  <2>5. Hit(Replies(q)[b], MailOf(c)) <=> (b = <<c, 0>> /\ Hit(q, {c}))
    <3>1. ASSUME Hit(Replies(q)[b], MailOf(c)) PROVE b = <<c, 0>> /\ Hit(q, {c})
      <4>1. b[1] = c /\ b[2] = 0 /\ Cardinality(I(b)) # 0
        BY <1>5, <2>2, <2>4, <3>1 DEF Hit
      <4> QED BY <2>1, <2>3, <4>1
    <3>2. ASSUME b = <<c, 0>>, Hit(q, {c}) PROVE Hit(Replies(q)[b], MailOf(c))
      <4>1. b[1] = c /\ b[2] = 0
        BY <3>2
      <4>2. 1 \in 1 .. Cardinality(I(b))
        BY <2>3, <2>4, <3>2, <4>1
      <4>3. 1 \in DOMAIN Replies(q)[b] /\ Replies(q)[b][1] \in MailOf(c)
        <5>1. b[2] # 1 /\ DOMAIN Replies(q)[b] = 1 .. Cardinality(I(b))
          BY <1>5, <4>1
        <5> QED BY <1>5, <2>2, <4>1, <4>2, <5>1
      <4> QED BY <4>3 DEF Hit
    <3> QED BY <3>1, <3>2
  <2>6. ASSUME Single(q, {c}) PROVE Single(Replies(q)[b], MailOf(c))
    <3> SUFFICES ASSUME NEW i \in DOMAIN Replies(q)[b], NEW j \in DOMAIN Replies(q)[b],
                        Replies(q)[b][i] \in MailOf(c)
                 PROVE  i = j
      BY DEF Single
    <3>1. b[1] = c /\ Cardinality(I(b)) <= 1 /\ i \in 1 .. Cardinality(I(b)) /\ j \in 1 .. Cardinality(I(b))
      BY <1>5, <2>2, <2>3, <2>6
    <3> QED BY <2>4, <3>1
  <2> QED BY <2>5, <2>6
<1>9. ASSUME NEW c \in Clients, NEW b \in Boxes
      PROVE  ~Hit(Replies(q)[b], DoubtOf(c)) /\ Single(Replies(q)[b], DoubtOf(c))
  <2>1. \A k \in DOMAIN Replies(q)[b] : Replies(q)[b][k] \notin DoubtOf(c)
    <3>1. \A m : Reply(m, -1).type = "REPLY"
      BY DEF Reply
    <3>2. \A x \in DoubtOf(c) : x.type # "REPLY"
      BY DEF DoubtOf
    <3> QED BY <1>5, <3>1, <3>2
  <2> QED BY <2>1 DEF Hit, Single
<1> QED BY <1>5, <1>6, <1>7, <1>8, <1>9

-----------------------------------------------------------------------------
(* Places                                                                  *)

(* What is in one place is in no other.                                     *)
LEMMA TaggedAlone ==
    ASSUME NEW A, NEW B, NEW C, NEW D, NEW E, \A p, q \in Tagged(A, B, C, D, E) : p = q
    PROVE  /\ \A x \in A : A = {x} /\ B = {} /\ C = {} /\ D = {} /\ E = {}
           /\ \A x \in B : A = {} /\ B = {x} /\ C = {} /\ D = {} /\ E = {}
           /\ \A x \in C : A = {} /\ B = {} /\ C = {x} /\ D = {} /\ E = {}
           /\ \A x \in D : A = {} /\ B = {} /\ C = {} /\ D = {x} /\ E = {}
           /\ \A x \in E : A = {} /\ B = {} /\ C = {} /\ D = {} /\ E = {x}
<1> DEFINE P == Tagged(A, B, C, D, E)
<1>1. /\ \A x \in A : <<"net", x>> \in P
      /\ \A x \in B : <<"query", x>> \in P
      /\ \A x \in C : <<"tracker", x>> \in P
      /\ \A x \in D : <<"lock", x>> \in P
      /\ \A x \in E : <<"cv", x>> \in P
  BY DEF Tagged
<1>2. \A x, y : /\ <<"net", x>> # <<"query", y>> /\ <<"net", x>> # <<"tracker", y>> /\ <<"net", x>> # <<"lock", y>>
                /\ <<"net", x>> # <<"cv", y>> /\ <<"query", x>> # <<"tracker", y>> /\ <<"query", x>> # <<"lock", y>>
                /\ <<"query", x>> # <<"cv", y>> /\ <<"tracker", x>> # <<"lock", y>>
                /\ <<"tracker", x>> # <<"cv", y>> /\ <<"lock", x>> # <<"cv", y>>
  OBVIOUS
<1>3. \A t, x, y : <<t, x>> = <<t, y>> => x = y
  OBVIOUS
<1>4. \A p, q \in P : p = q
  OBVIOUS
<1> HIDE DEF P
<1>5. /\ \A x, y \in A : x = y
      /\ \A x, y \in B : x = y
      /\ \A x, y \in C : x = y
      /\ \A x, y \in D : x = y
      /\ \A x, y \in E : x = y
  BY <1>1, <1>3, <1>4
<1>6. /\ \A x \in A : B = {} /\ C = {} /\ D = {} /\ E = {}
      /\ \A x \in B : C = {} /\ D = {} /\ E = {}
      /\ \A x \in C : D = {} /\ E = {}
      /\ \A x \in D : E = {}
  <2>1. \A x \in A, y \in B : FALSE
    BY <1>1, <1>2, <1>4
  <2>2. \A x \in A, y \in C : FALSE
    BY <1>1, <1>2, <1>4
  <2>3. \A x \in A, y \in D : FALSE
    BY <1>1, <1>2, <1>4
  <2>4. \A x \in A, y \in E : FALSE
    BY <1>1, <1>2, <1>4
  <2>5. \A x \in B, y \in C : FALSE
    BY <1>1, <1>2, <1>4
  <2>6. \A x \in B, y \in D : FALSE
    BY <1>1, <1>2, <1>4
  <2>7. \A x \in B, y \in E : FALSE
    BY <1>1, <1>2, <1>4
  <2>8. \A x \in C, y \in D : FALSE
    BY <1>1, <1>2, <1>4
  <2>9. \A x \in C, y \in E : FALSE
    BY <1>1, <1>2, <1>4
  <2>10. \A x \in D, y \in E : FALSE
    BY <1>1, <1>2, <1>4
  <2> QED BY <2>1, <2>2, <2>3, <2>4, <2>5, <2>6, <2>7, <2>8, <2>9, <2>10
<1> QED BY <1>5, <1>6

(* Nowhere, in none of the five kinds of places.                            *)
LEMMA TaggedEmpty ==
    ASSUME NEW A, NEW B, NEW C, NEW D, NEW E
    PROVE  Tagged(A, B, C, D, E) = {} <=> A = {} /\ B = {} /\ C = {} /\ D = {} /\ E = {}
BY DEF Tagged

-----------------------------------------------------------------------------
(* One message is handled                                                  *)

(* A client that is in one place is in no other.                            *)
LEMMA Alone ==
    ASSUME NEW d \in Clients, OnePlace(d)
    PROVE  /\ \A x \in NetAt(d) : /\ NetAt(d) = {x} /\ AskedAt(d) = {} /\ DeferredAt(d) = {}
                                  /\ QueuedAt(d) = {} /\ AsleepAt(d) = {}
           /\ \A x \in AskedAt(d) : /\ NetAt(d) = {} /\ AskedAt(d) = {x} /\ DeferredAt(d) = {}
                                    /\ QueuedAt(d) = {} /\ AsleepAt(d) = {}
           /\ \A x \in DeferredAt(d) : /\ NetAt(d) = {} /\ AskedAt(d) = {} /\ DeferredAt(d) = {x}
                                       /\ QueuedAt(d) = {} /\ AsleepAt(d) = {}
           /\ \A x \in QueuedAt(d) : /\ NetAt(d) = {} /\ AskedAt(d) = {} /\ DeferredAt(d) = {}
                                     /\ QueuedAt(d) = {x} /\ AsleepAt(d) = {}
           /\ \A x \in AsleepAt(d) : /\ NetAt(d) = {} /\ AskedAt(d) = {} /\ DeferredAt(d) = {}
                                     /\ QueuedAt(d) = {} /\ AsleepAt(d) = {x}
           /\ call[d] = Idle => /\ NetAt(d) = {} /\ AskedAt(d) = {} /\ DeferredAt(d) = {}
                                /\ QueuedAt(d) = {} /\ AsleepAt(d) = {}
<1>1. PICK A, B, C, D, E : /\ A = NetAt(d) /\ B = AskedAt(d) /\ C = DeferredAt(d)
                           /\ D = QueuedAt(d) /\ E = AsleepAt(d)
  OBVIOUS
<1>2. Occupied(d) = Tagged(A, B, C, D, E)
  BY <1>1 DEF Occupied
<1>3. \A p, q \in Tagged(A, B, C, D, E) : p = q
  BY <1>2 DEF OnePlace
<1>4. /\ \A x \in A : A = {x} /\ B = {} /\ C = {} /\ D = {} /\ E = {}
      /\ \A x \in B : A = {} /\ B = {x} /\ C = {} /\ D = {} /\ E = {}
      /\ \A x \in C : A = {} /\ B = {} /\ C = {x} /\ D = {} /\ E = {}
      /\ \A x \in D : A = {} /\ B = {} /\ C = {} /\ D = {x} /\ E = {}
      /\ \A x \in E : A = {} /\ B = {} /\ C = {} /\ D = {} /\ E = {x}
  BY <1>3, TaggedAlone
<1>5. call[d] = Idle => A = {} /\ B = {} /\ C = {} /\ D = {} /\ E = {}
  BY <1>2, TaggedEmpty DEF OnePlace
<1> QED BY <1>1, <1>4, <1>5

(* What a client that waits has in the next state is in one place: in the
   mail, with a server that asks the others, with one that has put it off,
   in the queue of a lock, in that of a condition.                          *)
LEMMA MovedToNet ==
    ASSUME NEW d \in Clients, OnceEach(d)', call'[d] # Idle, \E x : NetAt(d)' \subseteq {x},
           AskedAt(d)' = {}, DeferredAt(d)' = {}, QueuedAt(d)' = {}, AsleepAt(d)' = {}
    PROVE  OnePlace(d)'
<1>1. PICK A, B, C, D, E : /\ A = NetAt(d)' /\ B = AskedAt(d)' /\ C = DeferredAt(d)'
                           /\ D = QueuedAt(d)' /\ E = AsleepAt(d)'
  OBVIOUS
<1>2. Occupied(d)' = Tagged(A, B, C, D, E)
  BY <1>1 DEF Occupied
<1>3. \A p, q \in Tagged(A, B, C, D, E) : p = q
  BY <1>1 DEF Tagged
<1> QED BY <1>2, <1>3 DEF OnePlace

(* The request is with a server that asks the others, and nowhere else.     *)
LEMMA MovedToQuery ==
    ASSUME NEW d \in Clients, OnceEach(d)', call'[d] # Idle, \E x : AskedAt(d)' \subseteq {x},
           NetAt(d)' = {}, DeferredAt(d)' = {}, QueuedAt(d)' = {}, AsleepAt(d)' = {}
    PROVE  OnePlace(d)'
<1>1. PICK A, B, C, D, E : /\ A = NetAt(d)' /\ B = AskedAt(d)' /\ C = DeferredAt(d)'
                           /\ D = QueuedAt(d)' /\ E = AsleepAt(d)'
  OBVIOUS
<1>2. Occupied(d)' = Tagged(A, B, C, D, E)
  BY <1>1 DEF Occupied
<1>3. \A p, q \in Tagged(A, B, C, D, E) : p = q
  BY <1>1 DEF Tagged
<1> QED BY <1>2, <1>3 DEF OnePlace

(* It is among what a server has put off, and nowhere else.                 *)
LEMMA MovedToTracker ==
    ASSUME NEW d \in Clients, OnceEach(d)', call'[d] # Idle, \E x : DeferredAt(d)' \subseteq {x},
           NetAt(d)' = {}, AskedAt(d)' = {}, QueuedAt(d)' = {}, AsleepAt(d)' = {}
    PROVE  OnePlace(d)'
<1>1. PICK A, B, C, D, E : /\ A = NetAt(d)' /\ B = AskedAt(d)' /\ C = DeferredAt(d)'
                           /\ D = QueuedAt(d)' /\ E = AsleepAt(d)'
  OBVIOUS
<1>2. Occupied(d)' = Tagged(A, B, C, D, E)
  BY <1>1 DEF Occupied
<1>3. \A p, q \in Tagged(A, B, C, D, E) : p = q
  BY <1>1 DEF Tagged
<1> QED BY <1>2, <1>3 DEF OnePlace

(* It queues for a lock, and is nowhere else.                               *)
LEMMA MovedToLock ==
    ASSUME NEW d \in Clients, OnceEach(d)', call'[d] # Idle, \E x : QueuedAt(d)' \subseteq {x},
           NetAt(d)' = {}, AskedAt(d)' = {}, DeferredAt(d)' = {}, AsleepAt(d)' = {}
    PROVE  OnePlace(d)'
<1>1. PICK A, B, C, D, E : /\ A = NetAt(d)' /\ B = AskedAt(d)' /\ C = DeferredAt(d)'
                           /\ D = QueuedAt(d)' /\ E = AsleepAt(d)'
  OBVIOUS
<1>2. Occupied(d)' = Tagged(A, B, C, D, E)
  BY <1>1 DEF Occupied
<1>3. \A p, q \in Tagged(A, B, C, D, E) : p = q
  BY <1>1 DEF Tagged
<1> QED BY <1>2, <1>3 DEF OnePlace

(* It sleeps on a condition, and is nowhere else.                           *)
LEMMA MovedToCond ==
    ASSUME NEW d \in Clients, OnceEach(d)', call'[d] # Idle, \E x : AsleepAt(d)' \subseteq {x},
           NetAt(d)' = {}, AskedAt(d)' = {}, DeferredAt(d)' = {}, QueuedAt(d)' = {}
    PROVE  OnePlace(d)'
<1>1. PICK A, B, C, D, E : /\ A = NetAt(d)' /\ B = AskedAt(d)' /\ C = DeferredAt(d)'
                           /\ D = QueuedAt(d)' /\ E = AsleepAt(d)'
  OBVIOUS
<1>2. Occupied(d)' = Tagged(A, B, C, D, E)
  BY <1>1 DEF Occupied
<1>3. \A p, q \in Tagged(A, B, C, D, E) : p = q
  BY <1>1 DEF Tagged
<1> QED BY <1>2, <1>3 DEF OnePlace

(* What a client had stays where it was.                                    *)
LEMMA Stays ==
    ASSUME NEW d \in Clients, OnePlace(d), OnceEach(d)', call'[d] = call[d],
           NetAt(d)' = NetAt(d), AskedAt(d)' = AskedAt(d), DeferredAt(d)' = DeferredAt(d),
           QueuedAt(d)' = QueuedAt(d), AsleepAt(d)' = AsleepAt(d)
    PROVE  OnePlace(d)'
<1>1. Occupied(d)' = Occupied(d)
  BY DEF Occupied
<1> QED BY <1>1 DEF OnePlace

(* What a client has nothing of, it is idle or not, is in one place.        *)
LEMMA Nowhere ==
    ASSUME NEW d \in Clients, OnceEach(d)',
           NetAt(d)' = {}, AskedAt(d)' = {}, DeferredAt(d)' = {}, QueuedAt(d)' = {}, AsleepAt(d)' = {}
    PROVE  OnePlace(d)'
<1>1. PICK A, B, C, D, E : /\ A = NetAt(d)' /\ B = AskedAt(d)' /\ C = DeferredAt(d)'
                           /\ D = QueuedAt(d)' /\ E = AsleepAt(d)'
  OBVIOUS
<1>2. Occupied(d)' = Tagged(A, B, C, D, E)
  BY <1>1 DEF Occupied
<1>3. Occupied(d)' = {}
  BY <1>1, <1>2, TaggedEmpty
<1> QED BY <1>3 DEF OnePlace

(* The message that is handled, and what Inv says of it.                    *)
LEMMA Handled ==
    ASSUME Inv, NEW src \in Machines, NEW b \in Boxes, net[<<src, b>>] # <<>>
    PROVE  /\ <<src, b>> \in Channels
           /\ First(src, b) \in Messages /\ GoodMessage(First(src, b), b)
           /\ 1 \in DOMAIN net[<<src, b>>] /\ net[<<src, b>>][1] = First(src, b)
<1>1. <<src, b>> \in Channels
  BY DEF Channels
<1>2. net[<<src, b>>] \in Seq(Messages)
  BY <1>1 DEF Inv, StateOK
<1>3. Head(net[<<src, b>>]) \in Messages /\ Head(net[<<src, b>>]) = net[<<src, b>>][1] /\ 1 \in DOMAIN net[<<src, b>>]
  BY <1>2, HeadTailProperties, EmptySeq
<1>4. GoodMessage(net[<<src, b>>][1], <<src, b>>[2])
  BY <1>1, <1>3 DEF Inv, GoodMail
<1> QED BY <1>1, <1>3, <1>4 DEF First

(* What is of a client in the mail afterwards, if what is sent for it goes
   to mailbox x only, and it was nowhere else.                              *)
LEMMA NetStep ==
    ASSUME Inv, NEW src \in Machines, NEW b \in Boxes, net[<<src, b>>] # <<>>,
           NEW mail \in Mails, Handle(src, b, mail), NEW d \in Clients, NEW x \in Boxes,
           \A bx \in Boxes : /\ Single(mail[bx], MailOf(d))
                             /\ Hit(mail[bx], MailOf(d)) => bx = x,
           Hit(mail[x], MailOf(d)) => First(src, b) \in MailOf(d) \/ NetAt(d) = {}
    PROVE  /\ net' \in [Channels -> Seq(Messages)]
           /\ \A ch \in Channels : Single(net'[ch], MailOf(d))
           /\ NetAt(d)' = IF Hit(mail[x], MailOf(d)) THEN {<<b[1], x>>}
                          ELSE IF First(src, b) \in MailOf(d) THEN {} ELSE NetAt(d)
           /\ First(src, b) \in MailOf(d) => /\ <<src, b>> \in NetAt(d) /\ NetAt(d) = {<<src, b>>}
                                             /\ AskedAt(d) = {} /\ DeferredAt(d) = {} /\ QueuedAt(d) = {} /\ AsleepAt(d) = {}
<1> DEFINE T == MailOf(d)
           sb == <<src, b>>
<1>1. /\ net \in [Channels -> Seq(Messages)] /\ \A ch \in Channels : Single(net[ch], T)
      /\ \A p, q \in Occupied(d) : p = q
      /\ sb \in Channels
  BY Handled DEF Inv, StateOK, OnePlace, OnceEach
<1>2. \A y \in NetAt(d) : /\ NetAt(d) = {y} /\ AskedAt(d) = {} /\ DeferredAt(d) = {}
                          /\ QueuedAt(d) = {} /\ AsleepAt(d) = {}
  BY Alone DEF Inv
<1> HIDE DEF T
<1>3. /\ net' \in [Channels -> Seq(Messages)]
      /\ Hit(net[sb], T) \/ First(src, b) \notin T
      /\ \A ch \in Channels :
            /\ Hit(net'[ch], T) <=> \/ Hit(net[ch], T) /\ (ch # <<src, b>> \/ First(src, b) \notin T)
                                    \/ ch[1] = b[1] /\ Hit(mail[ch[2]], T)
            /\ (ch[1] = b[1] => /\ Single(mail[ch[2]], T)
                                /\ Hit(net[ch], T) /\ Hit(mail[ch[2]], T) => ch = <<src, b>> /\ First(src, b) \in T)
               => Single(net'[ch], T)
  BY <1>1, HandleKeeps
<1>4. \A ch \in Channels : ch \in NetAt(d) <=> Hit(net[ch], T)
  BY DEF NetAt, T
<1>5. \A ch \in Channels : ch \in NetAt(d)' <=> Hit(net'[ch], T)
  BY DEF NetAt, T
<1>6. \A ch \in Channels : ch[2] \in Boxes /\ ch = <<ch[1], ch[2]>>
  BY BoxFacts
<1>7. <<b[1], x>> \in Channels /\ <<b[1], x>>[1] = b[1] /\ <<b[1], x>>[2] = x
  BY BoxFacts DEF Channels
<1>8. First(src, b) \in T => sb \in NetAt(d) /\ NetAt(d) = {sb}
  BY <1>1, <1>2, <1>3, <1>4
<1>9. \A bx \in Boxes : Single(mail[bx], T) /\ (Hit(mail[bx], T) => bx = x)
  BY DEF T
<1>10. Hit(mail[x], T) => First(src, b) \in T \/ NetAt(d) = {}
  BY DEF T
<1>11. ASSUME NEW ch \in Channels PROVE Single(net'[ch], T)
  <2>1. ch[1] = b[1] => /\ Single(mail[ch[2]], T)
                        /\ Hit(net[ch], T) /\ Hit(mail[ch[2]], T) => ch = sb /\ First(src, b) \in T
    <3>1. ASSUME Hit(net[ch], T), Hit(mail[ch[2]], T) PROVE ch = sb /\ First(src, b) \in T
      <4>1. ch \in NetAt(d) /\ ch[2] = x
        BY <1>4, <1>6, <1>9, <3>1
      <4>2. First(src, b) \in T
        BY <1>10, <3>1, <4>1
      <4> QED BY <1>8, <4>1, <4>2
    <3> QED BY <1>6, <1>9, <3>1
  <2> QED BY <1>3, <2>1
<1>12. NetAt(d)' \subseteq Channels /\ NetAt(d) \subseteq Channels
  BY DEF NetAt
<1>13. CASE Hit(mail[x], T)
  <2>1. <<b[1], x>> \in NetAt(d)'
    BY <1>3, <1>5, <1>7, <1>13
  <2>2. ASSUME NEW ch \in NetAt(d)' PROVE ch = <<b[1], x>>
    <3>1. ch \in Channels /\ Hit(net'[ch], T)
      BY <1>5, <1>12, <2>2
    <3>2. CASE Hit(net[ch], T) /\ (ch # sb \/ First(src, b) \notin T)
      BY <1>4, <1>8, <1>10, <1>13, <3>1, <3>2
    <3>3. CASE ch[1] = b[1] /\ Hit(mail[ch[2]], T)
      BY <1>6, <1>9, <3>1, <3>3
    <3> QED BY <1>3, <3>1, <3>2, <3>3
  <2>3. NetAt(d)' = {<<b[1], x>>}
    BY <2>1, <2>2
  <2> QED BY <1>2, <1>3, <1>8, <1>11, <1>13, <2>3 DEF T
<1>14. CASE ~Hit(mail[x], T)
  <2>1. \A ch \in Channels : ~Hit(mail[ch[2]], T)
    BY <1>6, <1>9, <1>14
  <2>2. \A ch \in Channels : Hit(net'[ch], T) <=> Hit(net[ch], T) /\ (ch # sb \/ First(src, b) \notin T)
    BY <1>3, <2>1
  <2>3. NetAt(d)' = IF First(src, b) \in T THEN {} ELSE NetAt(d)
    BY <1>4, <1>5, <1>8, <1>12, <2>2
  <2> QED BY <1>2, <1>3, <1>8, <1>11, <1>14, <2>3 DEF T
<1> QED BY <1>13, <1>14

(* A number of an object says which server has it, and where.               *)
LEMMA NumberFacts ==
    ASSUME NEW k \in Numbers
    PROVE  /\ k \div MaxObjects \in Servers
           /\ k % MaxObjects \in Numbers
           /\ k \in Nat
<1>1. NumServers \in Nat \ {0} /\ MaxObjects \in Nat \ {0}
  BY MailAssumption, UseAssumption
<1>2. NumServers * MaxObjects \in Nat
  BY <1>1
<1>3. k \in Nat /\ k < NumServers * MaxObjects
  BY <1>2 DEF Numbers
<1>4. (k \div MaxObjects) \in Int /\ (k % MaxObjects) \in 0 .. MaxObjects - 1
  BY <1>1, <1>3
<1>5. (k \div MaxObjects) \in Nat
  BY <1>1, <1>3
<1>6. k = MaxObjects * (k \div MaxObjects) + (k % MaxObjects)
  BY <1>1, <1>3
<1>7. PICK n \in Nat, r \in Nat : n = (k \div MaxObjects) /\ r = (k % MaxObjects)
  BY <1>1, <1>4, <1>5
<1>8. \A a, c \in Nat : a >= c => MaxObjects * a >= MaxObjects * c
  BY <1>1
<1>9. n < NumServers
  <2> SUFFICES ASSUME n >= NumServers PROVE FALSE
    BY <1>1
  <2>1. MaxObjects * n >= MaxObjects * NumServers /\ MaxObjects * NumServers = NumServers * MaxObjects
    BY <1>1, <1>8
  <2>2. MaxObjects * n \in Nat
    BY <1>1
  <2> QED BY <1>2, <1>3, <1>6, <1>7, <2>1, <2>2
<1>10. NumServers * MaxObjects >= MaxObjects
  BY <1>1
<1>11. (k % MaxObjects) \in Numbers
  BY <1>1, <1>2, <1>4, <1>10 DEF Numbers
<1> QED BY <1>3, <1>7, <1>9, <1>11, <1>1 DEF Servers

(* The mail stays good if what was in it does, and what is sent is.         *)
LEMMA MailStep ==
    ASSUME Inv, NEW src \in Machines, NEW b \in Boxes, net[<<src, b>>] # <<>>,
           NEW mail \in Mails, Handle(src, b, mail),
           \A bx \in Boxes : \A k \in DOMAIN mail[bx] : \A y : y = mail[bx][k] => GoodMessage(y, bx)',
           \A ch \in Channels : \A i \in DOMAIN net[ch] : \A y \in Messages :
              y = net[ch][i] /\ (ch = <<src, b>> => i # 1) /\ GoodMessage(y, ch[2]) => GoodMessage(y, ch[2])'
    PROVE  GoodMail'
<1> SUFFICES ASSUME NEW ch \in Channels, NEW i \in DOMAIN net'[ch]
             PROVE  GoodMessage(net[ch][i], ch[2])'
  BY DEF GoodMail
<1>1. net \in [Channels -> Seq(Messages)] /\ GoodMail
  BY DEF Inv, StateOK
<1>2. PICK y : y = net'[ch][i]
  OBVIOUS
<1>3. \/ \E j \in DOMAIN net[ch] : y = net[ch][j] /\ (ch = <<src, b>> => j # 1)
      \/ ch[1] = b[1] /\ \E k \in DOMAIN mail[ch[2]] : y = mail[ch[2]][k]
  BY <1>1, <1>2, HandleOrigin
<1>4. GoodMessage(y, ch[2])'
  <2>1. CASE \E j \in DOMAIN net[ch] : y = net[ch][j] /\ (ch = <<src, b>> => j # 1)
    <3>1. PICK j \in DOMAIN net[ch] : y = net[ch][j] /\ (ch = <<src, b>> => j # 1)
      BY <2>1
    <3>2. GoodMessage(net[ch][j], ch[2])
      BY <1>1, <3>1 DEF GoodMail
    <3>3. GoodMessage(y, ch[2]) /\ y \in Messages
      BY <1>1, <3>1, <3>2
    <3> QED BY <3>1, <3>3
  <2>2. CASE \E k \in DOMAIN mail[ch[2]] : y = mail[ch[2]][k]
    BY <2>2, BoxFacts
  <2> QED BY <1>3, <2>1, <2>2
<1> QED BY <1>2, <1>4

(* A message stays good while the calls stay, what is put off, and the locks
   that clients wait for.                                                   *)
LEMMA StaysGood ==
    ASSUME NEW x \in Messages, NEW b \in Boxes, GoodMessage(x, b), call' = call,
           x.type = "DOES_CLIENT_HAVE_LOCK" =>
              (PutOff(x.from, x.client, x.lockNum) => PutOff(x.from, x.client, x.lockNum)'),
           x.type = "CV_LOCK_TRACKER_RESPONSE" =>
              (PutOff(b[1], x.client, x.lockNum) => PutOff(b[1], x.client, x.lockNum)'),
           x.type = "REPLY" /\ b[1] \in Clients /\ call[b[1]].op = "ACQUIRE" =>
              (Owns(b[1], call[b[1]].obj) => Owns(b[1], call[b[1]].obj)')
    PROVE  GoodMessage(x, b)'
<1>1. GoodRequest(x, b) => GoodRequest(x, b)'
  BY DEF GoodRequest, Asks
<1> QED BY <1>1 DEF GoodMessage

(* A server asks about a client once at a time if it did and asks about one
   it has no question about.                                                *)
LEMMA DoubtStep ==
    ASSUME Inv, NEW src \in Machines, NEW b \in Boxes, net[<<src, b>>] # <<>>,
           NEW mail \in Mails, Handle(src, b, mail), NEW d \in Clients, NEW x \in Boxes,
           \A bx \in Boxes : /\ Single(mail[bx], DoubtOf(d))
                             /\ Hit(mail[bx], DoubtOf(d)) => bx = x,
           Hit(mail[x], DoubtOf(d)) => \/ First(src, b) \in DoubtOf(d)
                                       \/ \A ch \in Channels : ~Hit(net[ch], DoubtOf(d))
    PROVE  OneDoubt(d)'
<1> DEFINE T == DoubtOf(d)
           sb == <<src, b>>
<1>1. /\ net \in [Channels -> Seq(Messages)] /\ \A ch \in Channels : Single(net[ch], T)
      /\ \A ch, dh \in Channels : Hit(net[ch], T) /\ Hit(net[dh], T) => ch = dh
      /\ sb \in Channels
  BY Handled DEF Inv, StateOK, OneDoubt
<1>2. First(src, b) \in T => Hit(net[sb], T)
  BY Handled DEF Hit
<1>3. /\ \A bx \in Boxes : Single(mail[bx], T) /\ (Hit(mail[bx], T) => bx = x)
      /\ Hit(mail[x], T) => First(src, b) \in T \/ \A ch \in Channels : ~Hit(net[ch], T)
      /\ \A U : OneDoubt(d)' <=> /\ \A ch \in Channels : Single(net'[ch], T)
                                 /\ \A ch, dh \in Channels : Hit(net'[ch], T) /\ Hit(net'[dh], T) => ch = dh
  BY DEF OneDoubt, DoubtOf
<1> HIDE DEF T
<1>4. \A ch \in Channels :
            /\ Hit(net'[ch], T) <=> \/ Hit(net[ch], T) /\ (ch # <<src, b>> \/ First(src, b) \notin T)
                                    \/ ch[1] = b[1] /\ Hit(mail[ch[2]], T)
            /\ (ch[1] = b[1] => /\ Single(mail[ch[2]], T)
                                /\ Hit(net[ch], T) /\ Hit(mail[ch[2]], T) => ch = <<src, b>> /\ First(src, b) \in T)
               => Single(net'[ch], T)
  BY <1>1, HandleKeeps
<1>5. \A ch \in Channels : ch[2] \in Boxes /\ ch = <<ch[1], ch[2]>>
  BY BoxFacts
<1>6. \A ch \in Channels : Hit(net[ch], T) /\ Hit(mail[ch[2]], T) => ch = sb /\ First(src, b) \in T
  BY <1>1, <1>2, <1>3, <1>5
<1>7. \A ch \in Channels : Single(net'[ch], T)
  BY <1>3, <1>4, <1>5, <1>6
<1>8. ASSUME NEW ch \in Channels, NEW dh \in Channels, Hit(net'[ch], T), Hit(net'[dh], T)
      PROVE  ch = dh
  <2>1. CASE Hit(mail[x], T)
    <3>1. \A eh \in Channels : ~(Hit(net[eh], T) /\ (eh # sb \/ First(src, b) \notin T))
      BY <1>1, <1>2, <1>3, <2>1
    <3>2. /\ ch[1] = b[1] /\ Hit(mail[ch[2]], T) /\ ch[2] = x
          /\ dh[1] = b[1] /\ Hit(mail[dh[2]], T) /\ dh[2] = x
      BY <1>3, <1>4, <1>5, <1>8, <3>1
    <3> QED BY <1>5, <3>2
  <2>2. CASE ~Hit(mail[x], T)
    <3>1. Hit(net[ch], T) /\ Hit(net[dh], T)
      BY <1>3, <1>4, <1>5, <1>8, <2>2
    <3> QED BY <1>1, <3>1
  <2> QED BY <2>1, <2>2
<1> QED BY <1>3, <1>7, <1>8

(* A client is not asked about unless an operation of it is put off.        *)
LEMMA DoubtDeferred ==
    ASSUME Inv, NEW d \in Clients, NEW ch \in Channels, Hit(net[ch], DoubtOf(d))
    PROVE  DeferredAt(d) # {}
<1>1. PICK i \in DOMAIN net[ch] : net[ch][i] \in DoubtOf(d)
  BY DEF Hit
<1>2. PICK x : x = net[ch][i]
  OBVIOUS
<1>3. GoodMessage(x, ch[2]) /\ x \in DoubtOf(d)
  BY <1>1, <1>2 DEF Inv, GoodMail
<1>4. x.client = d /\ x \in Messages /\ x.type \in {"DOES_CLIENT_HAVE_LOCK", "CV_LOCK_TRACKER_RESPONSE"}
  BY <1>3 DEF DoubtOf
<1>5. x.type = "DOES_CLIENT_HAVE_LOCK" => x.from \in Servers
  BY <1>4 DEF Messages, Requests, Answers, Doubts, Verdicts, Questions, Findings, Ops, LockOps, UseOps, MVOps
<1>6. PICK t \in Servers : PutOff(t, d, x.lockNum)
  BY <1>3, <1>4, <1>5 DEF GoodMessage
<1>7. cvLockTrackerList[t] \in Seq(Trackers)
  BY DEF Inv, StateOK, TypeOK
<1>8. PICK j \in DOMAIN cvLockTrackerList[t] : cvLockTrackerList[t][j].client = d
  BY <1>6 DEF PutOff
<1>9. cvLockTrackerList[t][j] \in Trackers
  BY <1>7, <1>8
<1>10. t \in DeferredAt(d)
  BY <1>8, <1>9 DEF DeferredAt, Hit, TrackerOf
<1> QED BY <1>10

-----------------------------------------------------------------------------
(* Steps by mail alone                                                     *)

QueuesKept == /\ \A l \in LockNums : lock'[l].queue = lock[l].queue
              /\ \A k \in CVNums : cond'[k].queue = cond[k].queue

(* What is sent in one go says about each client what x did: its request or
   the answer to it, and a question about its lock, in mailbox bx.          *)
Passes(mail, x, bx) ==
    /\ mail \in Mails /\ bx \in Boxes
    /\ \A d \in Clients : \A b \in Boxes :
          /\ Single(mail[b], MailOf(d)) /\ Single(mail[b], DoubtOf(d))
          /\ Hit(mail[b], MailOf(d)) => b = bx /\ x \in MailOf(d)
          /\ Hit(mail[b], DoubtOf(d)) => b = bx /\ x \in DoubtOf(d)

(* A message is handled by mail alone: no client but the one whose message
   it is gets anything.                                                     *)
LEMMA PlainStep ==
    ASSUME Inv, NEW src \in Machines, NEW b \in Boxes, net[<<src, b>>] # <<>>,
           NEW mail, Handle(src, b, mail), NEW bx, NEW d \in Clients,
           Passes(mail, First(src, b), bx), OnceEach(d)' <=> \A ch \in Channels : Single(net'[ch], MailOf(d)),
           AskedAt(d)' = AskedAt(d), DeferredAt(d)' = DeferredAt(d), QueuedAt(d)' = QueuedAt(d),
           AsleepAt(d)' = AsleepAt(d), call' = call
    PROVE  OnePlace(d)'
<1>1. mail \in Mails /\ bx \in Boxes
  BY DEF Passes
<1>2. /\ \A b2 \in Boxes : Single(mail[b2], MailOf(d)) /\ (Hit(mail[b2], MailOf(d)) => b2 = bx)
      /\ Hit(mail[bx], MailOf(d)) => First(src, b) \in MailOf(d) \/ NetAt(d) = {}
      /\ Hit(mail[bx], MailOf(d)) => First(src, b) \in MailOf(d)
  BY <1>1 DEF Passes
<1>3. /\ \A ch \in Channels : Single(net'[ch], MailOf(d))
      /\ NetAt(d)' = IF Hit(mail[bx], MailOf(d)) THEN {<<b[1], bx>>}
                     ELSE IF First(src, b) \in MailOf(d) THEN {} ELSE NetAt(d)
      /\ First(src, b) \in MailOf(d) => /\ <<src, b>> \in NetAt(d) /\ NetAt(d) = {<<src, b>>}
                                        /\ AskedAt(d) = {} /\ DeferredAt(d) = {} /\ QueuedAt(d) = {} /\ AsleepAt(d) = {}
  BY <1>1, <1>2, NetStep
<1>4. OnePlace(d)
  BY DEF Inv
<1>5. CASE First(src, b) \in MailOf(d)
  <2>1. call'[d] # Idle
    BY <1>3, <1>4, <1>5, Alone
  <2>2. \E x : NetAt(d)' \subseteq {x}
    BY <1>3, <1>5
  <2>3. AskedAt(d)' = {} /\ DeferredAt(d)' = {} /\ QueuedAt(d)' = {} /\ AsleepAt(d)' = {}
    BY <1>3, <1>5
  <2> QED BY <1>3, <2>1, <2>2, <2>3, MovedToNet
<1>6. CASE First(src, b) \notin MailOf(d)
  <2>1. NetAt(d)' = NetAt(d)
    BY <1>2, <1>3, <1>6
  <2> QED BY <1>3, <1>4, <2>1, Stays
<1> QED BY <1>5, <1>6

(* Handling a message keeps the type of the mail.                           *)
LEMMA HandleTyped ==
    ASSUME NEW src \in Machines, NEW b \in Boxes, NEW mail \in Mails,
           net \in [Channels -> Seq(Messages)], net[<<src, b>>] # <<>>, Handle(src, b, mail)
    PROVE  net' \in [Channels -> Seq(Messages)]
<1>1. PICK T : T = {}
  OBVIOUS
<1>2. \A ch \in Channels : Single(net[ch], T)
  BY <1>1 DEF Single
<1>3. /\ net' \in [Channels -> Seq(Messages)]
      /\ Hit(net[<<src, b>>], T) \/ First(src, b) \notin T
  BY <1>2, HandleKeeps
<1> QED BY <1>3

(* The queues that stay hold whom they should.                              *)
LEMMA SameQueues ==
    ASSUME GoodQueues, QueuesKept, call' = call
    PROVE  GoodQueues'
<1>1. ASSUME NEW l \in LockNums, NEW i \in DOMAIN lock'[l].queue
      PROVE  call'[lock'[l].queue[i]].op = "ACQUIRE" /\ call'[lock'[l].queue[i]].obj = l
  <2>1. PICK q : q = lock[l].queue
    OBVIOUS
  <2>2. lock'[l].queue = q
    BY <2>1 DEF QueuesKept
  <2> QED BY <2>1, <2>2 DEF GoodQueues
<1>2. ASSUME NEW k \in CVNums, NEW i \in DOMAIN cond'[k].queue
      PROVE  call'[cond'[k].queue[i]].op = "WAIT" /\ call'[cond'[k].queue[i]].obj = k
  <2>1. PICK q : q = cond[k].queue
    OBVIOUS
  <2>2. cond'[k].queue = q
    BY <2>1 DEF QueuesKept
  <2> QED BY <2>1, <2>2 DEF GoodQueues
<1> QED BY <1>1, <1>2 DEF GoodQueues

(* What may change in the tables of the server besides: the counts of a
   query, the deletion of a condition, a value.                             *)
LittleChanges ==
    /\ UNCHANGED <<lock, nextQueryID, cvLockTrackerList, down, call, calls, holds, retired>>
    /\ mv' \in [MVNums -> [live : BOOLEAN, value : Values]]
    /\ cond' \in [CVNums -> [live : BOOLEAN, waitingLock : Numbers \cup {-1}, queue : Seq(Clients),
                             isToBeDeleted : BOOLEAN]]
    /\ QueuesKept
    /\ queryQueue' \in [Servers -> Seq(Queries)]
    /\ \A s \in Servers : /\ DOMAIN queryQueue'[s] = DOMAIN queryQueue[s]
                          /\ \A i \in DOMAIN queryQueue[s] : queryQueue'[s][i].data = queryQueue[s][i].data

(* A step that moves a message on and leaves the tables keeps Inv.          *)
LEMMA PlainInv ==
    ASSUME Inv, NEW src \in Machines, NEW b \in Boxes, net[<<src, b>>] # <<>>,
           NEW mail, Handle(src, b, mail), NEW bx, Passes(mail, First(src, b), bx),
           \A b2 \in Boxes : \A k \in DOMAIN mail[b2] : \A y : y = mail[b2][k] => GoodMessage(y, b2),
           LittleChanges
    PROVE  Inv'
<1> USE DEF LittleChanges
<1>1. mail \in Mails /\ bx \in Boxes /\ StateOK /\ TypeOK
  BY DEF Passes, Inv, StateOK
<1>2. ASSUME NEW d \in Clients PROVE OnePlace(d)' /\ OneDoubt(d)'
  <2>1. \A s \in Servers : \A i \in DOMAIN queryQueue[s] :
           queryQueue'[s][i] \in QueryOf(d) <=> queryQueue[s][i] \in QueryOf(d)
    <3> SUFFICES ASSUME NEW s \in Servers, NEW i \in DOMAIN queryQueue[s]
                 PROVE  queryQueue'[s][i] \in QueryOf(d) <=> queryQueue[s][i] \in QueryOf(d)
      OBVIOUS
    <3>1. queryQueue[s] \in Seq(Queries) /\ queryQueue'[s] \in Seq(Queries)
      BY <1>1 DEF StateOK
    <3>2. queryQueue[s][i] \in Queries /\ queryQueue'[s][i] \in Queries
      BY <3>1
    <3>3. queryQueue'[s][i].data = queryQueue[s][i].data
      OBVIOUS
    <3> QED BY <3>2, <3>3 DEF QueryOf
  <2>2. AskedAt(d)' = AskedAt(d) /\ \A s \in Servers : Single(queryQueue[s], QueryOf(d)) => Single(queryQueue'[s], QueryOf(d))
    BY <2>1 DEF AskedAt, Hit, Single
  <2>3. DeferredAt(d)' = DeferredAt(d) /\ QueuedAt(d)' = QueuedAt(d) /\ AsleepAt(d)' = AsleepAt(d)
    BY DEF DeferredAt, QueuedAt, AsleepAt, QueuesKept
  <2>4. OnceEach(d)
    BY DEF Inv, OnePlace
  <2>5. OnceEach(d)' <=> \A ch \in Channels : Single(net'[ch], MailOf(d))
    BY <2>2, <2>4 DEF OnceEach, QueuesKept
  <2>6. OnePlace(d)'
    BY <2>2, <2>3, <2>5, PlainStep
  <2>7. /\ \A b2 \in Boxes : Single(mail[b2], DoubtOf(d)) /\ (Hit(mail[b2], DoubtOf(d)) => b2 = bx)
        /\ Hit(mail[bx], DoubtOf(d)) => \/ First(src, b) \in DoubtOf(d)
                                        \/ \A ch \in Channels : ~Hit(net[ch], DoubtOf(d))
    BY <1>1 DEF Passes
  <2>8. OneDoubt(d)'
    BY <1>1, <2>7, DoubtStep
  <2> QED BY <2>6, <2>8
<1>3. \A x, b2 : GoodMessage(x, b2)' <=> GoodMessage(x, b2)
  BY DEF GoodMessage, GoodRequest, PutOff, Owns, Asks
<1>4. GoodMail'
  <2>1. \A b2 \in Boxes : \A k \in DOMAIN mail[b2] : \A y : y = mail[b2][k] => GoodMessage(y, b2)'
    BY <1>3
  <2>2. \A ch \in Channels : \A i \in DOMAIN net[ch] : \A y \in Messages :
           y = net[ch][i] /\ (ch = <<src, b>> => i # 1) /\ GoodMessage(y, ch[2]) => GoodMessage(y, ch[2])'
    BY <1>3
  <2> QED BY <1>1, <2>1, <2>2, MailStep
<1>5. GoodQueries'
  <2>1. \A x, b2 : GoodRequest(x, b2)' <=> GoodRequest(x, b2)
    BY DEF GoodRequest, Asks
  <2> SUFFICES ASSUME NEW s \in Servers, NEW i \in DOMAIN queryQueue'[s]
               PROVE  /\ queryQueue'[s][i].data.from \in Clients
                      /\ GoodRequest(queryQueue[s][i].data, <<s, 1>>)'
    BY DEF GoodQueries
  <2>2. PICK x : x = queryQueue'[s][i].data
    OBVIOUS
  <2>3. i \in DOMAIN queryQueue[s] /\ x = queryQueue[s][i].data
    BY <2>2
  <2>4. x.from \in Clients /\ GoodRequest(x, <<s, 1>>)
    BY <2>3 DEF Inv, GoodQueries
  <2>5. GoodRequest(x, <<s, 1>>)'
    BY <2>1, <2>4
  <2> QED BY <2>2, <2>4, <2>5
<1>6. GoodTrackers'
  BY DEF Inv, GoodTrackers, Asks
<1>7. GoodQueues'
  BY SameQueues DEF Inv
<1>8. Ownership' /\ Retirement'
  BY DEF Inv, Ownership, Retirement, Owns
<1>9. SleepersGaveUpLock'
  <2> SUFFICES ASSUME NEW c \in Clients, NEW k \in CVNums,
                      c \in Elements(cond[k].queue)', k \div MaxObjects = call[c].arg \div MaxObjects
               PROVE  lock[call[c].arg].owner # c
    BY DEF SleepersGaveUpLock
  <2>1. cond'[k].queue = cond[k].queue
    BY DEF QueuesKept
  <2>2. c \in Elements(cond[k].queue)
    BY <2>1 DEF Elements
  <2>3. SleepersGaveUpLock
    BY DEF Inv
  <2> QED BY <2>2, <2>3, Zenon DEF SleepersGaveUpLock
<1>10. net' \in [Channels -> Seq(Messages)]
  BY <1>1, HandleTyped DEF StateOK
<1>11. StateOK'
  BY <1>1, <1>10 DEF StateOK, TypeOK
<1> QED BY <1>2, <1>4, <1>5, <1>6, <1>7, <1>8, <1>9, <1>11 DEF Inv

(* The case that nothing of them changes.                                   *)
LEMMA NoChanges ==
    ASSUME Inv, UNCHANGED <<tableVars, serverVars, clientVars>>
    PROVE  LittleChanges
<1>1. UNCHANGED <<lock, nextQueryID, cvLockTrackerList, down, call, calls, holds, retired, cond, mv, queryQueue>>
  BY DEF tableVars, serverVars, clientVars
<1>2. TypeOK /\ queryQueue \in [Servers -> Seq(Queries)]
  BY DEF Inv, StateOK
<1> QED BY <1>1, <1>2 DEF TypeOK, QueuesKept, LittleChanges

-----------------------------------------------------------------------------
(* What the messages of each type are                                      *)

(* The type of a message says which set it is of.                           *)
LEMMA Types ==
    ASSUME NEW x \in Messages
    PROVE  /\ x.type \in Ops <=> x \in Requests
           /\ x.type = "REPLY" <=> x \in Answers
           /\ x.type = "DOES_CLIENT_HAVE_LOCK" <=> x \in Doubts
           /\ x.type = "CV_LOCK_TRACKER_RESPONSE" <=> x \in Verdicts
           /\ x.type = "DO_YOU_HAVE" <=> x \in Questions
           /\ x.type \in {"HAVE", "DO_NOT_HAVE"} <=> x \in Findings
BY DEF Messages, Requests, Answers, Doubts, Verdicts, Questions, Findings, Ops, LockOps, UseOps, MVOps

(* Which of them are of client d.                                           *)
LEMMA Concerns ==
    ASSUME NEW d \in Clients
    PROVE  /\ \A x \in Requests : /\ x \in MailOf(d) <=> (x.type # "DESTROY_MV" /\ x.from = d)
                                  /\ x \notin DoubtOf(d)
           /\ \A x \in Answers : (x \in MailOf(d) <=> x.to = <<d, 0>>) /\ x \notin DoubtOf(d)
           /\ \A x \in Doubts \cup Verdicts : x \notin MailOf(d) /\ (x \in DoubtOf(d) <=> x.client = d)
           /\ \A x \in Questions \cup Findings : x \notin MailOf(d) /\ x \notin DoubtOf(d)
<1>1. Requests \cup Answers \cup Doubts \cup Verdicts \cup Questions \cup Findings \subseteq Messages
  BY DEF Messages
<1>2. \A x \in Requests : x.type \in Ops
  BY DEF Requests
<1>3. /\ \A x \in Answers : x.type = "REPLY"
      /\ \A x \in Doubts \cup Verdicts : x.type \in {"DOES_CLIENT_HAVE_LOCK", "CV_LOCK_TRACKER_RESPONSE"}
      /\ \A x \in Questions \cup Findings : x.type \in {"DO_YOU_HAVE", "HAVE", "DO_NOT_HAVE"}
  BY DEF Answers, Doubts, Verdicts, Questions, Findings
<1>4. \A t \in Ops : t \notin {"REPLY", "DOES_CLIENT_HAVE_LOCK", "CV_LOCK_TRACKER_RESPONSE", "DO_YOU_HAVE", "HAVE", "DO_NOT_HAVE"}
  BY DEF Ops, LockOps, UseOps, MVOps
<1>5. \A x \in Requests : /\ x \in MailOf(d) <=> (x.type # "DESTROY_MV" /\ x.from = d)
                          /\ x \notin DoubtOf(d)
  BY <1>1, <1>2, <1>4 DEF MailOf, DoubtOf, IsAbout
<1>6. \A x \in Answers : (x \in MailOf(d) <=> x.to = <<d, 0>>) /\ x \notin DoubtOf(d)
  BY <1>1, <1>3, <1>4 DEF MailOf, DoubtOf, IsAbout
<1>7. \A x \in Doubts \cup Verdicts : x \notin MailOf(d) /\ (x \in DoubtOf(d) <=> x.client = d)
  BY <1>1, <1>3, <1>4 DEF MailOf, DoubtOf, IsAbout
<1>8. \A x \in Questions \cup Findings : x \notin MailOf(d) /\ x \notin DoubtOf(d)
  BY <1>1, <1>3, <1>4 DEF MailOf, DoubtOf, IsAbout
<1> QED BY <1>5, <1>6, <1>7, <1>8

(* A message is the request or the answer of one client.                    *)
LEMMA OneOwner ==
    ASSUME NEW c \in Clients, NEW d \in Clients, NEW x \in MailOf(c), x \in MailOf(d)
    PROVE  c = d
<1>1. x \in Messages /\ IsAbout(x, c) /\ IsAbout(x, d)
  BY DEF MailOf
<1>2. "REPLY" \notin Ops
  BY DEF Ops, LockOps, UseOps, MVOps
<1> QED BY <1>1, <1>2 DEF IsAbout

(* Nothing is sent on.                                                      *)
LEMMA NothingPasses ==
    ASSUME NEW x, NEW bx \in Boxes
    PROVE  /\ Passes(Nothing, x, bx)
           /\ \A b \in Boxes : \A k \in DOMAIN Nothing[b] : FALSE
BY NothingMail DEF Passes

(* One message takes the place of the one that was handled.                 *)
LEMMA OnlyPasses ==
    ASSUME NEW y \in Messages, y.to \in Boxes, NEW x,
           \A d \in Clients : (y \in MailOf(d) => x \in MailOf(d)) /\ (y \in DoubtOf(d) => x \in DoubtOf(d))
    PROVE  /\ Passes(Only(y), x, y.to)
           /\ \A b \in Boxes : \A k \in DOMAIN Only(y)[b] : b = y.to /\ Only(y)[b][k] = y
BY OnlyMail DEF Passes

(* An answer takes the place of its request.                                *)
LEMMA RepliesPass ==
    ASSUME NEW c \in Machines, NEW x, c \in Clients => x \in MailOf(c)
    PROVE  /\ Passes(Replies(<<c>>), x, <<c, 0>>)
           /\ \A b \in Boxes : \A k \in DOMAIN Replies(<<c>>)[b] : b = <<c, 0>> /\ Replies(<<c>>)[b][k] = Reply(c, -1)
<1>1. PICK q : q = <<c>>
  OBVIOUS
<1>2. q \in Seq(Machines) /\ DOMAIN q = {1} /\ q[1] = c
  BY <1>1
<1>3. /\ Replies(q) \in Mails
      /\ \A b \in Boxes : \A k \in DOMAIN Replies(q)[b] :
            /\ b[2] = 0 /\ Replies(q)[b][k] = Reply(b[1], -1)
            /\ \E j \in DOMAIN q : q[j] = b[1]
      /\ \A d \in Clients : \A b \in Boxes :
            /\ Hit(Replies(q)[b], MailOf(d)) <=> (b = <<d, 0>> /\ Hit(q, {d}))
            /\ Single(q, {d}) => Single(Replies(q)[b], MailOf(d))
      /\ \A d \in Clients : \A b \in Boxes : ~Hit(Replies(q)[b], DoubtOf(d)) /\ Single(Replies(q)[b], DoubtOf(d))
  BY <1>2, RepliesMail
<1>4. \A b \in Boxes : b = <<b[1], b[2]>>
  BY BoxFacts
<1>5. \A d : Single(q, {d}) /\ (Hit(q, {d}) => d = c)
  BY <1>2 DEF Single, Hit
<1>6. <<c, 0>> \in Boxes
  BY BoxFacts
<1>7. Passes(Replies(q), x, <<c, 0>>)
  BY <1>3, <1>5, <1>6 DEF Passes
<1>8. \A b \in Boxes : \A k \in DOMAIN Replies(q)[b] : b = <<c, 0>> /\ Replies(q)[b][k] = Reply(c, -1)
  BY <1>2, <1>3, <1>4
<1> QED BY <1>1, <1>7, <1>8

(* A request that arrived.                                                  *)
LEMMA Requested ==
    ASSUME Inv, NEW src \in Machines, NEW b \in Boxes, net[<<src, b>>] # <<>>, First(src, b).type \in Ops
    PROVE  /\ First(src, b) \in Requests /\ First(src, b) \in Messages /\ First(src, b).to = b
           /\ b[1] \in Servers /\ GoodRequest(First(src, b), b)
           /\ First(src, b).from \in Machines /\ First(src, b).obj \in Existing(KindOf(First(src, b).type))
           /\ First(src, b).arg \in Args(First(src, b).type)
           /\ First(src, b).obj \in Numbers /\ First(src, b).arg \in Nat
<1>1. First(src, b) \in Requests /\ First(src, b) \in Messages /\ GoodMessage(First(src, b), b)
  BY Handled, Types
<1> QED BY <1>1 DEF Requests, GoodMessage, GoodRequest

(* An answer is good unless it is for a client that waits for a lock.       *)
LEMMA AnswerGood ==
    ASSUME NEW c \in Machines, NEW v \in Int, c \in Clients => call[c].op # "ACQUIRE"
    PROVE  /\ Reply(c, v) \in Answers /\ Reply(c, v) \in Messages /\ GoodMessage(Reply(c, v), <<c, 0>>)
           /\ Reply(c, v).to = <<c, 0>>
<1>1. Reply(c, v) \in Answers /\ Reply(c, v) \in Messages
  BY BoxFacts DEF Reply, Answers, Messages
<1>2. "REPLY" \notin Ops
  BY DEF Ops, LockOps, UseOps, MVOps
<1> QED BY <1>1, <1>2 DEF Reply, GoodMessage

-----------------------------------------------------------------------------
(* The handlers that only send mail                                        *)

(* The message is dropped.                                                  *)
LEMMA PlainNothing ==
    ASSUME Inv, NEW src \in Machines, NEW b \in Boxes, net[<<src, b>>] # <<>>, Handle(src, b, Nothing), LittleChanges
    PROVE  Inv'
<1>1. Passes(Nothing, First(src, b), b) /\ \A b2 \in Boxes : \A k \in DOMAIN Nothing[b2] : FALSE
  BY NothingPasses
<1>2. PICK mail : mail = Nothing
  OBVIOUS
<1> QED BY <1>1, <1>2, PlainInv

(* The message is passed on, or answered by another one.                    *)
LEMMA PlainOnly ==
    ASSUME Inv, NEW src \in Machines, NEW b \in Boxes, net[<<src, b>>] # <<>>,
           NEW y \in Messages, Handle(src, b, Only(y)), y.to \in Boxes, GoodMessage(y, y.to),
           \A d \in Clients : (y \in MailOf(d) => First(src, b) \in MailOf(d)) /\ (y \in DoubtOf(d) => First(src, b) \in DoubtOf(d)),
           LittleChanges
    PROVE  Inv'
<1>1. PICK m : m = First(src, b)
  OBVIOUS
<1>2. PICK mail : mail = Only(y)
  OBVIOUS
<1>3. Passes(Only(y), m, y.to) /\ \A b2 \in Boxes : \A k \in DOMAIN Only(y)[b2] : b2 = y.to /\ Only(y)[b2][k] = y
  <2>1. \A d \in Clients : (y \in MailOf(d) => m \in MailOf(d)) /\ (y \in DoubtOf(d) => m \in DoubtOf(d))
    BY <1>1
  <2> QED BY <2>1, OnlyPasses
<1> QED BY <1>1, <1>2, <1>3, PlainInv

(* The client is answered at once.                                          *)
LEMMA PlainReply ==
    ASSUME Inv, NEW src \in Machines, NEW b \in Boxes, net[<<src, b>>] # <<>>,
           NEW c \in Machines, Handle(src, b, Replies(<<c>>)),
           c \in Clients => First(src, b) \in MailOf(c) /\ call[c].op # "ACQUIRE",
           LittleChanges
    PROVE  Inv'
<1>1. PICK m : m = First(src, b)
  OBVIOUS
<1>2. PICK mail : mail = Replies(<<c>>)
  OBVIOUS
<1>3. /\ Passes(mail, m, <<c, 0>>)
      /\ \A b2 \in Boxes : \A k \in DOMAIN mail[b2] : b2 = <<c, 0>> /\ mail[b2][k] = Reply(c, -1)
  BY <1>1, <1>2, RepliesPass
<1>4. -1 \in Int
  OBVIOUS
<1>5. GoodMessage(Reply(c, -1), <<c, 0>>)
  BY <1>4, AnswerGood
<1> QED BY <1>1, <1>2, <1>3, <1>5, PlainInv

(* The operations on a lock, a condition or a variable that is not there.   *)
LEMMA PassOnInv == ASSUME Inv, NEW s \in Servers, NEW src \in Machines, PassOn(s, src) PROVE Inv'
<1>1. PICK b \in Boxes : b = <<s, 0>>
  BY BoxFacts
<1>2. PICK m : m = First(src, b)
  OBVIOUS
<1>3. /\ net[<<src, b>>] # <<>> /\ m.type \in Ops \ UseOps /\ ~Mine(s, m.obj)
      /\ Handle(src, b, Only([m EXCEPT !.to = <<s, 1>>]))
      /\ UNCHANGED <<tableVars, serverVars, clientVars>>
  BY <1>1, <1>2 DEF PassOn, At, Arrived, Message
<1>4. m \in Requests /\ m \in Messages /\ GoodRequest(m, b) /\ b[1] = s /\ b[2] = 0
  BY <1>1, <1>2, <1>3, Requested
<1>5. PICK y : y = [m EXCEPT !.to = <<s, 1>>]
  OBVIOUS
<1>6. y \in Requests /\ y \in Messages /\ y.to = <<s, 1>> /\ y.type = m.type /\ y.from = m.from /\ y.obj = m.obj /\ y.arg = m.arg
  BY <1>4, <1>5, BoxFacts DEF Requests, Messages
<1>7. m.from \in Clients
  BY <1>3, <1>4 DEF GoodRequest
<1>8. GoodRequest(y, <<s, 1>>)
  BY <1>4, <1>6, <1>7 DEF GoodRequest
<1>9. GoodMessage(y, <<s, 1>>)
  <2>1. y.type \in Ops
    BY <1>3, <1>6
  <2> QED BY <1>6, <1>8, <2>1 DEF GoodMessage, Ops, LockOps, UseOps, MVOps
<1>10. \A d \in Clients : (y \in MailOf(d) => m \in MailOf(d)) /\ (y \in DoubtOf(d) => m \in DoubtOf(d))
  BY <1>4, <1>6, Concerns
<1>11. LittleChanges
  BY <1>3, NoChanges
<1> QED BY <1>2, <1>3, <1>5, <1>6, <1>9, <1>10, <1>11, BoxFacts, PlainOnly

(* The condition is of another server, which mailbox 1 is to look for.       *)
LEMMA PassOnCVInv == ASSUME Inv, NEW s \in Servers, NEW src \in Machines, PassOnCV(s, src) PROVE Inv'
<1>1. PICK b \in Boxes : b = <<s, 0>>
  BY BoxFacts
<1>2. PICK m : m = First(src, b)
  OBVIOUS
<1>3. /\ net[<<src, b>>] # <<>> /\ m.type \in UseOps
      /\ Handle(src, b, Only([m EXCEPT !.to = <<s, 1>>]))
      /\ UNCHANGED <<tableVars, serverVars, clientVars>>
  BY <1>1, <1>2 DEF PassOnCV, HasLock, At, Arrived, Message
<1>4. m.type \in Ops /\ m.type # "RELEASE"
  BY <1>3 DEF Ops, UseOps
<1>5. m \in Requests /\ m \in Messages /\ GoodRequest(m, b) /\ b[1] = s /\ b[2] = 0
  BY <1>1, <1>2, <1>3, <1>4, Requested
<1>6. PICK y : y = [m EXCEPT !.to = <<s, 1>>]
  OBVIOUS
<1>7. y \in Requests /\ y \in Messages /\ y.to = <<s, 1>> /\ y.type = m.type /\ y.from = m.from /\ y.obj = m.obj /\ y.arg = m.arg
  BY <1>5, <1>6, BoxFacts DEF Requests, Messages
<1>8. GoodRequest(y, <<s, 1>>)
  BY <1>4, <1>5, <1>7 DEF GoodRequest
<1>9. GoodMessage(y, <<s, 1>>)
  BY <1>4, <1>7, <1>8 DEF GoodMessage, Ops, LockOps, UseOps, MVOps
<1>10. \A d \in Clients : (y \in MailOf(d) => m \in MailOf(d)) /\ (y \in DoubtOf(d) => m \in DoubtOf(d))
  BY <1>5, <1>7, Concerns
<1>11. LittleChanges
  BY <1>3, NoChanges
<1> QED BY <1>2, <1>3, <1>6, <1>7, <1>9, <1>10, <1>11, BoxFacts, PlainOnly

(* The lock is gone.                                                        *)
LEMMA NoSuchLockInv == ASSUME Inv, NEW s \in Servers, NEW src \in Machines, NoSuchLock(s, src) PROVE Inv'
<1>1. PICK b \in Boxes : b = <<s, 0>>
  BY BoxFacts
<1>2. PICK m : m = First(src, b)
  OBVIOUS
<1>3. /\ net[<<src, b>>] # <<>> /\ m.type \in UseOps
      /\ Handle(src, b, IF m.type = "WAIT" THEN Nothing ELSE Replies(<<m.from>>))
      /\ UNCHANGED <<tableVars, serverVars, clientVars>>
  BY <1>1, <1>2 DEF NoSuchLock, At, Arrived, Message
<1>4. LittleChanges
  BY <1>3, NoChanges
<1>5. m.type \in Ops /\ m.type \notin {"RELEASE", "DESTROY_MV", "ACQUIRE"}
  BY <1>3 DEF Ops, UseOps
<1>6. m \in Requests /\ GoodRequest(m, b) /\ m.from \in Machines
  BY <1>2, <1>3, <1>5, Requested
<1>7. m.from \in Clients => m \in MailOf(m.from) /\ call[m.from].op # "ACQUIRE"
  BY <1>5, <1>6, Concerns DEF GoodRequest, Asks
<1>8. CASE m.type = "WAIT"
  BY <1>3, <1>4, <1>8, PlainNothing
<1>9. CASE m.type # "WAIT"
  BY <1>2, <1>3, <1>4, <1>6, <1>7, <1>9, PlainReply
<1> QED BY <1>8, <1>9

(* A message that no case of the switch knows.                              *)
LEMMA NoMessageTypeInv == ASSUME Inv, NEW s \in Servers, NEW src \in Machines, NoMessageType(s, src) PROVE Inv'
<1>1. PICK b \in Boxes : b = <<s, 0>>
  BY BoxFacts
<1>2. net[<<src, b>>] # <<>> /\ Handle(src, b, Nothing) /\ UNCHANGED <<tableVars, serverVars, clientVars>>
  BY <1>1 DEF NoMessageType, At, Arrived, Message
<1> QED BY <1>2, NoChanges, PlainNothing

(* A condition is destroyed, or will be.                                    *)
LEMMA DestroyCVInv == ASSUME Inv, NEW s \in Servers, NEW src \in Machines, DestroyCV(s, src) PROVE Inv'
<1>1. PICK b \in Boxes : b = <<s, 0>>
  BY BoxFacts
<1>2. PICK m : m = First(src, b)
  OBVIOUS
<1>3. /\ net[<<src, b>>] # <<>> /\ m.type = "DESTROY_CV" /\ Handle(src, b, Nothing)
      /\ cond' = [cond EXCEPT ![m.obj] =
                      IF ~cond[m.obj].live \/ m.obj >= MaxObjects THEN cond[m.obj]
                      ELSE IF cond[m.obj].queue # <<>> THEN [cond[m.obj] EXCEPT !.isToBeDeleted = TRUE]
                      ELSE Dead(cond[m.obj])]
      /\ UNCHANGED <<lock, mv, serverVars, clientVars>>
  BY <1>1, <1>2 DEF DestroyCV, Local, At, Arrived, Message
<1>4. m.type \in Ops /\ KindOf(m.type) = "cv"
  BY <1>3 DEF Ops, KindOf, LockOps, MVOps
<1>5. m.obj \in CVNums
  BY <1>2, <1>3, <1>4, Requested DEF Existing
<1> DEFINE Conds == [live : BOOLEAN, waitingLock : Numbers \cup {-1}, queue : Seq(Clients), isToBeDeleted : BOOLEAN]
<1>6. TypeOK /\ queryQueue \in [Servers -> Seq(Queries)]
  BY DEF Inv, StateOK
<1>7. cond \in [CVNums -> Conds]
  BY <1>6 DEF TypeOK
<1>8. PICK D : D = IF ~cond[m.obj].live \/ m.obj >= MaxObjects THEN cond[m.obj]
                   ELSE IF cond[m.obj].queue # <<>> THEN [cond[m.obj] EXCEPT !.isToBeDeleted = TRUE]
                   ELSE Dead(cond[m.obj])
  OBVIOUS
<1>9. D \in Conds /\ D.queue = cond[m.obj].queue
  BY <1>5, <1>7, <1>8 DEF Dead
<1>10. cond' = [cond EXCEPT ![m.obj] = D]
  BY <1>3, <1>8
<1>11. cond' \in [CVNums -> Conds] /\ \A k \in CVNums : cond'[k].queue = cond[k].queue
  BY <1>5, <1>7, <1>9, <1>10
<1>12. LittleChanges
  BY <1>3, <1>6, <1>11 DEF LittleChanges, QueuesKept, TypeOK, serverVars, clientVars
<1> QED BY <1>3, <1>12, PlainNothing

(* A request other than the RELEASE of a server is a client's.              *)
LEMMA Asked ==
    ASSUME Inv, NEW src \in Machines, NEW b \in Boxes, net[<<src, b>>] # <<>>,
           First(src, b).type \in Ops \ {"RELEASE", "DESTROY_MV"}
    PROVE  /\ First(src, b).from \in Clients /\ First(src, b) \in MailOf(First(src, b).from)
           /\ call[First(src, b).from] =
                 [op |-> First(src, b).type, obj |-> First(src, b).obj, arg |-> First(src, b).arg]
BY Requested, Concerns DEF GoodRequest, Asks

(* A variable is read.                                                      *)
LEMMA GetMVInv == ASSUME Inv, NEW s \in Servers, NEW src \in Machines, GetMV(s, src) PROVE Inv'
<1>1. PICK b \in Boxes : b = <<s, 0>>
  BY BoxFacts
<1>2. PICK m : m = First(src, b)
  OBVIOUS
<1>3. PICK v : v = IF mv[m.obj].live THEN mv[m.obj].value ELSE -1
  OBVIOUS
<1>4. /\ net[<<src, b>>] # <<>> /\ m.type = "GET_MV" /\ Handle(src, b, Only(Reply(m.from, v)))
      /\ UNCHANGED <<tableVars, serverVars, clientVars>>
  BY <1>1, <1>2, <1>3 DEF GetMV, Local, At, Arrived, Message
<1>5. m.type \in Ops /\ KindOf(m.type) = "mv"
  BY <1>4 DEF Ops, KindOf, LockOps, MVOps
<1>6. m.obj \in MVNums
  BY <1>2, <1>4, <1>5, Requested DEF Existing
<1>7. v \in Int
  <2>1. mv[m.obj].value \in Values
    BY <1>6 DEF Inv, StateOK, TypeOK
  <2>2. -1 \in Int
    OBVIOUS
  <2>3. Values \subseteq Nat
    BY UseAssumption
  <2>4. \A u \in Values : u \in Int
    BY <2>3
  <2> QED BY <1>3, <2>1, <2>2, <2>4
<1>8. m.from \in Clients /\ m \in MailOf(m.from) /\ call[m.from].op = "GET_MV" /\ m.from \in Machines
  <2>1. m.type \in Ops \ {"RELEASE", "DESTROY_MV"}
    BY <1>2, <1>4, <1>5
  <2>2. m.from \in Clients /\ m \in MailOf(m.from) /\ call[m.from] = [op |-> m.type, obj |-> m.obj, arg |-> m.arg]
    BY <1>2, <1>4, <1>5, <2>1, Asked
  <2> QED BY <1>2, <1>4, <1>5, <2>2, BoxFacts
<1>9. PICK c \in Clients : c = m.from
  BY <1>8
<1>10. PICK y : y = Reply(c, v)
  OBVIOUS
<1>11. y \in Answers /\ y \in Messages /\ GoodMessage(y, <<c, 0>>) /\ y.to = <<c, 0>>
  BY <1>7, <1>8, <1>9, <1>10, AnswerGood
<1>12. \A d \in Clients : (y \in MailOf(d) => m \in MailOf(d)) /\ (y \in DoubtOf(d) => m \in DoubtOf(d))
  BY <1>8, <1>9, <1>11, Concerns
<1>13. LittleChanges
  BY <1>4, NoChanges
<1> QED BY <1>2, <1>4, <1>8, <1>9, <1>10, <1>11, <1>12, <1>13, BoxFacts, PlainOnly

(* A variable is written.                                                   *)
LEMMA SetMVInv == ASSUME Inv, NEW s \in Servers, NEW src \in Machines, SetMV(s, src) PROVE Inv'
<1>1. PICK b \in Boxes : b = <<s, 0>>
  BY BoxFacts
<1>2. PICK m : m = First(src, b)
  OBVIOUS
<1>3. /\ net[<<src, b>>] # <<>> /\ m.type = "SET_MV" /\ Handle(src, b, Replies(<<m.from>>))
      /\ mv' = [mv EXCEPT ![m.obj].value = IF mv[m.obj].live THEN m.arg ELSE @]
      /\ UNCHANGED <<lock, cond, serverVars, clientVars>>
  BY <1>1, <1>2 DEF SetMV, Local, At, Arrived, Message
<1>4. m.type \in Ops /\ KindOf(m.type) = "mv" /\ Args(m.type) = Values
  BY <1>3 DEF Ops, KindOf, LockOps, MVOps, Args, UseOps
<1>5. m.obj \in MVNums /\ m.arg \in Values
  BY <1>2, <1>3, <1>4, Requested DEF Existing
<1>6. TypeOK /\ queryQueue \in [Servers -> Seq(Queries)]
  BY DEF Inv, StateOK
<1>7. mv' \in [MVNums -> [live : BOOLEAN, value : Values]]
  BY <1>3, <1>5, <1>6 DEF TypeOK
<1>8. LittleChanges
  BY <1>3, <1>6, <1>7 DEF LittleChanges, QueuesKept, TypeOK, serverVars, clientVars
<1>9. m.from \in Clients /\ m \in MailOf(m.from) /\ call[m.from].op = "SET_MV" /\ m.from \in Machines
  <2>1. m.type \in Ops \ {"RELEASE", "DESTROY_MV"}
    BY <1>2, <1>3, <1>4
  <2>2. m.from \in Clients /\ m \in MailOf(m.from) /\ call[m.from] = [op |-> m.type, obj |-> m.obj, arg |-> m.arg]
    BY <1>2, <1>3, <1>4, <2>1, Asked
  <2> QED BY <1>2, <1>3, <1>4, <2>2, BoxFacts
<1> QED BY <1>2, <1>3, <1>8, <1>9, PlainReply

(* A variable is destroyed.                                                 *)
LEMMA DestroyMVInv == ASSUME Inv, NEW s \in Servers, NEW src \in Machines, DestroyMV(s, src) PROVE Inv'
<1>1. PICK b \in Boxes : b = <<s, 0>>
  BY BoxFacts
<1>2. PICK m : m = First(src, b)
  OBVIOUS
<1>3. /\ net[<<src, b>>] # <<>> /\ m.type = "DESTROY_MV" /\ Handle(src, b, Nothing)
      /\ mv' = [mv EXCEPT ![m.obj].live = FALSE]
      /\ UNCHANGED <<lock, cond, serverVars, clientVars>>
  BY <1>1, <1>2 DEF DestroyMV, Local, At, Arrived, Message
<1>4. TypeOK /\ queryQueue \in [Servers -> Seq(Queries)]
  BY DEF Inv, StateOK
<1>5. mv' \in [MVNums -> [live : BOOLEAN, value : Values]]
  BY <1>3, <1>4 DEF TypeOK
<1>6. LittleChanges
  BY <1>3, <1>4, <1>5 DEF LittleChanges, QueuesKept, TypeOK, serverVars, clientVars
<1> QED BY <1>3, <1>6, PlainNothing

(* The server of the lock says who has it.                                  *)
LEMMA DoesClientHaveLockInv ==
    ASSUME Inv, NEW s \in Servers, NEW src \in Machines, DoesClientHaveLock(s, src)
    PROVE  Inv'
<1>1. PICK b \in Boxes : b = <<s, 0>>
  BY BoxFacts
<1>2. PICK m : m = First(src, b)
  OBVIOUS
<1>3. PICK y : y = [to |-> <<m.from, 0>>, type |-> "CV_LOCK_TRACKER_RESPONSE", client |-> m.client,
                    lockNum |-> m.lockNum, held |-> lock[m.lockNum].owner = m.client]
  OBVIOUS
<1>4. /\ net[<<src, b>>] # <<>> /\ m.type = "DOES_CLIENT_HAVE_LOCK"
      /\ Handle(src, b, IF lock[m.lockNum].live THEN Only(y) ELSE Nothing)
      /\ UNCHANGED <<tableVars, serverVars, clientVars>>
  BY <1>1, <1>2, <1>3 DEF DoesClientHaveLock, At, Arrived, Message
<1>5. m \in Doubts /\ GoodMessage(m, b)
  BY <1>2, <1>4, Handled, Types
<1>6. m.from \in Servers /\ m.client \in Clients /\ m.lockNum \in LockNums /\ PutOff(m.from, m.client, m.lockNum)
  BY <1>4, <1>5 DEF Doubts, GoodMessage
<1>7. y \in Verdicts /\ y \in Messages /\ y.to = <<m.from, 0>> /\ y.type = "CV_LOCK_TRACKER_RESPONSE"
      /\ y.client = m.client /\ y.lockNum = m.lockNum /\ <<m.from, 0>> \in Boxes
  BY <1>3, <1>6, BoxFacts DEF Verdicts, Messages
<1>8. "CV_LOCK_TRACKER_RESPONSE" \notin Ops
  BY DEF Ops, LockOps, UseOps, MVOps
<1>9. GoodMessage(y, <<m.from, 0>>)
  BY <1>6, <1>7, <1>8 DEF GoodMessage
<1>10. \A d \in Clients : (y \in MailOf(d) => m \in MailOf(d)) /\ (y \in DoubtOf(d) => m \in DoubtOf(d))
  BY <1>5, <1>7, Concerns
<1>11. LittleChanges
  BY <1>4, NoChanges
<1>12. CASE lock[m.lockNum].live
  BY <1>2, <1>4, <1>7, <1>9, <1>10, <1>11, <1>12, PlainOnly
<1>13. CASE ~lock[m.lockNum].live
  BY <1>4, <1>11, <1>13, PlainNothing
<1> QED BY <1>12, <1>13

(* The thread of mailbox 1 answers others.                                  *)
LEMMA AnswerInv == ASSUME Inv, NEW s \in Servers, NEW src \in Machines, Answer(s, src) PROVE Inv'
<1>1. PICK b \in Boxes : b = <<s, 1>>
  BY BoxFacts
<1>2. PICK m : m = First(src, b)
  OBVIOUS
<1>3. PICK y : y = [to |-> <<m.from, 1>>, type |-> IF Have(s, m) THEN "HAVE" ELSE "DO_NOT_HAVE", from |-> s, id |-> m.id]
  OBVIOUS
<1>4. /\ net[<<src, b>>] # <<>> /\ m.type = "DO_YOU_HAVE" /\ Handle(src, b, Only(y))
      /\ UNCHANGED <<tableVars, serverVars, clientVars>>
  BY <1>1, <1>2, <1>3 DEF Answer, At1, Arrived
<1>5. m \in Questions
  BY <1>2, <1>4, Handled, Types
<1>6. m.from \in Servers /\ m.id \in Nat
  BY <1>5 DEF Questions
<1>7. y \in Findings /\ y \in Messages /\ y.to = <<m.from, 1>> /\ y.type \in {"HAVE", "DO_NOT_HAVE"} /\ <<m.from, 1>> \in Boxes
  BY <1>3, <1>6, BoxFacts DEF Findings, Messages
<1>8. "HAVE" \notin Ops /\ "DO_NOT_HAVE" \notin Ops
  BY DEF Ops, LockOps, UseOps, MVOps
<1>9. GoodMessage(y, <<m.from, 1>>)
  BY <1>6, <1>7, <1>8 DEF GoodMessage
<1>10. \A d \in Clients : (y \in MailOf(d) => m \in MailOf(d)) /\ (y \in DoubtOf(d) => m \in DoubtOf(d))
  BY <1>5, <1>7, Concerns
<1>11. LittleChanges
  BY <1>4, NoChanges
<1> QED BY <1>2, <1>4, <1>7, <1>9, <1>10, <1>11, PlainOnly

(* A server says that it does not have the object.                          *)
LEMMA NotFoundInv == ASSUME Inv, NEW s \in Servers, NEW src \in Machines, NotFound(s, src) PROVE Inv'
<1>1. PICK b \in Boxes : b = <<s, 1>>
  BY BoxFacts
<1>2. PICK m : m = First(src, b)
  OBVIOUS
<1>3. /\ net[<<src, b>>] # <<>> /\ Handle(src, b, Nothing)
      /\ queryQueue' = IF 1 \in QueryAt(s, m.id)
                       THEN [queryQueue EXCEPT ![s][1].numResponsesReceived = @ + 1] ELSE queryQueue
      /\ UNCHANGED <<tableVars, nextQueryID, cvLockTrackerList, down, clientVars>>
  BY <1>1, <1>2 DEF NotFound, At1, Arrived
<1>4. TypeOK /\ queryQueue \in [Servers -> Seq(Queries)]
  BY DEF Inv, StateOK
<1>5. /\ queryQueue' \in [Servers -> Seq(Queries)]
      /\ \A t \in Servers : /\ DOMAIN queryQueue'[t] = DOMAIN queryQueue[t]
                            /\ \A i \in DOMAIN queryQueue[t] : queryQueue'[t][i].data = queryQueue[t][i].data
  <2>1. CASE 1 \in QueryAt(s, m.id)
    <3>1. PICK q : q = queryQueue[s]
      OBVIOUS
    <3>2. q \in Seq(Queries) /\ 1 \in DOMAIN q /\ DOMAIN q = 1 .. Len(q)
      BY <1>4, <2>1, <3>1 DEF QueryAt
    <3>3. PICK r : r = [q EXCEPT ![1].numResponsesReceived = @ + 1]
      OBVIOUS
    <3>4. q[1] \in Queries
      BY <3>2
    <3>5. [q[1] EXCEPT !.numResponsesReceived = @ + 1] \in Queries
      BY <3>4 DEF Queries
    <3>6. r = [q EXCEPT ![1] = [q[1] EXCEPT !.numResponsesReceived = @ + 1]]
      BY <3>3
    <3>7. r \in Seq(Queries) /\ DOMAIN r = DOMAIN q /\ \A i \in DOMAIN q : r[i].data = q[i].data
      BY <3>2, <3>4, <3>5, <3>6
    <3>8. queryQueue' = [queryQueue EXCEPT ![s] = r]
      BY <1>3, <1>4, <2>1, <3>1, <3>3
    <3> QED BY <1>4, <3>1, <3>7, <3>8
  <2>2. CASE 1 \notin QueryAt(s, m.id)
    BY <1>3, <1>4, <2>2
  <2> QED BY <2>1, <2>2
<1>6. LittleChanges
  BY <1>3, <1>4, <1>5 DEF LittleChanges, QueuesKept, TypeOK, tableVars, clientVars
<1> QED BY <1>3, <1>6, PlainNothing

-----------------------------------------------------------------------------
(* The locks                                                               *)

Locks == [live : BOOLEAN, owner : Machines \cup {NoOne}, queue : Seq(Clients),
          acquireCount : Int, isToBeDeleted : BOOLEAN]

(* The operations on locks and those on conditions.                         *)
LEMMA OpFacts ==
    /\ \A op \in LockOps : Existing(KindOf(op)) = LockNums
    /\ \A op \in UseOps : Existing(KindOf(op)) = CVNums /\ Args(op) = LockNums
    /\ LockOps \cup UseOps \cup MVOps \subseteq Ops
    /\ Idle.op \notin Ops
BY DEF LockOps, UseOps, MVOps, Ops, KindOf, Existing, Args, Idle

(* What a client waits for.                                                 *)
LEMMA Called ==
    ASSUME StateOK, NEW c \in Clients
    PROVE  /\ call[c].op \in LockOps => call[c].obj \in LockNums
           /\ call[c].op \in UseOps => call[c].obj \in CVNums /\ call[c].arg \in LockNums
           /\ call[c] = Idle \/ call[c] \in Contents
<1>1. call[c] = Idle \/ call[c] \in Contents
  BY DEF StateOK
<1>2. call[c] \in Contents =>
         call[c].op \in Ops /\ call[c].obj \in Existing(KindOf(call[c].op)) /\ call[c].arg \in Args(call[c].op)
  BY DEF Contents
<1> QED BY <1>1, <1>2, OpFacts

(* What Inv says of one lock: those that wait for it, and that nobody does
   any more when it is destroyed.                                           *)
LEMMA OneLock ==
    ASSUME Inv, NEW k \in LockNums
    PROVE  /\ lock \in [LockNums -> Locks] /\ lock[k] \in Locks
           /\ lock[k].owner \in Clients \cup {NoOne}
           /\ ~lock[k].live \/ lock[k].isToBeDeleted => <<"lock", k>> \in retired
           /\ \A i \in DOMAIN lock[k].queue : /\ lock[k].queue[i] \in Clients
                                              /\ call[lock[k].queue[i]].op = "ACQUIRE"
                                              /\ call[lock[k].queue[i]].obj = k
           /\ <<"lock", k>> \in retired => lock[k].queue = <<>>
           /\ lock[k].queue # <<>> => /\ Head(lock[k].queue) = lock[k].queue[1]
                                      /\ 1 \in DOMAIN lock[k].queue
<1>1. lock \in [LockNums -> Locks] /\ lock[k] \in Locks /\ lock[k].owner \in Clients \cup {NoOne}
  BY DEF Inv, StateOK, TypeOK, Locks
<1>2. lock[k].queue \in Seq(Clients)
  BY <1>1 DEF Locks
<1>3. \A i \in DOMAIN lock[k].queue : /\ lock[k].queue[i] \in Clients
                                      /\ call[lock[k].queue[i]].op = "ACQUIRE"
                                      /\ call[lock[k].queue[i]].obj = k
  BY <1>2 DEF Inv, GoodQueues
<1>4. lock[k].queue # <<>> => 1 \in DOMAIN lock[k].queue /\ Head(lock[k].queue) = lock[k].queue[1]
  BY <1>2, HeadTailProperties, EmptySeq
<1>5. <<"lock", k>> \in retired => lock[k].queue = <<>>
  BY <1>3, <1>4 DEF Inv, Retirement
<1>6. ~lock[k].live \/ lock[k].isToBeDeleted => <<"lock", k>> \in retired
  BY DEF Inv, Retirement
<1> QED BY <1>1, <1>3, <1>4, <1>5, <1>6

(* Who sleeps on a condition waits.                                         *)
LEMMA SleeperWaits ==
    ASSUME GoodQueues, NEW c, NEW k \in CVNums, c \in Elements(cond[k].queue)
    PROVE  call[c].op = "WAIT" /\ call[c].obj = k
<1>1. PICK q : q = cond[k].queue
  OBVIOUS
<1>2. PICK i \in 1 .. Len(q) : q[i] = c
  BY <1>1 DEF Elements
<1> QED BY <1>1, <1>2 DEF GoodQueues

(* Lock k becomes M.                                                        *)
LEMMA QueuedAfter ==
    ASSUME lock \in [LockNums -> Locks], NEW k \in LockNums, NEW M, lock' = [lock EXCEPT ![k] = M],
           NEW d \in Clients
    PROVE  /\ QueuedAt(d)' = (QueuedAt(d) \ {k}) \cup (IF Hit(M.queue, {d}) THEN {k} ELSE {})
           /\ (\A l \in LockNums : Single(lock[l].queue, {d})) /\ Single(M.queue, {d})
              => \A l \in LockNums : Single(lock'[l].queue, {d})
<1>1. \A l \in LockNums : lock'[l] = IF l = k THEN M ELSE lock[l]
  OBVIOUS
<1>2. \A l : l \in QueuedAt(d)' <=> l \in LockNums /\ Hit(lock'[l].queue, {d})
  BY DEF QueuedAt
<1>3. \A l : l \in QueuedAt(d) <=> l \in LockNums /\ Hit(lock[l].queue, {d})
  BY DEF QueuedAt
<1>4. QueuedAt(d)' = (QueuedAt(d) \ {k}) \cup (IF Hit(M.queue, {d}) THEN {k} ELSE {})
  BY <1>1, <1>2, <1>3
<1>5. (\A l \in LockNums : Single(lock[l].queue, {d})) /\ Single(M.queue, {d})
      => \A l \in LockNums : Single(lock'[l].queue, {d})
  BY <1>1
<1> QED BY <1>4, <1>5

(* The message is handled by sending mail and changing lock k to M, which
   has the owner that clients know of.                                      *)
LockChange(src, b, mail, k, M) ==
    /\ net[<<src, b>>] # <<>> /\ mail \in Mails /\ Handle(src, b, mail)
    /\ \A b2 \in Boxes : \A j \in DOMAIN mail[b2] : \A y : y = mail[b2][j] => GoodMessage(y, b2)'
    /\ M \in Locks /\ lock' = [lock EXCEPT ![k] = M]
    /\ M.owner \in Clients \cup {NoOne}
    /\ ~M.live \/ M.isToBeDeleted => <<"lock", k>> \in retired
    /\ \A c \in Clients : k \in holds[c] => M.live /\ M.owner = c
    /\ \A c \in Clients : call[c].op = "ACQUIRE" /\ call[c].obj = k /\ lock[k].live /\ lock[k].owner = c
                          => M.live /\ M.owner = c
    /\ UNCHANGED <<mv, serverVars, clientVars>>
    /\ cond' \in [CVNums -> [live : BOOLEAN, waitingLock : Numbers \cup {-1}, queue : Seq(Clients),
                             isToBeDeleted : BOOLEAN]]

(* What stays when one lock changes.                                        *)
LEMMA LockStep ==
    ASSUME Inv, NEW src \in Machines, NEW b \in Boxes, NEW mail, NEW k \in LockNums, NEW M,
           LockChange(src, b, mail, k, M)
    PROVE  StateOK' /\ GoodMail' /\ GoodQueries' /\ GoodTrackers' /\ Ownership' /\ Retirement'
<1> USE DEF LockChange
<1>1. UNCHANGED <<queryQueue, nextQueryID, cvLockTrackerList, down, call, calls, holds, retired>>
  BY DEF serverVars, clientVars
<1>2. lock \in [LockNums -> Locks] /\ StateOK
  BY OneLock DEF Inv
<1>3. lock' \in [LockNums -> Locks] /\ \A l \in LockNums : lock'[l] = IF l = k THEN M ELSE lock[l]
  BY <1>2
<1>4. StateOK'
  <2>1. net' \in [Channels -> Seq(Messages)]
    BY <1>2, HandleTyped DEF StateOK
  <2>2. \A l \in LockNums : lock'[l].owner \in Clients \cup {NoOne}
    BY <1>2, <1>3 DEF StateOK
  <2> QED BY <1>1, <1>2, <1>3, <2>1, <2>2 DEF StateOK, TypeOK, Locks
<1>5. GoodMail'
  <2>1. ASSUME NEW ch \in Channels, NEW i \in DOMAIN net[ch], NEW y \in Messages,
               y = net[ch][i], GoodMessage(y, ch[2])
        PROVE  GoodMessage(y, ch[2])'
    <3>1. PICK b2 \in Boxes : b2 = ch[2]
      BY BoxFacts
    <3>2. y.type = "DOES_CLIENT_HAVE_LOCK" =>
              (PutOff(y.from, y.client, y.lockNum) => PutOff(y.from, y.client, y.lockNum)')
      BY <1>1 DEF PutOff
    <3>3. y.type = "CV_LOCK_TRACKER_RESPONSE" =>
              (PutOff(b2[1], y.client, y.lockNum) => PutOff(b2[1], y.client, y.lockNum)')
      BY <1>1 DEF PutOff
    <3>4. \A c \in Clients : call[c].op = "ACQUIRE" /\ Owns(c, call[c].obj) => Owns(c, call[c].obj)'
      <4> SUFFICES ASSUME NEW c \in Clients, call[c].op = "ACQUIRE", Owns(c, call[c].obj)
                   PROVE  Owns(c, call[c].obj)'
        OBVIOUS
      <4>1. call[c].obj \in LockNums
        BY <1>2, Called DEF LockOps
      <4>2. lock[call[c].obj].live /\ lock[call[c].obj].owner = c
        BY DEF Owns
      <4>3. lock'[call[c].obj].live /\ lock'[call[c].obj].owner = c
        BY <1>3, <4>1, <4>2
      <4> QED BY <1>1, <4>3 DEF Owns
    <3>5. y.type = "REPLY" /\ b2[1] \in Clients /\ call[b2[1]].op = "ACQUIRE" =>
              (Owns(b2[1], call[b2[1]].obj) => Owns(b2[1], call[b2[1]].obj)')
      BY <3>4
    <3>6. GoodMessage(y, b2)'
      BY <1>1, <2>1, <3>1, <3>2, <3>3, <3>5, StaysGood
    <3> QED BY <3>1, <3>6
  <2> QED BY <2>1, MailStep
<1>6. GoodQueries' /\ GoodTrackers'
  BY <1>1 DEF Inv, GoodQueries, GoodTrackers, GoodRequest, Asks
<1>7. Ownership'
  <2>1. ASSUME NEW c \in Clients, NEW l \in holds[c] PROVE lock'[l].live /\ lock'[l].owner = c
    <3>1. l \in LockNums /\ Owns(c, l)
      BY <1>2 DEF StateOK, TypeOK, Inv, Ownership
    <3> QED BY <1>3, <3>1 DEF Owns
  <2> QED BY <1>1, <2>1 DEF Inv, Ownership, Owns
<1>8. Retirement'
  BY <1>1, <1>3 DEF Inv, Retirement
<1> QED BY <1>4, <1>5, <1>6, <1>7, <1>8

(* A lock that is destroyed.                                                *)
LEMMA DeadFacts ==
    ASSUME NEW N \in Locks
    PROVE  /\ Dead(N) \in Locks /\ Dead(N).owner = N.owner /\ Dead(N).queue = <<>> /\ ~Dead(N).live
           /\ Dead(N).isToBeDeleted = N.isToBeDeleted
<1>1. <<>> \in Seq(Clients)
  OBVIOUS
<1> QED BY <1>1 DEF Locks, Dead

(* What a client holds and what it asks for do not mix.                     *)
LEMMA CallerIn ==
    ASSUME Inv, NEW c \in Clients, NEW k
    PROVE  /\ k \in holds[c] /\ call[c].op = "RELEASE" => call[c].obj # k
           /\ k \in holds[c] /\ call[c].op = "WAIT" => call[c].arg # k
           /\ k \in holds[c] => k \in LockNums /\ lock[k].live /\ lock[k].owner = c /\ <<"lock", k>> \notin retired
           /\ call[c].op \in {"ACQUIRE", "RELEASE"} => <<"lock", call[c].obj>> \notin retired
           /\ call[c].op = "WAIT" => <<"lock", call[c].arg>> \notin retired
<1>1. holds \in [Clients -> SUBSET LockNums]
  BY DEF Inv, StateOK, TypeOK
<1>2. Ownership /\ Retirement
  BY DEF Inv
<1>3. /\ k \in holds[c] /\ call[c].op = "RELEASE" => call[c].obj # k
      /\ k \in holds[c] /\ call[c].op = "WAIT" => call[c].arg # k
      /\ k \in holds[c] => k \in LockNums /\ lock[k].live /\ lock[k].owner = c /\ <<"lock", k>> \notin retired
  BY <1>1, <1>2 DEF Ownership, Owns
<1>4. /\ call[c].op \in {"ACQUIRE", "RELEASE"} => <<"lock", call[c].obj>> \notin retired
      /\ call[c].op = "WAIT" => <<"lock", call[c].arg>> \notin retired
  BY <1>2 DEF Retirement
<1> QED BY <1>3, <1>4

(* Release makes lock k M, and n gets it.                                   *)
Releases(c, k, M, n) ==
    /\ c \in Clients => \/ call[c].op = "RELEASE" /\ call[c].obj = k
                        \/ call[c].op = "WAIT" /\ call[c].arg = k
    /\ M = Released(lock[k], c) /\ n = NextOwner(lock[k], c)

(* The queue of the lock that becomes M, and who is told.                   *)
HandsOver(k, M, n) ==
    \/ n = <<>> /\ M.queue = lock[k].queue
    \/ /\ lock[k].queue # <<>> /\ M.queue = Tail(lock[k].queue)
       /\ n = <<Head(lock[k].queue)>> /\ Head(lock[k].queue) \in Clients
       /\ call[Head(lock[k].queue)].op = "ACQUIRE" /\ call[Head(lock[k].queue)].obj = k
       /\ M.live /\ M.owner = Head(lock[k].queue)

(* A lock that c releases, with its client's name or the server's, goes to
   the first of those that wait for it.                                     *)
LEMMA ReleasedFacts ==
    ASSUME Inv, NEW k \in LockNums, NEW c \in Machines,
           NEW M, NEW n, Releases(c, k, M, n)
    PROVE  /\ M \in Locks /\ M.owner \in Clients \cup {NoOne}
           /\ ~M.live \/ M.isToBeDeleted => <<"lock", k>> \in retired
           /\ \A d \in Clients : k \in holds[d] => M.live /\ M.owner = d
           /\ \A d \in Clients : call[d].op = "ACQUIRE" /\ call[d].obj = k /\ lock[k].live /\ lock[k].owner = d
                                 => M.live /\ M.owner = d
           /\ lock[k].live => M.owner # c
           /\ \A d \in Clients : M.owner = d => lock[k].owner = d \/ call[d].op = "ACQUIRE"
           /\ HandsOver(k, M, n)
<1> USE DEF Releases, HandsOver
<1>1. PICK L : L = lock[k]
  OBVIOUS
<1>2. /\ L \in Locks /\ L.owner \in Clients \cup {NoOne}
      /\ ~L.live \/ L.isToBeDeleted => <<"lock", k>> \in retired
      /\ \A i \in DOMAIN L.queue : L.queue[i] \in Clients /\ call[L.queue[i]].op = "ACQUIRE" /\ call[L.queue[i]].obj = k
      /\ <<"lock", k>> \in retired => L.queue = <<>>
      /\ L.queue # <<>> => Head(L.queue) = L.queue[1] /\ 1 \in DOMAIN L.queue
  BY <1>1, OneLock
<1>3. NoOne \notin Machines /\ \A d \in Clients : d \in Machines
  BY BoxFacts
<1>4. \A d \in Clients : (\/ k \in holds[d] /\ d # c
                          \/ call[d].op = "ACQUIRE" /\ call[d].obj = k)
                         => <<"lock", k>> \notin retired /\ (L.live => d # c)
  BY <1>1, CallerIn
<1>5. L.queue \in Seq(Clients) /\ L.acquireCount \in Int /\ L.live \in BOOLEAN /\ L.isToBeDeleted \in BOOLEAN
  BY <1>2 DEF Locks
<1>6. \A d \in Clients : k \in holds[d] => L.live /\ L.owner = d /\ <<"lock", k>> \notin retired /\ d # c
  <2> SUFFICES ASSUME NEW d \in Clients, k \in holds[d]
               PROVE  L.live /\ L.owner = d /\ <<"lock", k>> \notin retired /\ d # c
    OBVIOUS
  <2>1. lock[k].live /\ lock[k].owner = d /\ <<"lock", k>> \notin retired
    BY CallerIn
  <2>2. /\ call[d].op = "RELEASE" => call[d].obj # k
        /\ call[d].op = "WAIT" => call[d].arg # k
    BY CallerIn
  <2> QED BY <1>1, <2>1, <2>2
<1>7. CASE ~L.live
  <2>1. M = L /\ n = <<>>
    BY <1>1, <1>7 DEF Released, NextOwner
  <2> QED BY <1>1, <1>2, <1>3, <1>6, <1>7, <2>1
<1>8. CASE L.live /\ L.owner = c /\ L.queue # <<>>
  <2>1. n = <<Head(L.queue)>>
    BY <1>1, <1>8 DEF NextOwner
  <2>2. Head(L.queue) \in Clients /\ call[Head(L.queue)].op = "ACQUIRE" /\ call[Head(L.queue)].obj = k
    BY <1>2, <1>8
  <2>3. PICK h \in Clients : h = Head(L.queue) /\ h # NoOne
    BY <1>3, <2>2
  <2>4. n = <<h>> /\ n # <<>> /\ n[1] = h
    BY <2>1, <2>3
  <2>5. M = [L EXCEPT !.acquireCount = @ - 1, !.owner = h, !.queue = Tail(@)]
    BY <1>1, <1>8, <2>3, <2>4 DEF Released, Locks
  <2>6. Tail(L.queue) \in Seq(Clients)
    BY <1>5, <1>8
  <2>7. /\ M \in Locks /\ M.owner = h /\ M.queue = Tail(L.queue) /\ M.live /\ M.isToBeDeleted = L.isToBeDeleted
    <3>1. /\ M.owner = h /\ M.queue = Tail(L.queue) /\ M.live = L.live /\ M.isToBeDeleted = L.isToBeDeleted
          /\ M.acquireCount = L.acquireCount - 1
          /\ M = [live |-> L.live, owner |-> h, queue |-> Tail(L.queue), acquireCount |-> L.acquireCount - 1,
                  isToBeDeleted |-> L.isToBeDeleted]
      BY <1>2, <2>5 DEF Locks
    <3> QED BY <1>3, <1>5, <1>8, <2>6, <3>1 DEF Locks
  <2>8. h # c
    BY <1>4, <1>8, <2>2, <2>3
  <2> QED BY <1>1, <1>2, <1>3, <1>4, <1>6, <1>8, <2>2, <2>3, <2>4, <2>7, <2>8
<1>9. CASE L.live /\ ~(L.owner = c /\ L.queue # <<>>)
  <2>1. n = <<>>
    BY <1>1, <1>9 DEF NextOwner
  <2>2. PICK N : N = [L EXCEPT !.acquireCount = @ - 1, !.owner = IF L.owner = c THEN NoOne ELSE L.owner, !.queue = L.queue]
    OBVIOUS
  <2>3. /\ N \in Locks /\ N.owner = (IF L.owner = c THEN NoOne ELSE L.owner) /\ N.queue = L.queue /\ N.live
        /\ N.isToBeDeleted = L.isToBeDeleted
    <3>1. PICK o \in Machines \cup {NoOne} : o = (IF L.owner = c THEN NoOne ELSE L.owner)
      BY <1>2, <1>3
    <3>2. N = [live |-> L.live, owner |-> o, queue |-> L.queue, acquireCount |-> L.acquireCount - 1,
               isToBeDeleted |-> L.isToBeDeleted]
      BY <1>2, <2>2, <3>1 DEF Locks
    <3> QED BY <1>3, <1>5, <1>9, <3>1, <3>2 DEF Locks
  <2>4. M = IF N.isToBeDeleted /\ N.acquireCount = 0 /\ N.owner = NoOne THEN Dead(N) ELSE N
    BY <1>1, <1>9, <2>1, <2>2 DEF Released
  <2>5. CASE M = N
    BY <1>1, <1>2, <1>3, <1>4, <1>6, <1>9, <2>1, <2>3, <2>5
  <2>6. CASE M = Dead(N) /\ N.isToBeDeleted /\ N.owner = NoOne
    <3>1. M \in Locks /\ M.owner = N.owner /\ M.queue = <<>> /\ ~M.live
      BY <2>3, <2>6, DeadFacts
    <3>2. <<"lock", k>> \in retired /\ L.queue = <<>>
      BY <1>2, <2>3, <2>6
    <3> QED BY <1>1, <1>2, <1>3, <1>4, <1>6, <1>9, <2>1, <2>3, <2>6, <3>1, <3>2
  <2> QED BY <2>4, <2>5, <2>6
<1> QED BY <1>7, <1>8, <1>9

(* The mail when q is answered, each of q once.                             *)
LEMMA AnswersStep ==
    ASSUME Inv, NEW src \in Machines, NEW b \in Boxes, net[<<src, b>>] # <<>>,
           NEW q \in Seq(Machines), Handle(src, b, Replies(q)), NEW d \in Clients,
           Single(q, {d}), Hit(q, {d}) => First(src, b) \in MailOf(d) \/ NetAt(d) = {}
    PROVE  /\ \A ch \in Channels : Single(net'[ch], MailOf(d))
           /\ NetAt(d)' = IF Hit(q, {d}) THEN {<<b[1], <<d, 0>>>>}
                          ELSE IF First(src, b) \in MailOf(d) THEN {} ELSE NetAt(d)
           /\ First(src, b) \in MailOf(d) => AskedAt(d) = {} /\ DeferredAt(d) = {} /\ QueuedAt(d) = {} /\ AsleepAt(d) = {}
           /\ OneDoubt(d)'
<1>1. PICK mail : mail = Replies(q)
  OBVIOUS
<1>2. PICK x \in Boxes : x = <<d, 0>>
  BY BoxFacts
<1>3. /\ mail \in Mails
      /\ \A c \in Clients : \A bx \in Boxes :
            /\ Hit(mail[bx], MailOf(c)) <=> (bx = <<c, 0>> /\ Hit(q, {c}))
            /\ Single(q, {c}) => Single(mail[bx], MailOf(c))
      /\ \A c \in Clients : \A bx \in Boxes : ~Hit(mail[bx], DoubtOf(c)) /\ Single(mail[bx], DoubtOf(c))
  BY <1>1, RepliesMail
<1>4. /\ \A bx \in Boxes : Single(mail[bx], MailOf(d)) /\ (Hit(mail[bx], MailOf(d)) => bx = x)
      /\ Hit(mail[x], MailOf(d)) => First(src, b) \in MailOf(d) \/ NetAt(d) = {}
      /\ Hit(mail[x], MailOf(d)) <=> Hit(q, {d})
  BY <1>2, <1>3
<1>5. Handle(src, b, mail)
  BY <1>1
<1>6. /\ \A ch \in Channels : Single(net'[ch], MailOf(d))
      /\ NetAt(d)' = IF Hit(mail[x], MailOf(d)) THEN {<<b[1], x>>}
                     ELSE IF First(src, b) \in MailOf(d) THEN {} ELSE NetAt(d)
      /\ First(src, b) \in MailOf(d) => /\ <<src, b>> \in NetAt(d) /\ NetAt(d) = {<<src, b>>}
                                        /\ AskedAt(d) = {} /\ DeferredAt(d) = {} /\ QueuedAt(d) = {} /\ AsleepAt(d) = {}
  BY <1>3, <1>4, <1>5, NetStep
<1>7. OneDoubt(d)'
  <2>1. /\ \A bx \in Boxes : Single(mail[bx], DoubtOf(d)) /\ (Hit(mail[bx], DoubtOf(d)) => bx = x)
        /\ Hit(mail[x], DoubtOf(d)) => \/ First(src, b) \in DoubtOf(d)
                                       \/ \A ch \in Channels : ~Hit(net[ch], DoubtOf(d))
    BY <1>3
  <2> QED BY <1>3, <1>5, <2>1, DoubtStep
<1> QED BY <1>2, <1>4, <1>6, <1>7

(* What clients sleep on does not change, nor who waits for a lock k that
   becomes M.                                                               *)
LEMMA AfterLock ==
    ASSUME Inv, NEW k \in LockNums, NEW M, lock' = [lock EXCEPT ![k] = M], UNCHANGED <<cond, clientVars>>,
           \A i \in DOMAIN M.queue : call[M.queue[i]].op = "ACQUIRE" /\ call[M.queue[i]].obj = k,
           \A d \in Clients : M.owner = d => lock[k].owner = d \/ call[d].op = "ACQUIRE"
    PROVE  GoodQueues' /\ SleepersGaveUpLock'
<1>1. \A l \in LockNums : lock'[l] = IF l = k THEN M ELSE lock[l]
  BY OneLock
<1>2. call' = call /\ cond' = cond
  BY DEF clientVars
<1>3. GoodQueues'
  <2>1. ASSUME NEW l \in LockNums, NEW i \in DOMAIN lock'[l].queue
        PROVE  call'[lock'[l].queue[i]].op = "ACQUIRE" /\ call'[lock'[l].queue[i]].obj = l
    BY <1>1, <1>2, <2>1 DEF Inv, GoodQueues
  <2> QED BY <1>2, <2>1 DEF Inv, GoodQueues
<1>4. ASSUME NEW c \in Clients, NEW q \in CVNums, c \in Elements(cond[q].queue),
             q \div MaxObjects = call[c].arg \div MaxObjects
      PROVE  lock'[call[c].arg].owner # c
  <2>1. lock[call[c].arg].owner # c
    BY <1>4, Zenon DEF Inv, SleepersGaveUpLock
  <2>2. call[c].op = "WAIT"
    <3>1. GoodQueues
      BY DEF Inv
    <3> QED BY <1>4, <3>1, SleeperWaits
  <2>3. call[c].arg \in LockNums
    BY <2>2, Called DEF Inv, UseOps
  <2> QED BY <1>1, <2>1, <2>2, <2>3
<1>5. SleepersGaveUpLock'
  <2> SUFFICES ASSUME NEW c \in Clients, NEW q \in CVNums, c \in Elements(cond[q].queue),
                      q \div MaxObjects = call[c].arg \div MaxObjects
               PROVE  lock'[call[c].arg].owner # c
    BY <1>2, Zenon DEF SleepersGaveUpLock
  <2> QED BY <1>4
<1> QED BY <1>3, <1>5

(* A lock is acquired, or its caller queues.                                *)
LEMMA AcquireInv == ASSUME Inv, NEW s \in Servers, NEW src \in Machines, Acquire(s, src) PROVE Inv'
<1>1. PICK b \in Boxes : b = <<s, 0>>
  BY BoxFacts
<1>2. PICK m : m = First(src, b)
  OBVIOUS
<1>3. PICK k : k = m.obj
  OBVIOUS
<1>4. PICK c : c = m.from
  OBVIOUS
<1>5. PICK L : L = lock[k]
  OBVIOUS
<1>6. PICK M : M = Acquired(L, c)
  OBVIOUS
<1>7. PICK q : q = AcquireAnswers(L, c)
  OBVIOUS
<1>8. /\ net[<<src, b>>] # <<>> /\ m.type = "ACQUIRE" /\ lock' = [lock EXCEPT ![k] = M]
      /\ Handle(src, b, Replies(q)) /\ UNCHANGED <<cond, mv, serverVars, clientVars>>
  BY <1>1, <1>2, <1>3, <1>4, <1>5, <1>6, <1>7 DEF Acquire, Local, At, Arrived, Message
<1>9. /\ c \in Clients /\ m \in MailOf(c) /\ call[c] = [op |-> "ACQUIRE", obj |-> k, arg |-> m.arg]
      /\ c \in Machines
  <2>1. m.type \in Ops \ {"RELEASE", "DESTROY_MV"}
    BY <1>8 DEF Ops, LockOps
  <2>2. m.from \in Clients /\ m \in MailOf(m.from) /\ call[m.from] = [op |-> m.type, obj |-> m.obj, arg |-> m.arg]
    BY <1>2, <1>8, <2>1, Asked
  <2> QED BY <1>3, <1>4, <1>8, <2>2, BoxFacts
<1>10. k \in LockNums
  BY <1>9, Called DEF Inv, LockOps
<1>11. /\ lock \in [LockNums -> Locks] /\ L \in Locks /\ L.owner \in Clients \cup {NoOne}
       /\ ~L.live \/ L.isToBeDeleted => <<"lock", k>> \in retired
       /\ \A i \in DOMAIN L.queue : L.queue[i] \in Clients /\ call[L.queue[i]].op = "ACQUIRE" /\ call[L.queue[i]].obj = k
  BY <1>5, <1>10, OneLock
<1>12. <<"lock", k>> \notin retired
  <2>1. call[c].op \in {"ACQUIRE", "RELEASE"} => <<"lock", call[c].obj>> \notin retired
    BY <1>9, CallerIn
  <2> QED BY <1>9, <2>1
<1>13. L.live /\ ~L.isToBeDeleted /\ L.queue \in Seq(Clients)
  BY <1>11, <1>12 DEF Locks
<1>14. NoOne \notin Machines /\ \A d \in Clients : d \in Machines /\ d # NoOne
  BY BoxFacts
<1>15. \/ /\ L.owner \in {NoOne, c} /\ q = <<c>> /\ M.queue = L.queue /\ M.owner = c
       \/ /\ L.owner \notin {NoOne, c} /\ q = <<>> /\ M.queue = Append(L.queue, c) /\ M.owner = L.owner
  BY <1>6, <1>7, <1>11, <1>13 DEF AcquireAnswers, Acquired, Locks
<1>16. M \in Locks /\ M.live /\ ~M.isToBeDeleted
  <2>1. PICK o \in Machines \cup {NoOne}, p \in Seq(Clients), n \in Int :
           /\ o = (IF L.owner = NoOne THEN c ELSE L.owner)
           /\ p = (IF L.owner \in {NoOne, c} THEN L.queue ELSE Append(L.queue, c))
           /\ n = L.acquireCount + 1
    <3>1. L.acquireCount + 1 \in Int
      BY <1>11 DEF Locks
    <3>2. (IF L.owner = NoOne THEN c ELSE L.owner) \in Machines \cup {NoOne}
      BY <1>9, <1>11 DEF Locks
    <3>3. (IF L.owner \in {NoOne, c} THEN L.queue ELSE Append(L.queue, c)) \in Seq(Clients)
      BY <1>9, <1>13
    <3> QED BY <3>1, <3>2, <3>3
  <2>2. M = [L EXCEPT !.acquireCount = n, !.owner = o, !.queue = p]
    BY <1>6, <1>11, <1>13, <2>1 DEF Acquired, Locks
  <2> QED BY <1>11, <1>13, <2>2 DEF Locks
<1>17. q \in Seq(Machines) /\ (\A d : Hit(q, {d}) <=> q = <<c>> /\ d = c) /\ \A d : Single(q, {d})
  <2>1. CASE q = <<c>>
    BY <1>9, <2>1 DEF Hit, Single
  <2>2. CASE q = <<>>
    BY <1>9, <2>2 DEF Hit, Single
  <2> QED BY <1>15, <2>1, <2>2
<1>18. PICK mail : mail = Replies(q)
  OBVIOUS
<1>19. /\ mail \in Mails
       /\ \A b2 \in Boxes : \A j \in DOMAIN mail[b2] : \A y : y = mail[b2][j] => GoodMessage(y, b2)'
  <2>1. /\ mail \in Mails
        /\ \A b2 \in Boxes : \A j \in DOMAIN mail[b2] :
              /\ b2[2] = 0 /\ mail[b2][j] = Reply(b2[1], -1)
              /\ \E i \in DOMAIN q : q[i] = b2[1]
    BY <1>17, <1>18, RepliesMail
  <2> SUFFICES ASSUME NEW b2 \in Boxes, NEW j \in DOMAIN mail[b2], NEW y, y = mail[b2][j]
               PROVE  GoodMessage(y, b2)'
    BY <2>1
  <2>2. b2 = <<c, 0>> /\ y = Reply(c, -1) /\ q = <<c>>
    BY <1>15, <2>1, BoxFacts
  <2>3. lock'[k].live /\ lock'[k].owner = c /\ call' = call
    BY <1>8, <1>10, <1>11, <1>14, <1>15, <1>16, <2>2 DEF clientVars
  <2>4. "REPLY" \notin Ops
    BY DEF Ops, LockOps, UseOps, MVOps
  <2> QED BY <1>9, <2>2, <2>3, <2>4 DEF GoodMessage, Reply, Owns
<1>20. StateOK' /\ GoodMail' /\ GoodQueries' /\ GoodTrackers' /\ Ownership' /\ Retirement'
  <2>1. \A d \in Clients : k \in holds[d] => M.live /\ M.owner = d
    <3> SUFFICES ASSUME NEW d \in Clients, k \in holds[d] PROVE M.live /\ M.owner = d
      OBVIOUS
    <3>1. lock[k].owner = d
      BY CallerIn
    <3> QED BY <1>5, <1>14, <1>15, <1>16, <3>1
  <2>2. \A d \in Clients : call[d].op = "ACQUIRE" /\ call[d].obj = k /\ lock[k].live /\ lock[k].owner = d
                           => M.live /\ M.owner = d
    BY <1>5, <1>14, <1>15, <1>16
  <2>3. M.owner \in Clients \cup {NoOne}
    BY <1>9, <1>11, <1>15
  <2>4. cond' \in [CVNums -> [live : BOOLEAN, waitingLock : Numbers \cup {-1}, queue : Seq(Clients),
                              isToBeDeleted : BOOLEAN]]
    BY <1>8 DEF Inv, StateOK, TypeOK
  <2>5. Handle(src, b, mail) /\ net[<<src, b>>] # <<>> /\ lock' = [lock EXCEPT ![k] = M] /\ UNCHANGED <<mv, serverVars, clientVars>>
    BY <1>8, <1>18
  <2>6. ~M.live \/ M.isToBeDeleted => <<"lock", k>> \in retired
    BY <1>16
  <2>7. M \in Locks /\ mail \in Mails
    BY <1>16, <1>19
  <2>8. \A b2 \in Boxes : \A j \in DOMAIN mail[b2] : \A y : y = mail[b2][j] => GoodMessage(y, b2)'
    BY <1>19
  <2>9. LockChange(src, b, mail, k, M)
    BY <2>1, <2>2, <2>3, <2>4, <2>5, <2>6, <2>7, <2>8 DEF LockChange
  <2> QED BY <1>10, <2>9, LockStep
<1>21. GoodQueues' /\ SleepersGaveUpLock'
  <2>1. \A i \in DOMAIN M.queue : call[M.queue[i]].op = "ACQUIRE" /\ call[M.queue[i]].obj = k
    <3>1. CASE M.queue = L.queue
      BY <1>11, <3>1
    <3>2. CASE M.queue = Append(L.queue, c)
      <4>1. /\ DOMAIN Append(L.queue, c) = 1 .. Len(L.queue) + 1 /\ DOMAIN L.queue = 1 .. Len(L.queue)
            /\ Len(L.queue) \in Nat
            /\ \A i \in 1 .. Len(L.queue) : Append(L.queue, c)[i] = L.queue[i]
            /\ Append(L.queue, c)[Len(L.queue) + 1] = c
        BY <1>9, <1>13, AppendProperties
      <4>2. \A i \in 1 .. Len(L.queue) + 1 : i \in 1 .. Len(L.queue) \/ i = Len(L.queue) + 1
        BY <4>1
      <4> QED BY <1>9, <1>11, <3>2, <4>1, <4>2
    <3> QED BY <1>15, <3>1, <3>2
  <2>2. \A d \in Clients : M.owner = d => lock[k].owner = d \/ call[d].op = "ACQUIRE"
    BY <1>5, <1>9, <1>15
  <2> QED BY <1>8, <1>10, <2>1, <2>2, AfterLock
<1>22. ASSUME NEW d \in Clients PROVE OnePlace(d)' /\ OneDoubt(d)'
  <2>1. /\ \A ch \in Channels : Single(net'[ch], MailOf(d))
        /\ NetAt(d)' = IF Hit(q, {d}) THEN {<<b[1], <<d, 0>>>>}
                       ELSE IF First(src, b) \in MailOf(d) THEN {} ELSE NetAt(d)
        /\ First(src, b) \in MailOf(d) => AskedAt(d) = {} /\ DeferredAt(d) = {} /\ QueuedAt(d) = {} /\ AsleepAt(d) = {}
        /\ OneDoubt(d)'
    BY <1>2, <1>8, <1>9, <1>17, AnswersStep
  <2>2. AskedAt(d)' = AskedAt(d) /\ DeferredAt(d)' = DeferredAt(d) /\ AsleepAt(d)' = AsleepAt(d) /\ call' = call
    BY <1>8 DEF AskedAt, DeferredAt, AsleepAt, serverVars, clientVars
  <2>3. OnePlace(d) /\ OnceEach(d)
    BY DEF Inv, OnePlace
  <2>4. Single(L.queue, {d}) /\ \A l \in LockNums : Single(lock[l].queue, {d})
    BY <1>5, <1>10, <2>3 DEF OnceEach
  <2>5. /\ QueuedAt(d)' = (QueuedAt(d) \ {k}) \cup (IF Hit(M.queue, {d}) THEN {k} ELSE {})
        /\ (\A l \in LockNums : Single(lock[l].queue, {d})) /\ Single(M.queue, {d})
           => \A l \in LockNums : Single(lock'[l].queue, {d})
    BY <1>8, <1>10, <1>11, QueuedAfter
  <2>6. QueuedAt(d) = {} => ~Hit(L.queue, {d})
    BY <1>5, <1>10 DEF QueuedAt
  <2>7. Hit(L.queue, {d}) <=> k \in QueuedAt(d)
    BY <1>5, <1>10 DEF QueuedAt
  <2>8. /\ Hit(Append(L.queue, c), {d}) <=> (Hit(L.queue, {d}) \/ c \in {d})
        /\ Single(L.queue, {d}) /\ ~(Hit(L.queue, {d}) /\ c \in {d}) => Single(Append(L.queue, c), {d})
    BY <1>9, <1>13, AppendKeeps
  <2>9. d = c => /\ First(src, b) \in MailOf(d) /\ AskedAt(d) = {} /\ DeferredAt(d) = {} /\ QueuedAt(d) = {}
                 /\ AsleepAt(d) = {} /\ call'[d] # Idle
    BY <1>2, <1>9, <2>1, <2>2 DEF Idle
  <2>10. Single(M.queue, {d})
    BY <1>15, <2>4, <2>6, <2>8, <2>9
  <2>11. OnceEach(d)'
    BY <1>8, <2>1, <2>3, <2>4, <2>5, <2>10 DEF OnceEach, serverVars
  <2>12. CASE d = c
    <3>1. CASE q = <<c>>
      <4>1. (\E x : NetAt(d)' \subseteq {x}) /\ QueuedAt(d)' = {}
        BY <1>15, <1>17, <2>1, <2>5, <2>6, <2>9, <2>12, <3>1
      <4>2. call'[d] # Idle /\ AskedAt(d)' = {} /\ DeferredAt(d)' = {} /\ AsleepAt(d)' = {}
        BY <2>2, <2>9, <2>12
      <4>3. OnePlace(d)'
        BY <2>11, <4>1, <4>2, MovedToNet
      <4> QED BY <2>1, <4>3
    <3>2. CASE q = <<>>
      <4>1. NetAt(d)' = {} /\ \E x : QueuedAt(d)' \subseteq {x}
        BY <1>17, <2>1, <2>5, <2>9, <2>12, <3>2
      <4>2. call'[d] # Idle /\ AskedAt(d)' = {} /\ DeferredAt(d)' = {} /\ AsleepAt(d)' = {}
        BY <2>2, <2>9, <2>12
      <4>3. OnePlace(d)'
        BY <2>11, <4>1, <4>2, MovedToLock
      <4> QED BY <2>1, <4>3
    <3> QED BY <1>15, <2>1, <3>1, <3>2
  <2>13. CASE d # c
    <3>1. First(src, b) \notin MailOf(d)
      BY <1>2, <1>8, <1>9, <2>13, OneOwner
    <3>2. NetAt(d)' = NetAt(d)
      BY <1>17, <2>1, <2>13, <3>1
    <3>3. QueuedAt(d)' = QueuedAt(d)
      BY <1>15, <2>5, <2>7, <2>8, <2>13
    <3> QED BY <2>1, <2>2, <2>3, <2>11, <3>2, <3>3, Stays
  <2> QED BY <2>1, <2>12, <2>13
<1> QED BY <1>20, <1>21, <1>22 DEF Inv

(* Who gets the lock leaves its queue, the others stay there.               *)
Leaves(c, k, M, n, d) ==
    /\ Hit(n, {d}) => /\ NetAt(d) = {} /\ AskedAt(d) = {} /\ DeferredAt(d) = {} /\ AsleepAt(d) = {}
                      /\ QueuedAt(d)' = {} /\ call[d].op = "ACQUIRE" /\ call[d].obj = k
                      /\ M.live /\ M.owner = d /\ d # c
    /\ ~Hit(n, {d}) => QueuedAt(d)' = QueuedAt(d)
    /\ \A l \in LockNums : Single(lock'[l].queue, {d})
    /\ n \in Seq(Machines) /\ Single(n, {d})
    /\ \A i \in DOMAIN M.queue : call[M.queue[i]].op = "ACQUIRE" /\ call[M.queue[i]].obj = k

(* Only who gets the lock leaves the queue.                                 *)
LEMMA ReleasedQueue ==
    ASSUME Inv, NEW k \in LockNums, NEW c \in Machines,
           NEW M, NEW n, Releases(c, k, M, n), HandsOver(k, M, n),
           lock' = [lock EXCEPT ![k] = M], NEW d \in Clients
    PROVE  Leaves(c, k, M, n, d)
<1> USE DEF Leaves
<1>1. PICK L : L = lock[k]
  OBVIOUS
<1>2. /\ lock \in [LockNums -> Locks] /\ L \in Locks
      /\ \A i \in DOMAIN L.queue : L.queue[i] \in Clients /\ call[L.queue[i]].op = "ACQUIRE" /\ call[L.queue[i]].obj = k
      /\ L.queue # <<>> => Head(L.queue) = L.queue[1] /\ 1 \in DOMAIN L.queue
  BY <1>1, OneLock
<1>3. \/ n = <<>> /\ M.queue = L.queue
      \/ /\ L.queue # <<>> /\ M.queue = Tail(L.queue)
         /\ n = <<Head(L.queue)>> /\ Head(L.queue) \in Clients
         /\ call[Head(L.queue)].op = "ACQUIRE" /\ call[Head(L.queue)].obj = k
         /\ M.live /\ M.owner = Head(L.queue)
  <2>1. HandsOver(k, M, n)
    OBVIOUS
  <2> QED BY <1>1, <2>1 DEF HandsOver
<1>4. L.queue \in Seq(Clients)
  BY <1>2 DEF Locks
<1>5. OnePlace(d) /\ OnceEach(d)
  BY DEF Inv, OnePlace
<1>6. Single(L.queue, {d}) /\ \A l \in LockNums : Single(lock[l].queue, {d})
  BY <1>1, <1>5 DEF OnceEach
<1>7. /\ QueuedAt(d)' = (QueuedAt(d) \ {k}) \cup (IF Hit(M.queue, {d}) THEN {k} ELSE {})
      /\ (\A l \in LockNums : Single(lock[l].queue, {d})) /\ Single(M.queue, {d})
         => \A l \in LockNums : Single(lock'[l].queue, {d})
  BY <1>2, QueuedAfter
<1>8. Hit(L.queue, {d}) <=> k \in QueuedAt(d)
  BY <1>1 DEF QueuedAt
<1>9. CASE n = <<>> /\ M.queue = L.queue
  <2>1. ~Hit(n, {d}) /\ Single(n, {d}) /\ n \in Seq(Machines)
    BY <1>9 DEF Hit, Single
  <2>2. QueuedAt(d)' = QueuedAt(d)
    BY <1>7, <1>8, <1>9
  <2> QED BY <1>2, <1>6, <1>7, <1>9, <2>1, <2>2
<1>10. CASE /\ L.queue # <<>> /\ M.queue = Tail(L.queue)
            /\ n = <<Head(L.queue)>> /\ Head(L.queue) \in Clients
            /\ call[Head(L.queue)].op = "ACQUIRE" /\ call[Head(L.queue)].obj = k
            /\ M.live /\ M.owner = Head(L.queue)
  <2>1. PICK h \in Clients : h = Head(L.queue)
    BY <1>10
  <2>2. h \in Machines /\ (h # c)
    <3>1. ~(h = c)
      BY <1>10, <2>1 DEF Releases
    <3> QED BY <3>1, BoxFacts
  <2>3. n \in Seq(Machines) /\ Single(n, {d}) /\ (Hit(n, {d}) <=> d = h)
    BY <1>10, <2>1, <2>2 DEF Hit, Single
  <2>4. /\ Tail(L.queue) \in Seq(Clients) /\ Single(Tail(L.queue), {d})
        /\ Hit(Tail(L.queue), {d}) <=> (Hit(L.queue, {d}) /\ Head(L.queue) \notin {d})
    BY <1>4, <1>6, <1>10, TailKeeps
  <2>5. \A i \in DOMAIN M.queue : call[M.queue[i]].op = "ACQUIRE" /\ call[M.queue[i]].obj = k
    <3>1. /\ DOMAIN Tail(L.queue) = 1 .. Len(L.queue) - 1 /\ DOMAIN L.queue = 1 .. Len(L.queue) /\ Len(L.queue) \in Nat
          /\ \A i \in 1 .. Len(L.queue) - 1 : Tail(L.queue)[i] = L.queue[i + 1]
      BY <1>4, <1>10, HeadTailProperties, EmptySeq
    <3>2. \A i \in 1 .. Len(L.queue) - 1 : i + 1 \in 1 .. Len(L.queue)
      BY <3>1
    <3> QED BY <1>2, <1>10, <3>1, <3>2
  <2>6. CASE d = h
    <3>1. Hit(L.queue, {d})
      BY <1>2, <1>10, <2>1, <2>6 DEF Hit
    <3>2. k \in QueuedAt(d)
      BY <1>8, <3>1
    <3>3. NetAt(d) = {} /\ AskedAt(d) = {} /\ DeferredAt(d) = {} /\ QueuedAt(d) = {k} /\ AsleepAt(d) = {}
      BY <1>5, <3>2, Alone
    <3>4. QueuedAt(d)' = {}
      BY <1>7, <1>10, <2>1, <2>4, <2>6, <3>3
    <3> QED BY <1>6, <1>7, <1>10, <2>1, <2>2, <2>3, <2>4, <2>5, <2>6, <3>3, <3>4
  <2>7. CASE d # h
    <3>1. QueuedAt(d)' = QueuedAt(d)
      BY <1>7, <1>8, <1>10, <2>1, <2>4, <2>7
    <3> QED BY <1>6, <1>7, <1>10, <2>3, <2>4, <2>5, <2>7, <3>1
  <2> QED BY <2>6, <2>7
<1> QED BY <1>3, <1>9, <1>10

(* A lock is released, by a client or by the server it waits at.            *)
LEMMA ReleaseInv == ASSUME Inv, NEW s \in Servers, NEW src \in Machines, Release(s, src) PROVE Inv'
<1>1. PICK b \in Boxes : b = <<s, 0>>
  BY BoxFacts
<1>2. PICK m : m = First(src, b)
  OBVIOUS
<1>3. PICK k, c : k = m.obj /\ c = m.from
  OBVIOUS
<1>4. PICK M, n : M = Released(lock[k], c) /\ n = NextOwner(lock[k], c)
  OBVIOUS
<1>5. PICK q : q = <<c>> \o n
  OBVIOUS
<1>6. /\ net[<<src, b>>] # <<>> /\ m.type = "RELEASE" /\ lock' = [lock EXCEPT ![k] = M]
      /\ Handle(src, b, Replies(q)) /\ UNCHANGED <<cond, mv, serverVars, clientVars>>
  BY <1>1, <1>2, <1>3, <1>4, <1>5 DEF Release, Local, At, Arrived, Message
<1>7. m.type \in Ops /\ Existing(KindOf(m.type)) = LockNums
  BY <1>6, OpFacts DEF LockOps
<1>8. m \in Requests /\ GoodRequest(m, b) /\ c \in Machines /\ k \in LockNums
  BY <1>2, <1>3, <1>6, <1>7, Requested
<1>9. c \in Clients => call[c].op = "RELEASE" /\ call[c].obj = k
  BY <1>3, <1>6, <1>8 DEF GoodRequest, Asks
<1>10. Releases(c, k, M, n)
  BY <1>4, <1>9 DEF Releases
<1>11. \A d \in Clients : m \in MailOf(d) <=> d = c
  BY <1>3, <1>6, <1>8, Concerns
<1>12. /\ M \in Locks /\ M.owner \in Clients \cup {NoOne}
       /\ ~M.live \/ M.isToBeDeleted => <<"lock", k>> \in retired
       /\ \A d \in Clients : k \in holds[d] => M.live /\ M.owner = d
       /\ \A d \in Clients : call[d].op = "ACQUIRE" /\ call[d].obj = k /\ lock[k].live /\ lock[k].owner = d
                             => M.live /\ M.owner = d
       /\ lock[k].live => M.owner # c
       /\ \A d \in Clients : M.owner = d => lock[k].owner = d \/ call[d].op = "ACQUIRE"
       /\ HandsOver(k, M, n)
  BY <1>8, <1>10, ReleasedFacts
<1>13. ASSUME NEW d \in Clients PROVE Leaves(c, k, M, n, d)
  <2>1. lock' = [lock EXCEPT ![k] = M] /\ c \in Machines /\ k \in LockNums /\ Releases(c, k, M, n)
        /\ HandsOver(k, M, n)
    BY <1>6, <1>8, <1>10, <1>12
  <2> QED BY <2>1, ReleasedQueue
<1> USE DEF Leaves, HandsOver
<1>14. n = <<>> \/ \E h \in Clients : n = <<h>>
  BY <1>12
<1>15. n \in Seq(Machines) /\ <<c>> \in Seq(Machines) /\ q \in Seq(Machines)
  <2>1. n \in Seq(Machines) /\ <<c>> \in Seq(Machines)
    <3>1. CASE n = <<>>
      BY <1>8, <3>1
    <3>2. CASE \E h \in Clients : n = <<h>>
      BY <1>8, <3>2, BoxFacts
    <3> QED BY <1>14, <3>1, <3>2
  <2>2. <<c>> \o n \in Seq(Machines)
    BY <2>1, ConcatProperties
  <2> QED BY <1>5, <2>1, <2>2
<1>16. \A T : Hit(q, T) <=> c \in T \/ Hit(n, T)
  <2> SUFFICES ASSUME NEW T PROVE Hit(q, T) <=> c \in T \/ Hit(n, T)
    OBVIOUS
  <2>1. Hit(<<c>> \o n, T) <=> (Hit(<<c>>, T) \/ Hit(n, T))
    BY <1>15, ConcatKeeps
  <2>2. Hit(<<c>>, T) <=> c \in T
    BY DEF Hit
  <2> QED BY <1>5, <2>1, <2>2
<1>17. \A d \in Clients : Single(q, {d})
  <2> SUFFICES ASSUME NEW d \in Clients PROVE Single(q, {d})
    OBVIOUS
  <2>1. Single(<<c>>, {d}) /\ Single(n, {d}) /\ ~(Hit(<<c>>, {d}) /\ Hit(n, {d}))
    BY <1>13 DEF Hit, Single
  <2>2. Single(<<c>>, {d}) /\ Single(n, {d}) /\ ~(Hit(<<c>>, {d}) /\ Hit(n, {d})) => Single(<<c>> \o n, {d})
    BY <1>15, ConcatKeeps
  <2> QED BY <1>5, <2>1, <2>2
<1>18. PICK mail : mail = Replies(q)
  OBVIOUS
<1>19. /\ mail \in Mails
       /\ \A b2 \in Boxes : \A j \in DOMAIN mail[b2] : \A y : y = mail[b2][j] => GoodMessage(y, b2)'
  <2>1. /\ mail \in Mails
        /\ \A b2 \in Boxes : \A j \in DOMAIN mail[b2] :
              /\ b2[2] = 0 /\ mail[b2][j] = Reply(b2[1], -1)
              /\ \E i \in DOMAIN q : q[i] = b2[1]
    BY <1>15, <1>18, RepliesMail
  <2> SUFFICES ASSUME NEW b2 \in Boxes, NEW j \in DOMAIN mail[b2], NEW y, y = mail[b2][j]
               PROVE  GoodMessage(y, b2)'
    BY <2>1
  <2>2. PICK z \in Machines : z = b2[1] /\ b2 = <<z, 0>> /\ y = Reply(z, -1)
    BY <2>1, BoxFacts
  <2>3. Hit(q, {z})
    BY <2>1, <2>2 DEF Hit
  <2>4. z \in Clients => call[z].op = "RELEASE" \/ (call[z].op = "ACQUIRE" /\ call[z].obj = k /\ M.live /\ M.owner = z)
    BY <1>9, <1>13, <1>16, <2>3
  <2>5. lock'[k] = M /\ call' = call
    BY <1>6, <1>8, OneLock DEF clientVars
  <2>6. "REPLY" \notin Ops
    BY DEF Ops, LockOps, UseOps, MVOps
  <2> QED BY <2>2, <2>4, <2>5, <2>6 DEF GoodMessage, Reply, Owns
<1>20. StateOK' /\ GoodMail' /\ GoodQueries' /\ GoodTrackers' /\ Ownership' /\ Retirement'
  <2>1. cond' \in [CVNums -> [live : BOOLEAN, waitingLock : Numbers \cup {-1}, queue : Seq(Clients),
                              isToBeDeleted : BOOLEAN]]
    BY <1>6 DEF Inv, StateOK, TypeOK
  <2>2. LockChange(src, b, mail, k, M)
    BY <1>6, <1>12, <1>18, <1>19, <2>1 DEF LockChange
  <2> QED BY <1>8, <2>2, LockStep
<1>21. GoodQueues' /\ SleepersGaveUpLock'
  <2>1. \A i \in DOMAIN M.queue : call[M.queue[i]].op = "ACQUIRE" /\ call[M.queue[i]].obj = k
    <3>1. CASE M.queue = lock[k].queue
      <4>1. \A i \in DOMAIN lock[k].queue : /\ lock[k].queue[i] \in Clients
                                            /\ call[lock[k].queue[i]].op = "ACQUIRE"
                                            /\ call[lock[k].queue[i]].obj = k
        BY <1>8, OneLock
      <4> QED BY <3>1, <4>1
    <3>2. CASE \E d : d \in Clients
      BY <1>13, <3>2
    <3> QED BY <1>12, <3>1, <3>2
  <2> QED BY <1>6, <1>8, <1>12, <2>1, AfterLock
<1>22. ASSUME NEW d \in Clients PROVE OnePlace(d)' /\ OneDoubt(d)'
  <2>1. Hit(q, {d}) => First(src, b) \in MailOf(d) \/ NetAt(d) = {}
    BY <1>2, <1>11, <1>13, <1>16
  <2>2. /\ \A ch \in Channels : Single(net'[ch], MailOf(d))
        /\ NetAt(d)' = IF Hit(q, {d}) THEN {<<b[1], <<d, 0>>>>}
                       ELSE IF First(src, b) \in MailOf(d) THEN {} ELSE NetAt(d)
        /\ First(src, b) \in MailOf(d) => AskedAt(d) = {} /\ DeferredAt(d) = {} /\ QueuedAt(d) = {} /\ AsleepAt(d) = {}
        /\ OneDoubt(d)'
    BY <1>6, <1>15, <1>17, <2>1, AnswersStep
  <2>3. AskedAt(d)' = AskedAt(d) /\ DeferredAt(d)' = DeferredAt(d) /\ AsleepAt(d)' = AsleepAt(d) /\ call' = call
    BY <1>6 DEF AskedAt, DeferredAt, AsleepAt, serverVars, clientVars
  <2>4. OnePlace(d) /\ OnceEach(d)
    BY DEF Inv, OnePlace
  <2>5. OnceEach(d)'
    BY <1>6, <1>13, <2>2, <2>4 DEF OnceEach, serverVars
  <2>6. CASE Hit(q, {d})
    <3>1. (\E x : NetAt(d)' \subseteq {x}) /\ call'[d] # Idle
      <4>1. d = c \/ Hit(n, {d})
        BY <1>16, <2>6
      <4>2. call[d].op = "RELEASE" \/ call[d].op = "ACQUIRE"
        BY <1>9, <1>13, <4>1
      <4>3. call[d] # Idle
        BY <4>2 DEF Idle
      <4> QED BY <2>2, <2>3, <2>6, <4>3
    <3>2. AskedAt(d)' = {} /\ DeferredAt(d)' = {} /\ QueuedAt(d)' = {} /\ AsleepAt(d)' = {}
      BY <1>2, <1>11, <1>13, <1>16, <2>2, <2>3, <2>6
    <3>3. OnePlace(d)'
      BY <2>5, <3>1, <3>2, MovedToNet
    <3> QED BY <2>2, <3>3
  <2>7. CASE ~Hit(q, {d})
    <3>1. d # c /\ ~Hit(n, {d})
      BY <1>16, <2>7
    <3>2. NetAt(d)' = NetAt(d) /\ QueuedAt(d)' = QueuedAt(d)
      BY <1>2, <1>11, <1>13, <2>2, <2>7, <3>1
    <3> QED BY <2>2, <2>3, <2>4, <2>5, <3>2, Stays
  <2> QED BY <2>6, <2>7
<1> QED BY <1>20, <1>21, <1>22 DEF Inv

(* A lock is destroyed, or will be.                                         *)
LEMMA DestroyLockInv == ASSUME Inv, NEW s \in Servers, NEW src \in Machines, DestroyLock(s, src) PROVE Inv'
<1>1. PICK b \in Boxes : b = <<s, 0>>
  BY BoxFacts
<1>2. PICK m : m = First(src, b)
  OBVIOUS
<1>3. PICK k, c : k = m.obj /\ c = m.from
  OBVIOUS
<1>4. PICK L : L = lock[k]
  OBVIOUS
<1>5. PICK M : M = IF ~L.live THEN L
                   ELSE IF L.owner # NoOne /\ L.acquireCount = 0
                        THEN [L EXCEPT !.isToBeDeleted = TRUE] ELSE [Dead(L) EXCEPT !.owner = NoOne]
  OBVIOUS
<1>6. /\ net[<<src, b>>] # <<>> /\ m.type = "DESTROY_LOCK" /\ lock' = [lock EXCEPT ![k] = M]
      /\ Handle(src, b, Nothing) /\ UNCHANGED <<cond, mv, serverVars, clientVars>>
  BY <1>1, <1>2, <1>3, <1>4, <1>5 DEF DestroyLock, Local, At, Arrived, Message
<1>7. c \in Clients /\ m \in MailOf(c) /\ call[c] = [op |-> "DESTROY_LOCK", obj |-> k, arg |-> m.arg]
  <2>1. m.type \in Ops \ {"RELEASE", "DESTROY_MV"}
    BY <1>6 DEF Ops, LockOps
  <2>2. m.from \in Clients /\ m \in MailOf(m.from) /\ call[m.from] = [op |-> m.type, obj |-> m.obj, arg |-> m.arg]
    BY <1>2, <1>6, <2>1, Asked
  <2> QED BY <1>3, <1>6, <2>2
<1>8. k \in LockNums
  <2>1. call[c].op \in LockOps
    BY <1>7 DEF LockOps
  <2>2. StateOK
    BY DEF Inv
  <2> QED BY <1>7, <2>1, <2>2, Called
<1>9. <<"lock", k>> \in retired
  <2>1. Retirement
    BY DEF Inv
  <2>2. call[c].op = "DESTROY_LOCK" /\ call[c].obj = k
    BY <1>7
  <2> QED BY <1>7, <2>1, <2>2 DEF Retirement
<1>10. lock \in [LockNums -> Locks] /\ L \in Locks /\ L.owner \in Clients \cup {NoOne} /\ L.queue = <<>>
  BY <1>4, <1>8, <1>9, OneLock
<1>11. /\ M \in Locks /\ M.owner \in Clients \cup {NoOne} /\ M.queue = <<>>
       /\ \A d \in Clients : M.owner = d => L.owner = d
  <2>1. NoOne \notin Clients
    BY BoxFacts
  <2>2. CASE ~L.live
    BY <1>5, <1>10, <2>2
  <2>3. CASE L.live /\ L.owner # NoOne /\ L.acquireCount = 0
    BY <1>5, <1>10, <2>3 DEF Locks
  <2>4. CASE L.live /\ ~(L.owner # NoOne /\ L.acquireCount = 0)
    <3>1. Dead(L) \in Locks /\ Dead(L).queue = <<>>
      BY <1>10, DeadFacts
    <3>2. M = [Dead(L) EXCEPT !.owner = NoOne]
      BY <1>5, <2>4
    <3> QED BY <2>1, <3>1, <3>2 DEF Locks
  <2> QED BY <2>2, <2>3, <2>4
<1>12. PICK mail : mail = Nothing
  OBVIOUS
<1>13. mail \in Mails /\ \A b2 \in Boxes : \A j \in DOMAIN mail[b2] : FALSE
  BY <1>12, NothingMail
<1>14. StateOK' /\ GoodMail' /\ GoodQueries' /\ GoodTrackers' /\ Ownership' /\ Retirement'
  <2>1. cond' \in [CVNums -> [live : BOOLEAN, waitingLock : Numbers \cup {-1}, queue : Seq(Clients),
                              isToBeDeleted : BOOLEAN]]
    BY <1>6 DEF Inv, StateOK, TypeOK
  <2>2. \A d \in Clients : k \notin holds[d]
    BY <1>9, CallerIn
  <2>3. \A d \in Clients : ~(call[d].op = "ACQUIRE" /\ call[d].obj = k)
    BY <1>9 DEF Inv, Retirement
  <2>4. LockChange(src, b, mail, k, M)
    BY <1>6, <1>9, <1>11, <1>12, <1>13, <2>1, <2>2, <2>3 DEF LockChange
  <2> QED BY <1>8, <2>4, LockStep
<1>15. GoodQueues' /\ SleepersGaveUpLock'
  <2>1. \A i \in DOMAIN M.queue : call[M.queue[i]].op = "ACQUIRE" /\ call[M.queue[i]].obj = k
    BY <1>11
  <2>2. \A d \in Clients : M.owner = d => lock[k].owner = d \/ call[d].op = "ACQUIRE"
    BY <1>4, <1>11
  <2> QED BY <1>6, <1>8, <2>1, <2>2, AfterLock
<1>16. ASSUME NEW d \in Clients PROVE OnePlace(d)' /\ OneDoubt(d)'
  <2>1. Passes(Nothing, First(src, b), b)
    BY NothingPasses
  <2>2. AskedAt(d)' = AskedAt(d) /\ DeferredAt(d)' = DeferredAt(d) /\ AsleepAt(d)' = AsleepAt(d) /\ call' = call
    BY <1>6 DEF AskedAt, DeferredAt, AsleepAt, serverVars, clientVars
  <2>3. \A l \in LockNums : lock'[l].queue = lock[l].queue
    BY <1>4, <1>6, <1>8, <1>10, <1>11
  <2>4. QueuedAt(d)' = QueuedAt(d)
    BY <2>3 DEF QueuedAt
  <2>5. OnceEach(d)
    BY DEF Inv, OnePlace
  <2>6. OnceEach(d)' <=> \A ch \in Channels : Single(net'[ch], MailOf(d))
    BY <1>6, <2>3, <2>5 DEF OnceEach, serverVars
  <2>7. OnePlace(d)'
    BY <1>6, <2>1, <2>2, <2>4, <2>6, PlainStep
  <2>8. /\ \A b2 \in Boxes : Single(mail[b2], DoubtOf(d)) /\ (Hit(mail[b2], DoubtOf(d)) => b2 = b)
        /\ Hit(mail[b], DoubtOf(d)) => \/ First(src, b) \in DoubtOf(d)
                                       \/ \A ch \in Channels : ~Hit(net[ch], DoubtOf(d))
    BY <1>12, NothingMail
  <2>9. OneDoubt(d)'
    BY <1>6, <1>12, <1>13, <2>8, DoubtStep
  <2> QED BY <2>7, <2>9
<1> QED BY <1>14, <1>15, <1>16 DEF Inv

-----------------------------------------------------------------------------
(* The conditions                                                          *)

Conds == [live : BOOLEAN, waitingLock : Numbers \cup {-1}, queue : Seq(Clients), isToBeDeleted : BOOLEAN]

(* What Inv says of one condition.                                          *)
LEMMA OneCond ==
    ASSUME Inv, NEW v \in CVNums
    PROVE  /\ cond \in [CVNums -> Conds] /\ cond[v] \in Conds /\ cond[v].queue \in Seq(Clients)
           /\ \A i \in DOMAIN cond[v].queue : /\ cond[v].queue[i] \in Clients
                                              /\ call[cond[v].queue[i]].op = "WAIT"
                                              /\ call[cond[v].queue[i]].obj = v
<1>1. cond \in [CVNums -> Conds]
  BY DEF Inv, StateOK, TypeOK, Conds
<1>2. cond[v].queue \in Seq(Clients) /\ cond[v] \in Conds
  BY <1>1 DEF Conds
<1> QED BY <1>1, <1>2 DEF Inv, GoodQueues

(* Condition v becomes D.                                                   *)
LEMMA AsleepAfter ==
    ASSUME cond \in [CVNums -> Conds], NEW v \in CVNums, NEW D, cond' = [cond EXCEPT ![v] = D],
           NEW d \in Clients
    PROVE  /\ AsleepAt(d)' = (AsleepAt(d) \ {v}) \cup (IF Hit(D.queue, {d}) THEN {v} ELSE {})
           /\ (\A k \in CVNums : Single(cond[k].queue, {d})) /\ Single(D.queue, {d})
              => \A k \in CVNums : Single(cond'[k].queue, {d})
<1>1. \A k \in CVNums : cond'[k] = IF k = v THEN D ELSE cond[k]
  OBVIOUS
<1>2. \A k : k \in AsleepAt(d)' <=> k \in CVNums /\ Hit(cond'[k].queue, {d})
  BY DEF AsleepAt
<1>3. \A k : k \in AsleepAt(d) <=> k \in CVNums /\ Hit(cond[k].queue, {d})
  BY DEF AsleepAt
<1>4. AsleepAt(d)' = (AsleepAt(d) \ {v}) \cup (IF Hit(D.queue, {d}) THEN {v} ELSE {})
  BY <1>1, <1>2, <1>3
<1>5. (\A k \in CVNums : Single(cond[k].queue, {d})) /\ Single(D.queue, {d})
      => \A k \in CVNums : Single(cond'[k].queue, {d})
  BY <1>1
<1> QED BY <1>4, <1>5

(* Nobody sleeps who owns the lock, if those that fall asleep do not and
   locks go to those that wait for them.                                    *)
LEMMA SleepersAfter ==
    ASSUME Inv, call' = call,
           \A l \in LockNums : \A i \in DOMAIN lock'[l].queue :
              call[lock'[l].queue[i]].op = "ACQUIRE" /\ call[lock'[l].queue[i]].obj = l,
           \A v \in CVNums : \A i \in DOMAIN cond'[v].queue :
              call[cond'[v].queue[i]].op = "WAIT" /\ call[cond'[v].queue[i]].obj = v,
           \A v \in CVNums : \A d \in Clients : d \in Elements(cond'[v].queue) =>
              \/ d \in Elements(cond[v].queue)
              \/ v \div MaxObjects = call[d].arg \div MaxObjects => lock'[call[d].arg].owner # d,
           \A l \in LockNums : \A d \in Clients : lock'[l].owner = d =>
              lock[l].owner = d \/ call[d].op = "ACQUIRE"
    PROVE  GoodQueues' /\ SleepersGaveUpLock'
<1>1. GoodQueues'
  BY DEF GoodQueues
<1>2. ASSUME NEW c \in Clients, NEW q \in CVNums, c \in Elements(cond'[q].queue),
             q \div MaxObjects = call[c].arg \div MaxObjects
      PROVE  lock'[call[c].arg].owner # c
  <2>1. CASE c \in Elements(cond[q].queue)
    <3>1. lock[call[c].arg].owner # c
      BY <1>2, <2>1, Zenon DEF Inv, SleepersGaveUpLock
    <3>2. call[c].op = "WAIT"
      <4>1. GoodQueues
        BY DEF Inv
      <4> QED BY <2>1, <4>1, SleeperWaits
    <3>3. call[c].arg \in LockNums
      BY <3>2, Called DEF Inv, UseOps
    <3> QED BY <3>1, <3>2, <3>3
  <2>2. CASE c \notin Elements(cond[q].queue)
    BY <1>2, <2>2, Zenon
  <2> QED BY <2>1, <2>2
<1>3. SleepersGaveUpLock'
  <2> SUFFICES ASSUME NEW c \in Clients, NEW q \in CVNums, c \in Elements(cond'[q].queue),
                      q \div MaxObjects = call[c].arg \div MaxObjects
               PROVE  lock'[call[c].arg].owner # c
    BY Zenon DEF SleepersGaveUpLock
  <2> QED BY <1>2
<1> QED BY <1>1, <1>3

-----------------------------------------------------------------------------
(* Falling asleep                                                          *)

(* A condition with one more waiter.                                        *)
LEMMA WaitedFacts ==
    ASSUME NEW C \in Conds, NEW w \in Numbers, NEW c \in Clients
    PROVE  /\ Waited(C, w, c) \in Conds
           /\ Waited(C, w, c).queue = C.queue \/ Waited(C, w, c).queue = Append(C.queue, c)
<1>1. C.queue \in Seq(Clients) /\ C.waitingLock \in Numbers \cup {-1}
  BY DEF Conds
<1>2. PICK W : W = IF C.waitingLock = -1 THEN w ELSE C.waitingLock
  OBVIOUS
<1>3. PICK p \in Seq(Clients) : p = IF w = W THEN Append(C.queue, c) ELSE C.queue
  <2>1. Append(C.queue, c) \in Seq(Clients)
    BY <1>1
  <2>2. (IF w = W THEN Append(C.queue, c) ELSE C.queue) \in Seq(Clients)
    BY <1>1, <2>1
  <2> QED BY <2>2
<1>4. PICK D : D = [C EXCEPT !.waitingLock = W, !.queue = p]
  OBVIOUS
<1>5. D \in Conds /\ D.queue = p
  <2>1. W \in Numbers \cup {-1}
    BY <1>1, <1>2
  <2>2. D = [live |-> C.live, waitingLock |-> W, queue |-> p, isToBeDeleted |-> C.isToBeDeleted]
    BY <1>4 DEF Conds
  <2>3. C.live \in BOOLEAN /\ C.isToBeDeleted \in BOOLEAN
    BY DEF Conds
  <2> QED BY <2>1, <2>2, <2>3 DEF Conds
<1>6. Dead(D) \in Conds /\ Dead(D).queue = <<>>
  <2>1. <<>> \in Seq(Clients)
    OBVIOUS
  <2> QED BY <1>5, <2>1 DEF Dead, Conds
<1>7. D = [C EXCEPT !.waitingLock = W, !.queue = IF w = W THEN Append(@, c) ELSE @]
  BY <1>3, <1>4 DEF Conds
<1>8. Waited(C, w, c) = IF ~C.live THEN C ELSE IF D.isToBeDeleted /\ D.queue = <<>> THEN Dead(D) ELSE D
  BY <1>2, <1>7 DEF Waited
<1>9. p = C.queue \/ p = Append(C.queue, c)
  BY <1>3
<1> QED BY <1>5, <1>6, <1>8, <1>9

(* Client c may join those asleep on condition v, which becomes D.          *)
Joins(c, v, D) ==
    /\ D \in Conds /\ cond' = [cond EXCEPT ![v] = D]
    /\ D.queue = cond[v].queue \/ D.queue = Append(cond[v].queue, c)
    /\ call[c].op = "WAIT" /\ call[c].obj = v /\ AsleepAt(c) = {}

Joined(c, v) ==
    /\ cond' \in [CVNums -> Conds]
    /\ \A d \in Clients : /\ \A k \in CVNums : Single(cond'[k].queue, {d})
                          /\ d # c => AsleepAt(d)' = AsleepAt(d)
    /\ AsleepAt(c)' \subseteq {v}
    /\ \A k \in CVNums : \A i \in DOMAIN cond'[k].queue :
          call[cond'[k].queue[i]].op = "WAIT" /\ call[cond'[k].queue[i]].obj = k
    /\ \A k \in CVNums : \A d \in Clients : d \in Elements(cond'[k].queue) =>
          d \in Elements(cond[k].queue) \/ (d = c /\ k = v)

(* One more sleeps on condition v.                                          *)
LEMMA JoinStep ==
    ASSUME Inv, NEW c \in Clients, NEW v \in CVNums, NEW D, Joins(c, v, D)
    PROVE  Joined(c, v)
<1> USE DEF Joins
<1>1. PICK p : p = cond[v].queue
  OBVIOUS
<1>2. /\ cond \in [CVNums -> Conds] /\ p \in Seq(Clients)
      /\ \A i \in DOMAIN p : p[i] \in Clients /\ call[p[i]].op = "WAIT" /\ call[p[i]].obj = v
  BY <1>1, OneCond
<1>3. \A k \in CVNums : cond'[k] = IF k = v THEN D ELSE cond[k]
  BY <1>2
<1>4. cond' \in [CVNums -> Conds]
  BY <1>2
<1>5. /\ DOMAIN Append(p, c) = 1 .. Len(p) + 1 /\ DOMAIN p = 1 .. Len(p)
      /\ Len(p) \in Nat
      /\ \A i \in 1 .. Len(p) : Append(p, c)[i] = p[i]
      /\ Append(p, c)[Len(p) + 1] = c
  BY <1>2, AppendProperties
<1>6. \A i \in DOMAIN D.queue : (i \in DOMAIN p /\ D.queue[i] = p[i]) \/ D.queue[i] = c
  <2>1. \A i \in 1 .. Len(p) + 1 : i \in 1 .. Len(p) \/ i = Len(p) + 1
    BY <1>5
  <2>2. CASE D.queue = p
    BY <2>2
  <2>3. CASE D.queue = Append(p, c)
    BY <1>5, <2>1, <2>3
  <2> QED BY <1>1, <2>2, <2>3
<1>7. ASSUME NEW d \in Clients
      PROVE  /\ \A k \in CVNums : Single(cond'[k].queue, {d})
             /\ d # c => AsleepAt(d)' = AsleepAt(d)
             /\ d = c => AsleepAt(d)' \subseteq {v}
  <2>1. OnePlace(d) /\ OnceEach(d)
    BY DEF Inv, OnePlace
  <2>2. Single(p, {d}) /\ \A k \in CVNums : Single(cond[k].queue, {d})
    BY <1>1, <2>1 DEF OnceEach
  <2>3. /\ AsleepAt(d)' = (AsleepAt(d) \ {v}) \cup (IF Hit(D.queue, {d}) THEN {v} ELSE {})
        /\ (\A k \in CVNums : Single(cond[k].queue, {d})) /\ Single(D.queue, {d})
           => \A k \in CVNums : Single(cond'[k].queue, {d})
    BY <1>2, AsleepAfter
  <2>4. Hit(p, {d}) <=> v \in AsleepAt(d)
    BY <1>1 DEF AsleepAt
  <2>5. /\ Hit(Append(p, c), {d}) <=> (Hit(p, {d}) \/ c \in {d})
        /\ Single(p, {d}) /\ ~(Hit(p, {d}) /\ c \in {d}) => Single(Append(p, c), {d})
    BY <1>2, AppendKeeps
  <2>6. Single(D.queue, {d})
    BY <1>1, <2>2, <2>4, <2>5
  <2>7. d # c => (Hit(D.queue, {d}) <=> Hit(p, {d}))
    BY <1>1, <2>5
  <2> QED BY <2>2, <2>3, <2>4, <2>6, <2>7
<1>8. ASSUME NEW k \in CVNums, NEW i \in DOMAIN cond'[k].queue
      PROVE  call[cond'[k].queue[i]].op = "WAIT" /\ call[cond'[k].queue[i]].obj = k
  <2>1. CASE k = v
    BY <1>2, <1>3, <1>6, <1>8, <2>1
  <2>2. CASE k # v
    BY <1>3, <1>8, <2>2, OneCond
  <2> QED BY <2>1, <2>2
<1>9. ASSUME NEW k \in CVNums, NEW d \in Clients, d \in Elements(cond'[k].queue)
      PROVE  d \in Elements(cond[k].queue) \/ (d = c /\ k = v)
  <2>1. CASE k = v
    <3>1. D.queue \in Seq(Clients)
      BY DEF Conds
    <3>2. PICK i \in 1 .. Len(D.queue) : D.queue[i] = d
      BY <1>3, <1>9, <2>1 DEF Elements
    <3>3. i \in DOMAIN D.queue
      BY <3>1
    <3> QED BY <1>1, <1>5, <1>6, <2>1, <3>2, <3>3 DEF Elements
  <2>2. CASE k # v
    BY <1>3, <1>9, <2>2
  <2> QED BY <2>1, <2>2
<1> QED BY <1>4, <1>7, <1>8, <1>9 DEF Joined

(* Wait, where one server has the condition and the lock.                   *)
LEMMA WaitHereInv == ASSUME Inv, NEW s \in Servers, NEW src \in Machines, WaitHere(s, src) PROVE Inv'
<1>1. PICK b \in Boxes : b = <<s, 0>>
  BY BoxFacts
<1>2. PICK m : m = First(src, b)
  OBVIOUS
<1>3. PICK k, v, c : k = m.arg /\ v = m.obj /\ c = m.from
  OBVIOUS
<1>4. PICK M, n : M = Released(lock[k], c) /\ n = NextOwner(lock[k], c)
  OBVIOUS
<1>5. PICK D : D = Waited(cond[v], decodeIndex(k), c)
  OBVIOUS
<1>6. /\ net[<<src, b>>] # <<>> /\ m.type = "WAIT" /\ lock[k].live
      /\ lock' = [lock EXCEPT ![k] = M] /\ cond' = [cond EXCEPT ![v] = D]
      /\ Handle(src, b, Replies(n)) /\ UNCHANGED <<mv, serverVars, clientVars>>
  BY <1>1, <1>2, <1>3, <1>4, <1>5 DEF WaitHere, HasLock, At, Arrived, Message
<1>7. c \in Clients /\ m \in MailOf(c) /\ call[c] = [op |-> "WAIT", obj |-> v, arg |-> k]
  <2>1. m.type \in Ops \ {"RELEASE", "DESTROY_MV"}
    BY <1>6 DEF Ops, UseOps
  <2>2. m.from \in Clients /\ m \in MailOf(m.from) /\ call[m.from] = [op |-> m.type, obj |-> m.obj, arg |-> m.arg]
    BY <1>2, <1>6, <2>1, Asked
  <2> QED BY <1>3, <1>6, <2>2
<1>8. c \in Machines /\ k \in LockNums /\ v \in CVNums
  <2>1. call[c].op \in UseOps
    BY <1>7 DEF UseOps
  <2>2. StateOK
    BY DEF Inv
  <2> QED BY <1>7, <2>1, <2>2, Called, BoxFacts
<1>9. decodeIndex(k) \in Numbers
  <2>1. k \in Numbers
    BY <1>8, UseAssumption
  <2> QED BY <2>1, NumberFacts DEF decodeIndex
<1>10. Releases(c, k, M, n)
  BY <1>4, <1>7 DEF Releases
<1>11. \A d \in Clients : m \in MailOf(d) <=> d = c
  BY <1>7, OneOwner
<1>12. /\ M \in Locks /\ M.owner \in Clients \cup {NoOne}
       /\ ~M.live \/ M.isToBeDeleted => <<"lock", k>> \in retired
       /\ \A d \in Clients : k \in holds[d] => M.live /\ M.owner = d
       /\ \A d \in Clients : call[d].op = "ACQUIRE" /\ call[d].obj = k /\ lock[k].live /\ lock[k].owner = d
                             => M.live /\ M.owner = d
       /\ lock[k].live => M.owner # c
       /\ \A d \in Clients : M.owner = d => lock[k].owner = d \/ call[d].op = "ACQUIRE"
       /\ HandsOver(k, M, n)
  BY <1>8, <1>10, ReleasedFacts
<1>13. ASSUME NEW d \in Clients PROVE Leaves(c, k, M, n, d)
  <2>1. lock' = [lock EXCEPT ![k] = M] /\ c \in Machines /\ k \in LockNums /\ Releases(c, k, M, n)
        /\ HandsOver(k, M, n)
    BY <1>6, <1>8, <1>10, <1>12
  <2> QED BY <2>1, ReleasedQueue
<1>14. Joined(c, v)
  <2>1. D \in Conds /\ (D.queue = cond[v].queue \/ D.queue = Append(cond[v].queue, c))
    <3>1. cond[v] \in Conds
      BY <1>8, OneCond
    <3> QED BY <1>5, <1>7, <1>9, <3>1, WaitedFacts
  <2>2. AsleepAt(c) = {}
    <3>1. <<src, b>> \in NetAt(c)
      BY <1>2, <1>6, <1>7, Handled DEF NetAt, Hit
    <3>2. OnePlace(c)
      BY <1>7 DEF Inv
    <3> QED BY <1>7, <3>1, <3>2, Alone
  <2>3. Joins(c, v, D)
    BY <1>6, <1>7, <2>1, <2>2 DEF Joins
  <2> QED BY <1>7, <1>8, <2>3, JoinStep
<1> USE DEF Leaves, HandsOver
<1>15. n \in Seq(Machines)
  BY <1>7, <1>13
<1>16. PICK mail : mail = Replies(n)
  OBVIOUS
<1>17. /\ mail \in Mails
       /\ \A b2 \in Boxes : \A j \in DOMAIN mail[b2] : \A y : y = mail[b2][j] => GoodMessage(y, b2)'
  <2>1. /\ mail \in Mails
        /\ \A b2 \in Boxes : \A j \in DOMAIN mail[b2] :
              /\ b2[2] = 0 /\ mail[b2][j] = Reply(b2[1], -1)
              /\ \E i \in DOMAIN n : n[i] = b2[1]
    BY <1>15, <1>16, RepliesMail
  <2> SUFFICES ASSUME NEW b2 \in Boxes, NEW j \in DOMAIN mail[b2], NEW y, y = mail[b2][j]
               PROVE  GoodMessage(y, b2)'
    BY <2>1
  <2>2. PICK z \in Machines : z = b2[1] /\ b2 = <<z, 0>> /\ y = Reply(z, -1)
    BY <2>1, BoxFacts
  <2>3. Hit(n, {z})
    BY <2>1, <2>2 DEF Hit
  <2>4. z \in Clients => call[z].op = "ACQUIRE" /\ call[z].obj = k /\ M.live /\ M.owner = z
    BY <1>13, <2>3
  <2>5. lock'[k] = M /\ call' = call
    BY <1>6, <1>8, OneLock DEF clientVars
  <2>6. "REPLY" \notin Ops
    BY DEF Ops, LockOps, UseOps, MVOps
  <2> QED BY <2>2, <2>4, <2>5, <2>6 DEF GoodMessage, Reply, Owns
<1>18. StateOK' /\ GoodMail' /\ GoodQueries' /\ GoodTrackers' /\ Ownership' /\ Retirement'
  <2>1. cond' \in [CVNums -> [live : BOOLEAN, waitingLock : Numbers \cup {-1}, queue : Seq(Clients),
                              isToBeDeleted : BOOLEAN]]
    BY <1>14 DEF Joined, Conds
  <2>2. LockChange(src, b, mail, k, M)
    BY <1>6, <1>12, <1>16, <1>17, <2>1 DEF LockChange
  <2> QED BY <1>8, <2>2, LockStep
<1>19. GoodQueues' /\ SleepersGaveUpLock'
  <2>1. \A l \in LockNums : lock'[l] = IF l = k THEN M ELSE lock[l]
    BY <1>6, <1>8, OneLock
  <2>2. \A l \in LockNums : \A i \in DOMAIN lock'[l].queue :
           call[lock'[l].queue[i]].op = "ACQUIRE" /\ call[lock'[l].queue[i]].obj = l
    <3>1. \A i \in DOMAIN M.queue : call[M.queue[i]].op = "ACQUIRE" /\ call[M.queue[i]].obj = k
      BY <1>7, <1>13
    <3>2. \A l \in LockNums : \A i \in DOMAIN lock[l].queue :
             call[lock[l].queue[i]].op = "ACQUIRE" /\ call[lock[l].queue[i]].obj = l
      BY OneLock
    <3> QED BY <2>1, <3>1, <3>2
  <2>3. \A x \in CVNums : \A i \in DOMAIN cond'[x].queue :
           call[cond'[x].queue[i]].op = "WAIT" /\ call[cond'[x].queue[i]].obj = x
    BY <1>14 DEF Joined
  <2>4. \A x \in CVNums : \A d \in Clients : d \in Elements(cond'[x].queue) =>
           \/ d \in Elements(cond[x].queue)
           \/ x \div MaxObjects = call[d].arg \div MaxObjects => lock'[call[d].arg].owner # d
    <3>1. \A x \in CVNums : \A d \in Clients : d \in Elements(cond'[x].queue) =>
             d \in Elements(cond[x].queue) \/ (d = c /\ x = v)
      BY <1>14 DEF Joined
    <3>2. lock'[call[c].arg].owner # c
      BY <1>6, <1>7, <1>8, <1>12, <2>1
    <3> QED BY <3>1, <3>2, Zenon
  <2>5. \A l \in LockNums : \A d \in Clients : lock'[l].owner = d => lock[l].owner = d \/ call[d].op = "ACQUIRE"
    BY <1>12, <2>1
  <2>6. call' = call
    BY <1>6 DEF clientVars
  <2> QED BY <2>2, <2>3, <2>4, <2>5, <2>6, SleepersAfter
<1>20. ASSUME NEW d \in Clients PROVE OnePlace(d)' /\ OneDoubt(d)'
  <2>1. Hit(n, {d}) => First(src, b) \in MailOf(d) \/ NetAt(d) = {}
    BY <1>13
  <2>2. /\ \A ch \in Channels : Single(net'[ch], MailOf(d))
        /\ NetAt(d)' = IF Hit(n, {d}) THEN {<<b[1], <<d, 0>>>>}
                       ELSE IF First(src, b) \in MailOf(d) THEN {} ELSE NetAt(d)
        /\ First(src, b) \in MailOf(d) => AskedAt(d) = {} /\ DeferredAt(d) = {} /\ QueuedAt(d) = {} /\ AsleepAt(d) = {}
        /\ OneDoubt(d)'
    <3>1. Single(n, {d})
      BY <1>13
    <3> QED BY <1>6, <1>15, <2>1, <3>1, AnswersStep
  <2>3. AskedAt(d)' = AskedAt(d) /\ DeferredAt(d)' = DeferredAt(d) /\ call' = call
    BY <1>6 DEF AskedAt, DeferredAt, serverVars, clientVars
  <2>4. OnePlace(d) /\ OnceEach(d)
    BY DEF Inv, OnePlace
  <2>5. /\ \A x \in CVNums : Single(cond'[x].queue, {d})
        /\ d # c => AsleepAt(d)' = AsleepAt(d)
        /\ d = c => AsleepAt(d)' \subseteq {v}
    BY <1>14 DEF Joined
  <2>6. OnceEach(d)'
    BY <1>6, <1>13, <2>2, <2>4, <2>5 DEF OnceEach, serverVars
  <2>7. CASE d = c
    <3>1. ~Hit(n, {d}) /\ First(src, b) \in MailOf(d)
      BY <1>2, <1>7, <1>13, <2>7
    <3>2. NetAt(d)' = {} /\ AskedAt(d)' = {} /\ DeferredAt(d)' = {} /\ QueuedAt(d)' = {}
      BY <1>13, <2>2, <2>3, <3>1
    <3>3. call'[d] # Idle /\ \E x : AsleepAt(d)' \subseteq {x}
      BY <1>7, <2>3, <2>5, <2>7 DEF Idle
    <3>4. OnePlace(d)'
      BY <2>6, <3>2, <3>3, MovedToCond
    <3> QED BY <2>2, <3>4
  <2>8. CASE d # c /\ Hit(n, {d})
    <3>1. AskedAt(d)' = {} /\ DeferredAt(d)' = {} /\ QueuedAt(d)' = {} /\ AsleepAt(d)' = {}
      BY <1>13, <2>3, <2>5, <2>8
    <3>2. (\E x : NetAt(d)' \subseteq {x}) /\ call'[d] # Idle
      <4>1. call[d].op = "ACQUIRE"
        BY <1>13, <2>8
      <4>2. call[d] # Idle
        BY <4>1 DEF Idle
      <4> QED BY <2>2, <2>3, <2>8, <4>2
    <3>3. OnePlace(d)'
      BY <2>6, <3>1, <3>2, MovedToNet
    <3> QED BY <2>2, <3>3
  <2>9. CASE d # c /\ ~Hit(n, {d})
    <3>1. NetAt(d)' = NetAt(d) /\ QueuedAt(d)' = QueuedAt(d)
      BY <1>2, <1>11, <1>13, <2>2, <2>9
    <3> QED BY <2>2, <2>3, <2>4, <2>5, <2>6, <2>9, <3>1, Stays
  <2> QED BY <2>7, <2>8, <2>9
<1> QED BY <1>18, <1>19, <1>20 DEF Inv

-----------------------------------------------------------------------------
(* Waking up                                                               *)

(* A sequence q is parted: p is how it starts, r how it goes on.            *)
Parts(X, q, p, r) ==
    /\ q \in Seq(X) /\ p \in Seq(X)
    /\ Len(p) <= Len(q) /\ \A i \in 1 .. Len(p) : p[i] = q[i]
    /\ r = SubSeq(q, Len(p) + 1, Len(q))

(* What is in a sequence is in one of its parts.                            *)
LEMMA Parted ==
    ASSUME NEW X, NEW q, NEW p, NEW r, Parts(X, q, p, r), NEW T
    PROVE  /\ r \in Seq(X)
           /\ \A i \in DOMAIN r : \E j \in DOMAIN q : r[i] = q[j]
           /\ Hit(q, T) <=> (Hit(p, T) \/ Hit(r, T))
           /\ Single(q, T) => Single(p, T) /\ Single(r, T) /\ ~(Hit(p, T) /\ Hit(r, T))
<1> USE DEF Parts
<1>1. PICK n \in Nat, N \in Nat : n = Len(p) /\ N = Len(q) /\ n <= N
  OBVIOUS
<1>2. DOMAIN q = 1 .. N /\ DOMAIN p = 1 .. n
  BY <1>1
<1>3. /\ r \in Seq(X) /\ Len(r) = N - n
      /\ \A i \in 1 .. N - n : r[i] = q[n + i]
  BY <1>1, <1>2
<1>4. DOMAIN r = 1 .. N - n
  BY <1>3
<1>5. \A i \in 1 .. n : i \in 1 .. N /\ p[i] = q[i]
  BY <1>1
<1>6. \A i \in 1 .. N - n : n + i \in 1 .. N /\ n + i \notin 1 .. n /\ r[i] = q[n + i]
  BY <1>1, <1>3
<1>7. \A k \in 1 .. N : k \in 1 .. n \/ (k - n \in 1 .. N - n /\ n + (k - n) = k)
  BY <1>1
<1>8. \A i \in DOMAIN r : \E j \in DOMAIN q : r[i] = q[j]
  BY <1>2, <1>4, <1>6
<1>9. Hit(q, T) => Hit(p, T) \/ Hit(r, T)
  <2> SUFFICES ASSUME NEW k \in 1 .. N, q[k] \in T PROVE Hit(p, T) \/ Hit(r, T)
    BY <1>2 DEF Hit
  <2>1. CASE k \in 1 .. n
    BY <1>2, <1>5, <2>1 DEF Hit
  <2>2. CASE k - n \in 1 .. N - n /\ n + (k - n) = k
    BY <1>4, <1>6, <2>2 DEF Hit
  <2> QED BY <1>7, <2>1, <2>2
<1>10. Hit(p, T) \/ Hit(r, T) => Hit(q, T)
  BY <1>2, <1>4, <1>5, <1>6 DEF Hit
<1>11. ASSUME Single(q, T) PROVE Single(p, T) /\ Single(r, T) /\ ~(Hit(p, T) /\ Hit(r, T))
  <2>1. Single(p, T)
    BY <1>2, <1>5, <1>11 DEF Single
  <2>2. Single(r, T)
    <3> SUFFICES ASSUME NEW i \in 1 .. N - n, NEW j \in 1 .. N - n, r[i] \in T, r[j] \in T PROVE i = j
      BY <1>4 DEF Single
    <3>1. n + i = n + j
      BY <1>2, <1>6, <1>11 DEF Single
    <3> QED BY <1>1, <3>1
  <2>3. ~(Hit(p, T) /\ Hit(r, T))
    <3> SUFFICES ASSUME NEW i \in 1 .. n, NEW j \in 1 .. N - n, p[i] \in T, r[j] \in T PROVE FALSE
      BY <1>2, <1>4 DEF Hit
    <3>1. i = n + j
      BY <1>2, <1>5, <1>6, <1>11 DEF Single
    <3> QED BY <1>6, <3>1
  <2> QED BY <2>1, <2>2, <2>3
<1> QED BY <1>3, <1>8, <1>9, <1>10, <1>11

(* Who is woken, and who sleeps on.                                         *)
LEMMA WokenFacts ==
    ASSUME NEW C \in Conds, NEW op, NEW w, NEW T
    PROVE  /\ Woken(C, op, w) \in Seq(Clients) /\ AfterWake(C, op, w) \in Conds
           /\ \A i \in DOMAIN AfterWake(C, op, w).queue : \E j \in DOMAIN C.queue :
                 AfterWake(C, op, w).queue[i] = C.queue[j]
           /\ Hit(C.queue, T) <=> (Hit(Woken(C, op, w), T) \/ Hit(AfterWake(C, op, w).queue, T))
           /\ Single(C.queue, T) => /\ Single(Woken(C, op, w), T) /\ Single(AfterWake(C, op, w).queue, T)
                                    /\ ~(Hit(Woken(C, op, w), T) /\ Hit(AfterWake(C, op, w).queue, T))
<1>1. PICK p : p = Woken(C, op, w)
  OBVIOUS
<1>2. PICK q \in Seq(Clients) : q = C.queue
  BY DEF Conds
<1>3. PICK r : r = SubSeq(q, Len(p) + 1, Len(q))
  OBVIOUS
<1>4. p \in Seq(Clients) /\ Len(p) <= Len(q) /\ \A i \in 1 .. Len(p) : p[i] = q[i]
  <2>1. CASE p = <<>>
    BY <2>1
  <2>2. CASE p = <<Head(q)>> /\ q # <<>>
    <3>1. Head(q) \in Clients /\ Head(q) = q[1] /\ Len(q) \in Nat \ {0}
      BY <1>2, <2>2, HeadTailProperties, EmptySeq
    <3>2. PICK h \in Clients : h = Head(q) /\ p = <<h>>
      BY <2>2, <3>1
    <3>3. p \in Seq(Clients) /\ Len(p) = 1 /\ p[1] = h
      BY <3>2
    <3> QED BY <3>1, <3>2, <3>3
  <2>3. CASE p = q
    BY <1>2, <2>3
  <2> QED BY <1>1, <1>2, <2>1, <2>2, <2>3 DEF Woken
<1>5. /\ r \in Seq(Clients)
      /\ \A i \in DOMAIN r : \E j \in DOMAIN q : r[i] = q[j]
      /\ Hit(q, T) <=> (Hit(p, T) \/ Hit(r, T))
      /\ Single(q, T) => Single(p, T) /\ Single(r, T) /\ ~(Hit(p, T) /\ Hit(r, T))
  <2>1. Parts(Clients, q, p, r)
    BY <1>2, <1>3, <1>4 DEF Parts
  <2> QED BY <2>1, Parted
<1>6. PICK W : W = IF Len(p) > 0 /\ r = <<>> THEN -1 ELSE C.waitingLock
  OBVIOUS
<1>7. AfterWake(C, op, w) = [C EXCEPT !.queue = r, !.waitingLock = W]
  BY <1>1, <1>2, <1>3, <1>6 DEF AfterWake, Conds
<1>8. AfterWake(C, op, w) = [live |-> C.live, waitingLock |-> W, queue |-> r, isToBeDeleted |-> C.isToBeDeleted]
  BY <1>7 DEF Conds
<1>9. W \in Numbers \cup {-1} /\ C.live \in BOOLEAN /\ C.isToBeDeleted \in BOOLEAN
  BY <1>6 DEF Conds
<1>10. AfterWake(C, op, w) \in Conds /\ AfterWake(C, op, w).queue = r
  BY <1>5, <1>8, <1>9 DEF Conds
<1> QED BY <1>1, <1>2, <1>4, <1>5, <1>10

(* Those of W on condition v are woken up.                                  *)
Woke(v, W) ==
    /\ cond' \in [CVNums -> Conds] /\ W \in Seq(Clients)
    /\ \A d \in Clients :
          /\ Single(W, {d}) /\ \A k \in CVNums : Single(cond'[k].queue, {d})
          /\ Hit(W, {d}) => /\ NetAt(d) = {} /\ AskedAt(d) = {} /\ DeferredAt(d) = {} /\ QueuedAt(d) = {}
                            /\ AsleepAt(d)' = {} /\ call[d].op = "WAIT"
          /\ ~Hit(W, {d}) => AsleepAt(d)' = AsleepAt(d)
    /\ \A k \in CVNums : \A i \in DOMAIN cond'[k].queue :
          call[cond'[k].queue[i]].op = "WAIT" /\ call[cond'[k].queue[i]].obj = k
    /\ \A k \in CVNums : \A d \in Clients : d \in Elements(cond'[k].queue) => d \in Elements(cond[k].queue)

(* Waking takes from condition v those it answers.                          *)
LEMMA WakeStep ==
    ASSUME Inv, NEW v \in CVNums, NEW op, NEW w, cond' = [cond EXCEPT ![v] = AfterWake(@, op, w)]
    PROVE  Woke(v, Woken(cond[v], op, w))
<1>1. PICK C : C = cond[v]
  OBVIOUS
<1>2. PICK W, D : W = Woken(C, op, w) /\ D = AfterWake(C, op, w)
  OBVIOUS
<1>3. /\ cond \in [CVNums -> Conds] /\ C \in Conds /\ C.queue \in Seq(Clients)
      /\ \A i \in DOMAIN C.queue : C.queue[i] \in Clients /\ call[C.queue[i]].op = "WAIT" /\ call[C.queue[i]].obj = v
  BY <1>1, OneCond
<1>4. cond' = [cond EXCEPT ![v] = D]
  BY <1>1, <1>2, <1>3
<1>5. /\ W \in Seq(Clients) /\ D \in Conds
      /\ \A i \in DOMAIN D.queue : \E j \in DOMAIN C.queue : D.queue[i] = C.queue[j]
      /\ \A T : /\ Hit(C.queue, T) <=> (Hit(W, T) \/ Hit(D.queue, T))
                /\ Single(C.queue, T) => Single(W, T) /\ Single(D.queue, T) /\ ~(Hit(W, T) /\ Hit(D.queue, T))
  <2>1. /\ W \in Seq(Clients) /\ D \in Conds
        /\ \A i \in DOMAIN D.queue : \E j \in DOMAIN C.queue : D.queue[i] = C.queue[j]
    <3>1. PICK T : T = {}
      OBVIOUS
    <3>2. C \in Conds
      BY <1>3
    <3>3. /\ Woken(C, op, w) \in Seq(Clients) /\ AfterWake(C, op, w) \in Conds
          /\ \A i \in DOMAIN AfterWake(C, op, w).queue : \E j \in DOMAIN C.queue :
                AfterWake(C, op, w).queue[i] = C.queue[j]
          /\ Hit(C.queue, T) <=> (Hit(Woken(C, op, w), T) \/ Hit(AfterWake(C, op, w).queue, T))
          /\ Single(C.queue, T) => /\ Single(Woken(C, op, w), T) /\ Single(AfterWake(C, op, w).queue, T)
                                   /\ ~(Hit(Woken(C, op, w), T) /\ Hit(AfterWake(C, op, w).queue, T))
      BY <3>2, WokenFacts
    <3> QED BY <1>2, <3>3
  <2>2. ASSUME NEW T
        PROVE  /\ Hit(C.queue, T) <=> (Hit(W, T) \/ Hit(D.queue, T))
               /\ Single(C.queue, T) => Single(W, T) /\ Single(D.queue, T) /\ ~(Hit(W, T) /\ Hit(D.queue, T))
    BY <1>2, <1>3, WokenFacts
  <2> QED BY <2>1, <2>2
<1>6. \A k \in CVNums : cond'[k] = IF k = v THEN D ELSE cond[k]
  BY <1>3, <1>4
<1>7. ASSUME NEW d \in Clients
      PROVE  /\ Single(W, {d}) /\ \A k \in CVNums : Single(cond'[k].queue, {d})
             /\ Hit(W, {d}) => /\ NetAt(d) = {} /\ AskedAt(d) = {} /\ DeferredAt(d) = {} /\ QueuedAt(d) = {}
                               /\ AsleepAt(d)' = {} /\ call[d].op = "WAIT"
             /\ ~Hit(W, {d}) => AsleepAt(d)' = AsleepAt(d)
  <2>1. OnePlace(d) /\ OnceEach(d)
    BY DEF Inv, OnePlace
  <2>2. Single(C.queue, {d}) /\ \A k \in CVNums : Single(cond[k].queue, {d})
    BY <1>1, <2>1 DEF OnceEach
  <2>3. /\ Single(W, {d}) /\ Single(D.queue, {d}) /\ ~(Hit(W, {d}) /\ Hit(D.queue, {d}))
        /\ Hit(C.queue, {d}) <=> (Hit(W, {d}) \/ Hit(D.queue, {d}))
    BY <1>5, <2>2
  <2>4. /\ AsleepAt(d)' = (AsleepAt(d) \ {v}) \cup (IF Hit(D.queue, {d}) THEN {v} ELSE {})
        /\ (\A k \in CVNums : Single(cond[k].queue, {d})) /\ Single(D.queue, {d})
           => \A k \in CVNums : Single(cond'[k].queue, {d})
    BY <1>3, <1>4, AsleepAfter
  <2>5. Hit(C.queue, {d}) <=> v \in AsleepAt(d)
    BY <1>1 DEF AsleepAt
  <2>6. v \in AsleepAt(d) => /\ NetAt(d) = {} /\ AskedAt(d) = {} /\ DeferredAt(d) = {}
                             /\ QueuedAt(d) = {} /\ AsleepAt(d) = {v}
    BY <2>1, Alone
  <2>7. Hit(C.queue, {d}) => call[d].op = "WAIT"
    BY <1>3 DEF Hit
  <2> QED BY <2>2, <2>3, <2>4, <2>5, <2>6, <2>7
<1>8. ASSUME NEW k \in CVNums, NEW i \in DOMAIN cond'[k].queue
      PROVE  call[cond'[k].queue[i]].op = "WAIT" /\ call[cond'[k].queue[i]].obj = k
  <2>1. CASE k = v
    BY <1>3, <1>5, <1>6, <1>8, <2>1
  <2>2. CASE k # v
    BY <1>6, <1>8, <2>2, OneCond
  <2> QED BY <2>1, <2>2
<1>9. ASSUME NEW k \in CVNums, NEW d \in Clients, d \in Elements(cond'[k].queue)
      PROVE  d \in Elements(cond[k].queue)
  <2>1. CASE k = v
    <3>1. D.queue \in Seq(Clients)
      BY <1>5 DEF Conds
    <3>2. PICK i \in 1 .. Len(D.queue) : D.queue[i] = d
      BY <1>6, <1>9, <2>1 DEF Elements
    <3>3. i \in DOMAIN D.queue
      BY <3>1
    <3>4. PICK j \in DOMAIN C.queue : C.queue[j] = d
      BY <1>5, <3>2, <3>3
    <3>5. j \in 1 .. Len(C.queue)
      BY <1>3
    <3> QED BY <1>1, <2>1, <3>4, <3>5 DEF Elements
  <2>2. CASE k # v
    BY <1>6, <1>9, <2>2
  <2> QED BY <2>1, <2>2
<1>10. cond' \in [CVNums -> Conds]
  BY <1>3, <1>4, <1>5
<1>11. Woke(v, W)
  BY <1>5, <1>7, <1>8, <1>9, <1>10 DEF Woke
<1> QED BY <1>1, <1>2, <1>11

-----------------------------------------------------------------------------
(* Operations that were put off, and those on conditions                   *)

(* The message is handled by sending mail, changing conditions, and dropping
   what was put off and asked about.                                        *)
CondChange(src, b, mail) ==
    /\ net[<<src, b>>] # <<>> /\ mail \in Mails /\ Handle(src, b, mail)
    /\ \A b2 \in Boxes : \A j \in DOMAIN mail[b2] : \A y : y = mail[b2][j] => GoodMessage(y, b2)'
    /\ UNCHANGED <<lock, mv, queryQueue, nextQueryID, clientVars>>
    /\ cond' \in [CVNums -> Conds] /\ down' \subseteq Servers
    /\ cvLockTrackerList' \in [Servers -> Seq(Trackers)]
    /\ \A t \in Servers : \A i \in DOMAIN cvLockTrackerList'[t] : \E j \in DOMAIN cvLockTrackerList[t] :
          cvLockTrackerList'[t][i] = cvLockTrackerList[t][j]
    /\ \A t \in Servers : \A d \in Clients : \A l \in LockNums :
          PutOff(t, d, l) => PutOff(t, d, l)' \/ First(src, b) \in DoubtOf(d)

(* What stays when a condition changes.                                     *)
LEMMA CondStep ==
    ASSUME Inv, NEW src \in Machines, NEW b \in Boxes, NEW mail, CondChange(src, b, mail)
    PROVE  StateOK' /\ GoodMail' /\ GoodQueries' /\ GoodTrackers' /\ Ownership' /\ Retirement'
<1> USE DEF CondChange
<1>1. UNCHANGED <<lock, mv, queryQueue, nextQueryID, call, calls, holds, retired>>
  BY DEF clientVars
<1>2. StateOK'
  <2>1. net' \in [Channels -> Seq(Messages)]
    BY HandleTyped DEF Inv, StateOK
  <2> QED BY <1>1, <2>1 DEF Inv, StateOK, TypeOK, Conds
<1>3. GoodMail'
  <2>1. ASSUME NEW ch \in Channels, NEW i \in DOMAIN net[ch], NEW y \in Messages,
               y = net[ch][i], ch = <<src, b>> => i # 1, GoodMessage(y, ch[2])
        PROVE  GoodMessage(y, ch[2])'
    <3>1. PICK b2 \in Boxes : b2 = ch[2]
      BY BoxFacts
    <3>2. ASSUME NEW d \in Clients, y \in DoubtOf(d) PROVE First(src, b) \notin DoubtOf(d)
      <4>1. PICK T : T = DoubtOf(d)
        OBVIOUS
      <4>2. /\ \A dh \in Channels : Single(net[dh], T)
            /\ \A dh, eh \in Channels : Hit(net[dh], T) /\ Hit(net[eh], T) => dh = eh
        BY <4>1 DEF Inv, OneDoubt
      <4>3. Hit(net[ch], T)
        BY <2>1, <3>2, <4>1 DEF Hit
      <4>4. SUFFICES ASSUME First(src, b) \in T PROVE FALSE
        BY <4>1
      <4>5. <<src, b>> \in Channels /\ 1 \in DOMAIN net[<<src, b>>] /\ net[<<src, b>>][1] = First(src, b)
        BY Handled
      <4>6. ch = <<src, b>>
        BY <4>2, <4>3, <4>4, <4>5 DEF Hit
      <4>7. i = 1
        BY <2>1, <3>2, <4>1, <4>2, <4>4, <4>5, <4>6 DEF Single
      <4> QED BY <2>1, <4>6, <4>7
    <3>3. y.type = "DOES_CLIENT_HAVE_LOCK" =>
              (PutOff(y.from, y.client, y.lockNum) => PutOff(y.from, y.client, y.lockNum)')
      <4> SUFFICES ASSUME y.type = "DOES_CLIENT_HAVE_LOCK", PutOff(y.from, y.client, y.lockNum)
                   PROVE  PutOff(y.from, y.client, y.lockNum)'
        OBVIOUS
      <4>1. PICK t \in Servers, d \in Clients, l \in LockNums : t = y.from /\ d = y.client /\ l = y.lockNum
        BY Types DEF Doubts
      <4>2. y \in DoubtOf(d)
        BY <4>1 DEF DoubtOf
      <4>3. PutOff(t, d, l) => PutOff(t, d, l)'
        BY <3>2, <4>1, <4>2
      <4> QED BY <4>1, <4>3
    <3>4. y.type = "CV_LOCK_TRACKER_RESPONSE" =>
              (PutOff(b2[1], y.client, y.lockNum) => PutOff(b2[1], y.client, y.lockNum)')
      <4> SUFFICES ASSUME y.type = "CV_LOCK_TRACKER_RESPONSE", PutOff(b2[1], y.client, y.lockNum)
                   PROVE  PutOff(b2[1], y.client, y.lockNum)'
        OBVIOUS
      <4>1. PICK t \in Servers, d \in Clients, l \in LockNums : t = b2[1] /\ d = y.client /\ l = y.lockNum
        <5>1. y \in Verdicts
          BY Types
        <5>2. b2[1] \in Servers
          BY <2>1, <3>1 DEF GoodMessage
        <5> QED BY <5>1, <5>2 DEF Verdicts
      <4>2. y \in DoubtOf(d)
        BY <4>1 DEF DoubtOf
      <4>3. PutOff(t, d, l) => PutOff(t, d, l)'
        BY <3>2, <4>1, <4>2
      <4> QED BY <4>1, <4>3
    <3>5. y.type = "REPLY" /\ b2[1] \in Clients /\ call[b2[1]].op = "ACQUIRE" =>
              (Owns(b2[1], call[b2[1]].obj) => Owns(b2[1], call[b2[1]].obj)')
      BY <1>1 DEF Owns
    <3>6. GoodMessage(y, b2)'
      BY <1>1, <2>1, <3>1, <3>3, <3>4, <3>5, StaysGood
    <3> QED BY <3>1, <3>6
  <2> QED BY <2>1, MailStep
<1>4. GoodQueries'
  <2>1. \A x, b2 : GoodRequest(x, b2)' <=> GoodRequest(x, b2)
    BY <1>1 DEF GoodRequest, Asks
  <2>2. GoodQueries
    BY DEF Inv
  <2> QED BY <1>1, <2>1, <2>2 DEF GoodQueries
<1>5. GoodTrackers'
  <2>1. \A e : \A t : (Asks(e.client, e.op, e.cvNum, e.lockNum) /\ ~Mine(t, e.lockNum))'
                      <=> Asks(e.client, e.op, e.cvNum, e.lockNum) /\ ~Mine(t, e.lockNum)
    BY <1>1 DEF Asks
  <2> SUFFICES ASSUME NEW t \in Servers, NEW i \in DOMAIN cvLockTrackerList'[t], NEW e, e = cvLockTrackerList'[t][i]
               PROVE  (Asks(e.client, e.op, e.cvNum, e.lockNum) /\ ~Mine(t, e.lockNum))'
    BY DEF GoodTrackers
  <2>2. PICK j \in DOMAIN cvLockTrackerList[t] : e = cvLockTrackerList[t][j]
    OBVIOUS
  <2>3. Asks(e.client, e.op, e.cvNum, e.lockNum) /\ ~Mine(t, e.lockNum)
    BY <2>2 DEF Inv, GoodTrackers
  <2> QED BY <2>1, <2>3
<1>6. Ownership' /\ Retirement'
  BY <1>1 DEF Inv, Ownership, Retirement, Owns
<1> QED BY <1>2, <1>3, <1>4, <1>5, <1>6

(* Client c leaves the place that the message is of, and others stay.       *)
Leaving(src, b, c) ==
    /\ c \in Clients /\ call' = call /\ call[c] # Idle
    /\ UNCHANGED <<lock, queryQueue>>
    /\ \A d \in Clients : First(src, b) \in MailOf(d) => d = c
    /\ First(src, b) \in MailOf(c) \/ NetAt(c) = {}
    /\ AskedAt(c) = {} /\ QueuedAt(c) = {} /\ AsleepAt(c) = {} /\ DeferredAt(c)' = {}
    /\ \A d \in Clients : /\ d # c => DeferredAt(d)' = DeferredAt(d)
                          /\ \A t \in Servers : Single(cvLockTrackerList'[t], TrackerOf(d))

(* It goes on in the mail, nobody or others with it, or on a condition.     *)
LEMMA LeftForNet ==
    ASSUME Inv, NEW src, NEW b, NEW c, Leaving(src, b, c), NEW d \in Clients, d = c,
           \A ch \in Channels : Single(net'[ch], MailOf(d)), \A k \in CVNums : Single(cond'[k].queue, {d}),
           AsleepAt(d)' = {}, \E x : NetAt(d)' \subseteq {x}
    PROVE  OnePlace(d)'
<1> USE DEF Leaving
<1>1. OnceEach(d)
  BY DEF Inv, OnePlace
<1>2. OnceEach(d)'
  BY <1>1 DEF OnceEach
<1>3. AskedAt(d)' = {} /\ QueuedAt(d)' = {} /\ DeferredAt(d)' = {} /\ call'[d] # Idle
  BY DEF AskedAt, QueuedAt
<1> QED BY <1>2, <1>3, MovedToNet

(* It sleeps on the condition.                                              *)
LEMMA LeftForCond ==
    ASSUME Inv, NEW src, NEW b, NEW c, Leaving(src, b, c), NEW d \in Clients, d = c,
           \A ch \in Channels : Single(net'[ch], MailOf(d)), \A k \in CVNums : Single(cond'[k].queue, {d}),
           NetAt(d)' = {}, \E x : AsleepAt(d)' \subseteq {x}
    PROVE  OnePlace(d)'
<1> USE DEF Leaving
<1>1. OnceEach(d)
  BY DEF Inv, OnePlace
<1>2. OnceEach(d)'
  BY <1>1 DEF OnceEach
<1>3. AskedAt(d)' = {} /\ QueuedAt(d)' = {} /\ DeferredAt(d)' = {} /\ call'[d] # Idle
  BY DEF AskedAt, QueuedAt
<1> QED BY <1>2, <1>3, MovedToCond

(* The others stay where they are.                                          *)
LEMMA LeftOthers ==
    ASSUME Inv, NEW src, NEW b, NEW c, Leaving(src, b, c), NEW d \in Clients, d # c,
           \A ch \in Channels : Single(net'[ch], MailOf(d)), \A k \in CVNums : Single(cond'[k].queue, {d}),
           AsleepAt(d)' = AsleepAt(d), NetAt(d)' = NetAt(d)
    PROVE  OnePlace(d)'
<1> USE DEF Leaving
<1>1. OnceEach(d) /\ OnePlace(d)
  BY DEF Inv, OnePlace
<1>2. OnceEach(d)'
  BY <1>1 DEF OnceEach
<1>3. AskedAt(d)' = AskedAt(d) /\ QueuedAt(d)' = QueuedAt(d) /\ DeferredAt(d)' = DeferredAt(d) /\ call'[d] = call[d]
  BY DEF AskedAt, QueuedAt
<1> QED BY <1>1, <1>2, <1>3, Stays

(* Nobody is answered.                                                      *)
LEMMA RepliesNone == Replies(<<>>) = Nothing
<1>1. PICK q : q = <<>>
  OBVIOUS
<1>2. q \in Seq(Machines) /\ DOMAIN q = {}
  BY <1>1
<1>3. PICK R : R = Replies(q)
  OBVIOUS
<1>4. R \in Mails /\ \A b \in Boxes : \A k \in DOMAIN R[b] : \E j \in DOMAIN q : q[j] = b[1]
  BY <1>2, <1>3, RepliesMail
<1>5. \A b \in Boxes : R[b] = <<>>
  <2> SUFFICES ASSUME NEW b \in Boxes PROVE R[b] = <<>>
    OBVIOUS
  <2>1. R[b] \in Seq(Messages) /\ \A k \in DOMAIN R[b] : FALSE
    BY <1>2, <1>4 DEF Mails
  <2>2. PICK z \in Seq(Messages) : z = R[b] /\ \A k \in DOMAIN z : FALSE
    BY <2>1
  <2>3. DOMAIN z = 1 .. Len(z) /\ Len(z) \in Nat
    OBVIOUS
  <2>4. Len(z) = 0
    <3>1. 1 \notin 1 .. Len(z)
      BY <2>2, <2>3
    <3> QED BY <2>3, <3>1
  <2> QED BY <2>2, <2>4, EmptySeq
<1>6. R = [b \in Boxes |-> R[b]]
  BY <1>3 DEF Replies
<1> QED BY <1>1, <1>3, <1>5, <1>6 DEF Nothing

(* Client c wakes those of W on condition v, or nobody, and q is answered.  *)
WakesFor(src, b, c, v, W, q) ==
    /\ net[<<src, b>>] # <<>> /\ Handle(src, b, Replies(q))
    /\ Leaving(src, b, c) /\ Woke(v, W)
    /\ call[c].op \in {"SIGNAL", "BROADCAST"}
    /\ q = Append(W, c) \/ (q = <<>> /\ W = <<>>)

(* What holds after waking.                                                 *)
LEMMA WakeRest ==
    ASSUME Inv, NEW src \in Machines, NEW b \in Boxes, NEW c, NEW v \in CVNums, NEW W, NEW q,
           WakesFor(src, b, c, v, W, q)
    PROVE  /\ Replies(q) \in Mails
           /\ \A b2 \in Boxes : \A j \in DOMAIN Replies(q)[b2] : \A y : y = Replies(q)[b2][j] => GoodMessage(y, b2)'
           /\ GoodQueues' /\ SleepersGaveUpLock'
           /\ \A d \in Clients : OnePlace(d)' /\ OneDoubt(d)'
<1>1. /\ net[<<src, b>>] # <<>> /\ Handle(src, b, Replies(q)) /\ Leaving(src, b, c) /\ Woke(v, W)
      /\ call[c].op \in {"SIGNAL", "BROADCAST"} /\ (q = Append(W, c) \/ (q = <<>> /\ W = <<>>))
  BY DEF WakesFor
<1>2. c \in Clients /\ c \in Machines /\ call' = call /\ lock' = lock /\ W \in Seq(Clients)
  BY <1>1, BoxFacts DEF Leaving, Woke
<1>3. W \in Seq(Machines)
  <2>1. \A d \in Clients : d \in Machines
    BY BoxFacts
  <2> QED BY <1>2, <2>1
<1>4. q \in Seq(Machines)
  <2>1. Append(W, c) \in Seq(Machines) /\ <<>> \in Seq(Machines)
    BY <1>2, <1>3
  <2> QED BY <1>1, <2>1
<1>5. \A T : Hit(q, T) => Hit(W, T) \/ c \in T
  <2> SUFFICES ASSUME NEW T, Hit(q, T) PROVE Hit(W, T) \/ c \in T
    OBVIOUS
  <2>1. Hit(Append(W, c), T) <=> (Hit(W, T) \/ c \in T)
    BY <1>2, AppendKeeps
  <2>2. ~Hit(<<>>, T)
    BY DEF Hit
  <2> QED BY <1>1, <2>1, <2>2
<1>6. ASSUME NEW d \in Clients
      PROVE  /\ Single(W, {d}) /\ \A k \in CVNums : Single(cond'[k].queue, {d})
             /\ Hit(W, {d}) => /\ NetAt(d) = {} /\ AskedAt(d) = {} /\ DeferredAt(d) = {} /\ QueuedAt(d) = {}
                               /\ AsleepAt(d)' = {} /\ call[d].op = "WAIT" /\ d # c
             /\ ~Hit(W, {d}) => AsleepAt(d)' = AsleepAt(d) /\ (Hit(q, {d}) => d = c)
             /\ Hit(W, {d}) => Hit(q, {d})
             /\ Single(q, {d})
  <2>1. /\ Single(W, {d}) /\ \A k \in CVNums : Single(cond'[k].queue, {d})
        /\ Hit(W, {d}) => /\ NetAt(d) = {} /\ AskedAt(d) = {} /\ DeferredAt(d) = {} /\ QueuedAt(d) = {}
                          /\ AsleepAt(d)' = {} /\ call[d].op = "WAIT"
        /\ ~Hit(W, {d}) => AsleepAt(d)' = AsleepAt(d)
    BY <1>1 DEF Woke
  <2>2. Hit(W, {d}) => d # c
    BY <1>1, <2>1
  <2>3. /\ Hit(Append(W, c), {d}) <=> (Hit(W, {d}) \/ c \in {d})
        /\ Single(W, {d}) /\ ~(Hit(W, {d}) /\ c \in {d}) => Single(Append(W, c), {d})
    BY <1>2, AppendKeeps
  <2>4. ~Hit(<<>>, {d}) /\ Single(<<>>, {d})
    BY DEF Hit, Single
  <2> QED BY <1>1, <2>1, <2>2, <2>3, <2>4
<1>7. PICK mail : mail = Replies(q)
  OBVIOUS
<1>8. /\ mail \in Mails
      /\ \A b2 \in Boxes : \A j \in DOMAIN mail[b2] : \A y : y = mail[b2][j] => GoodMessage(y, b2)'
  <2>1. /\ mail \in Mails
        /\ \A b2 \in Boxes : \A j \in DOMAIN mail[b2] :
              /\ b2[2] = 0 /\ mail[b2][j] = Reply(b2[1], -1)
              /\ \E i \in DOMAIN q : q[i] = b2[1]
    BY <1>4, <1>7, RepliesMail
  <2> SUFFICES ASSUME NEW b2 \in Boxes, NEW j \in DOMAIN mail[b2], NEW y, y = mail[b2][j]
               PROVE  GoodMessage(y, b2)'
    BY <2>1
  <2>2. PICK z \in Machines : z = b2[1] /\ b2 = <<z, 0>> /\ y = Reply(z, -1)
    BY <2>1, BoxFacts
  <2>3. Hit(q, {z})
    BY <2>1, <2>2 DEF Hit
  <2>4. z \in Clients => call'[z].op # "ACQUIRE"
    BY <1>1, <1>2, <1>6, <2>3
  <2>5. "REPLY" \notin Ops
    BY DEF Ops, LockOps, UseOps, MVOps
  <2> QED BY <2>2, <2>4, <2>5 DEF GoodMessage, Reply
<1>9. GoodQueues' /\ SleepersGaveUpLock'
  <2>1. \A l \in LockNums : \A i \in DOMAIN lock'[l].queue :
           call[lock'[l].queue[i]].op = "ACQUIRE" /\ call[lock'[l].queue[i]].obj = l
    BY <1>2, OneLock
  <2>2. /\ \A x \in CVNums : \A i \in DOMAIN cond'[x].queue :
              call[cond'[x].queue[i]].op = "WAIT" /\ call[cond'[x].queue[i]].obj = x
        /\ \A x \in CVNums : \A d \in Clients : d \in Elements(cond'[x].queue) => d \in Elements(cond[x].queue)
    BY <1>1 DEF Woke
  <2>3. \A x \in CVNums : \A d \in Clients : d \in Elements(cond'[x].queue) =>
           \/ d \in Elements(cond[x].queue)
           \/ x \div MaxObjects = call[d].arg \div MaxObjects => lock'[call[d].arg].owner # d
    BY <2>2, Zenon
  <2>4. \A l \in LockNums : \A d \in Clients : lock'[l].owner = d => lock[l].owner = d \/ call[d].op = "ACQUIRE"
    BY <1>2
  <2> QED BY <1>2, <2>1, <2>2, <2>3, <2>4, SleepersAfter
<1>10. ASSUME NEW d \in Clients PROVE OnePlace(d)' /\ OneDoubt(d)'
  <2>1. /\ First(src, b) \in MailOf(d) => d = c
        /\ First(src, b) \in MailOf(c) \/ NetAt(c) = {}
        /\ AsleepAt(c) = {} /\ DeferredAt(c)' = {}
        /\ d # c => DeferredAt(d)' = DeferredAt(d)
        /\ \A t \in Servers : Single(cvLockTrackerList'[t], TrackerOf(d))
        /\ queryQueue' = queryQueue
    BY <1>1 DEF Leaving
  <2>2. Hit(q, {d}) => First(src, b) \in MailOf(d) \/ NetAt(d) = {}
    BY <1>6, <2>1
  <2>3. /\ \A ch \in Channels : Single(net'[ch], MailOf(d))
        /\ NetAt(d)' = IF Hit(q, {d}) THEN {<<b[1], <<d, 0>>>>}
                       ELSE IF First(src, b) \in MailOf(d) THEN {} ELSE NetAt(d)
        /\ First(src, b) \in MailOf(d) => AskedAt(d) = {} /\ DeferredAt(d) = {} /\ QueuedAt(d) = {} /\ AsleepAt(d) = {}
        /\ OneDoubt(d)'
    BY <1>1, <1>4, <1>6, <2>2, AnswersStep
  <2>4. CASE d = c
    <3>1. ~Hit(W, {d})
      BY <1>6, <2>4
    <3>2. AsleepAt(d)' = {}
      BY <1>6, <2>1, <2>4, <3>1
    <3>3. \E x : NetAt(d)' \subseteq {x}
      BY <2>1, <2>3, <2>4
    <3>4. OnePlace(d)'
      BY <1>1, <1>6, <2>3, <2>4, <3>2, <3>3, LeftForNet
    <3> QED BY <2>3, <3>4
  <2>5. CASE d # c /\ Hit(W, {d})
    <3>1. NetAt(d)' = {<<b[1], <<d, 0>>>>}
      BY <1>6, <2>3, <2>5
    <3>2. AskedAt(d)' = {} /\ QueuedAt(d)' = {} /\ DeferredAt(d)' = {} /\ AsleepAt(d)' = {}
      BY <1>2, <1>6, <2>1, <2>5 DEF AskedAt, QueuedAt
    <3>3. call'[d] # Idle
      <4>1. call[d].op = "WAIT"
        BY <1>6, <2>5
      <4> QED BY <1>2, <4>1 DEF Idle
    <3>4. OnceEach(d)
      BY DEF Inv, OnePlace
    <3>5. OnceEach(d)'
      BY <1>2, <1>6, <2>1, <2>3, <3>4 DEF OnceEach
    <3>6. OnePlace(d)'
      BY <3>1, <3>2, <3>3, <3>5, MovedToNet
    <3> QED BY <2>3, <3>6
  <2>6. CASE d # c /\ ~Hit(W, {d})
    <3>1. ~Hit(q, {d}) /\ First(src, b) \notin MailOf(d) /\ AsleepAt(d)' = AsleepAt(d)
      BY <1>6, <2>1, <2>6
    <3>2. NetAt(d)' = NetAt(d)
      BY <2>3, <3>1
    <3>3. OnePlace(d)'
      BY <1>1, <1>6, <2>3, <2>6, <3>1, <3>2, LeftOthers
    <3> QED BY <2>3, <3>3
  <2> QED BY <2>4, <2>5, <2>6
<1> QED BY <1>7, <1>8, <1>9, <1>10

(* Signal and Broadcast, where one server has the condition and the lock.   *)
LEMMA WakeHereInv == ASSUME Inv, NEW s \in Servers, NEW src \in Machines, WakeHere(s, src) PROVE Inv'
<1>1. PICK b \in Boxes : b = <<s, 0>>
  BY BoxFacts
<1>2. PICK m : m = First(src, b)
  OBVIOUS
<1>3. PICK v, c, op, w : v = m.obj /\ c = m.from /\ op = m.type /\ w = decodeIndex(m.arg)
  OBVIOUS
<1>4. PICK W : W = Woken(cond[v], op, w)
  OBVIOUS
<1>5. PICK q : q = IF Spins(cond[v], op, w) THEN <<>> ELSE Append(W, c)
  OBVIOUS
<1>6. /\ net[<<src, b>>] # <<>> /\ m.type \in {"SIGNAL", "BROADCAST"}
      /\ cond' = [cond EXCEPT ![v] = AfterWake(@, op, w)]
      /\ down' = IF Spins(cond[v], op, w) THEN down \cup {s} ELSE down
      /\ Handle(src, b, IF Spins(cond[v], op, w) THEN Nothing ELSE Replies(Append(W, c)))
      /\ UNCHANGED <<lock, mv, queryQueue, nextQueryID, cvLockTrackerList, clientVars>>
  BY <1>1, <1>2, <1>3, <1>4 DEF WakeHere, HasLock, At, Arrived, Message, Wake
<1>7. c \in Clients /\ m \in MailOf(c) /\ call[c] = [op |-> op, obj |-> v, arg |-> m.arg]
  <2>1. m.type \in Ops \ {"RELEASE", "DESTROY_MV"}
    BY <1>6 DEF Ops, UseOps
  <2>2. m.from \in Clients /\ m \in MailOf(m.from) /\ call[m.from] = [op |-> m.type, obj |-> m.obj, arg |-> m.arg]
    BY <1>2, <1>6, <2>1, Asked
  <2> QED BY <1>3, <1>6, <2>2
<1>8. v \in CVNums
  <2>1. call[c].op \in UseOps
    BY <1>3, <1>6, <1>7 DEF UseOps
  <2>2. StateOK
    BY DEF Inv
  <2> QED BY <1>7, <2>1, <2>2, Called
<1>9. Woke(v, W)
  BY <1>4, <1>6, <1>8, WakeStep
<1>10. Handle(src, b, Replies(q))
  BY <1>5, <1>6, RepliesNone
<1>11. q = Append(W, c) \/ (q = <<>> /\ W = <<>>)
  BY <1>4, <1>5 DEF Spins, Woken
<1>12. <<src, b>> \in NetAt(c)
  BY <1>2, <1>6, <1>7, Handled DEF NetAt, Hit
<1>13. call[c] # Idle /\ call' = call
  BY <1>3, <1>6, <1>7 DEF Idle, clientVars
<1>14. Leaving(src, b, c)
  <2>1. OnePlace(c)
    BY <1>7 DEF Inv
  <2>2. AskedAt(c) = {} /\ QueuedAt(c) = {} /\ AsleepAt(c) = {} /\ DeferredAt(c) = {}
    BY <1>7, <1>12, <2>1, Alone
  <2>3. \A d \in Clients : DeferredAt(d)' = DeferredAt(d)
    BY <1>6 DEF DeferredAt
  <2>4. \A d \in Clients : \A t \in Servers : Single(cvLockTrackerList'[t], TrackerOf(d))
    BY <1>6 DEF Inv, OnePlace, OnceEach
  <2>5. \A d \in Clients : First(src, b) \in MailOf(d) => d = c
    BY <1>2, <1>7, OneOwner
  <2> QED BY <1>2, <1>6, <1>7, <1>13, <2>2, <2>3, <2>4, <2>5 DEF Leaving
<1>15. WakesFor(src, b, c, v, W, q)
  BY <1>3, <1>6, <1>7, <1>9, <1>10, <1>11, <1>14 DEF WakesFor
<1>16. /\ Replies(q) \in Mails
       /\ \A b2 \in Boxes : \A j \in DOMAIN Replies(q)[b2] : \A y : y = Replies(q)[b2][j] => GoodMessage(y, b2)'
       /\ GoodQueues' /\ SleepersGaveUpLock'
       /\ \A d \in Clients : OnePlace(d)' /\ OneDoubt(d)'
  BY <1>8, <1>15, WakeRest
<1>17. CondChange(src, b, Replies(q))
  <2>1. cond' \in [CVNums -> Conds]
    BY <1>9 DEF Woke
  <2>2. down' \subseteq Servers /\ cvLockTrackerList' \in [Servers -> Seq(Trackers)]
    BY <1>6 DEF Inv, StateOK, TypeOK
  <2>3. /\ \A t \in Servers : \A i \in DOMAIN cvLockTrackerList'[t] : \E j \in DOMAIN cvLockTrackerList[t] :
              cvLockTrackerList'[t][i] = cvLockTrackerList[t][j]
        /\ \A t \in Servers : \A d \in Clients : \A l \in LockNums :
              PutOff(t, d, l) => PutOff(t, d, l)' \/ First(src, b) \in DoubtOf(d)
    BY <1>6 DEF PutOff
  <2> QED BY <1>6, <1>10, <1>16, <2>1, <2>2, <2>3 DEF CondChange
<1>18. StateOK' /\ GoodMail' /\ GoodQueries' /\ GoodTrackers' /\ Ownership' /\ Retirement'
  BY <1>17, CondStep
<1> QED BY <1>16, <1>18 DEF Inv

(* Server s was told whether a client has a lock, and goes on with e.       *)
Drops(s, src, b, m, e) ==
    /\ b = <<s, 0>> /\ net[<<src, b>>] # <<>> /\ m = First(src, b) /\ m.type = "CV_LOCK_TRACKER_RESPONSE"
    /\ e = cvLockTrackerList[s][Tracked(s, m)]
    /\ cvLockTrackerList' = [cvLockTrackerList EXCEPT ![s] = Without(@, Tracked(s, m))]
    /\ UNCHANGED <<lock, mv, queryQueue, nextQueryID, clientVars>>

(* What is known of the operation that was put off and goes on.             *)
LEMMA Untracked ==
    ASSUME Inv, NEW s \in Servers, NEW src \in Machines, NEW b \in Boxes, NEW m, NEW e, Drops(s, src, b, m, e)
    PROVE  /\ m \in Verdicts /\ m.client \in Clients
           /\ e.op \in UseOps /\ e.cvNum \in CVNums /\ e.lockNum \in LockNums
           /\ Asks(m.client, e.op, e.cvNum, e.lockNum) /\ ~Mine(s, e.lockNum)
           /\ Leaving(src, b, m.client) /\ NetAt(m.client) = {} /\ m \in DoubtOf(m.client)
           /\ cvLockTrackerList' \in [Servers -> Seq(Trackers)]
           /\ \A t \in Servers : \A i \in DOMAIN cvLockTrackerList'[t] : \E j \in DOMAIN cvLockTrackerList[t] :
                 cvLockTrackerList'[t][i] = cvLockTrackerList[t][j]
           /\ \A t \in Servers : \A d \in Clients : \A l \in LockNums :
                 PutOff(t, d, l) => PutOff(t, d, l)' \/ First(src, b) \in DoubtOf(d)
<1> USE DEF Drops
<1>1. m \in Verdicts /\ GoodMessage(m, b) /\ b[1] = s
  BY Handled, Types, BoxFacts
<1>2. PICK c \in Clients, l \in LockNums : c = m.client /\ l = m.lockNum
  BY <1>1 DEF Verdicts
<1>3. PutOff(s, c, l)
  BY <1>1, <1>2 DEF GoodMessage
<1>4. PICK Q : Q = cvLockTrackerList[s]
  OBVIOUS
<1>5. cvLockTrackerList \in [Servers -> Seq(Trackers)] /\ Q \in Seq(Trackers) /\ DOMAIN Q = 1 .. Len(Q)
  BY <1>4 DEF Inv, StateOK, TypeOK
<1>6. PICK S : S = {j \in 1 .. Len(Q) : Q[j].client = c /\ Q[j].lockNum = l}
  OBVIOUS
<1>7. PICK i : i = Tracked(s, m)
  OBVIOUS
<1>8. i = Lowest(S)
  BY <1>2, <1>4, <1>6, <1>7 DEF Tracked
<1>9. i \in 1 .. Len(Q) /\ Q[i].client = c /\ Q[i].lockNum = l
  <2>1. S \in SUBSET Nat /\ S # {}
    BY <1>3, <1>4, <1>5, <1>6 DEF PutOff
  <2>2. Lowest(S) \in S
    BY <2>1, LowestIn
  <2> QED BY <1>6, <1>8, <2>2
<1>10. e = Q[i] /\ e \in Trackers
  BY <1>4, <1>5, <1>7, <1>9
<1>11. Asks(c, e.op, e.cvNum, e.lockNum) /\ ~Mine(s, e.lockNum)
  BY <1>4, <1>5, <1>9, <1>10 DEF Inv, GoodTrackers
<1>12. e.op \in UseOps /\ e.cvNum \in CVNums /\ e.lockNum \in LockNums
  BY <1>10 DEF Trackers
<1>13. \A d \in Clients : e \in TrackerOf(d) <=> d = c
  BY <1>9, <1>10 DEF TrackerOf
<1>14. s \in DeferredAt(c)
  BY <1>4, <1>5, <1>9, <1>10, <1>13 DEF DeferredAt, Hit
<1>15. OnePlace(c)
  BY DEF Inv
<1>16. NetAt(c) = {} /\ AskedAt(c) = {} /\ DeferredAt(c) = {s} /\ QueuedAt(c) = {} /\ AsleepAt(c) = {}
  BY <1>14, <1>15, Alone
<1>17. PICK R : R = Without(Q, i)
  OBVIOUS
<1>18. /\ R \in Seq(Trackers) /\ DOMAIN R = 1 .. Len(Q) - 1 /\ Len(Q) \in Nat
       /\ \A j \in 1 .. Len(Q) - 1 : R[j] = IF j < i THEN Q[j] ELSE Q[j + 1]
  <2>1. PICK T : T = {}
    OBVIOUS
  <2>2. Single(Q, T)
    BY <2>1 DEF Single
  <2>3. /\ Without(Q, i) \in Seq(Trackers)
        /\ Len(Without(Q, i)) = Len(Q) - 1
        /\ \A j \in 1 .. Len(Q) - 1 : Without(Q, i)[j] = IF j < i THEN Q[j] ELSE Q[j + 1]
        /\ Single(Without(Q, i), T)
        /\ Hit(Without(Q, i), T) <=> (Hit(Q, T) /\ Q[i] \notin T)
    BY <1>5, <1>9, <2>2, WithoutKeeps
  <2> QED BY <1>5, <1>17, <2>3
<1>19. \A d \in Clients : Single(R, TrackerOf(d)) /\ (Hit(R, TrackerOf(d)) <=> Hit(Q, TrackerOf(d)) /\ d # c)
  <2> SUFFICES ASSUME NEW d \in Clients
               PROVE  Single(R, TrackerOf(d)) /\ (Hit(R, TrackerOf(d)) <=> Hit(Q, TrackerOf(d)) /\ d # c)
    OBVIOUS
  <2>1. PICK T : T = TrackerOf(d)
    OBVIOUS
  <2>2. Single(Q, T)
    BY <1>4, <2>1 DEF Inv, OnePlace, OnceEach
  <2>3. /\ Without(Q, i) \in Seq(Trackers)
        /\ Len(Without(Q, i)) = Len(Q) - 1
        /\ \A j \in 1 .. Len(Q) - 1 : Without(Q, i)[j] = IF j < i THEN Q[j] ELSE Q[j + 1]
        /\ Single(Without(Q, i), T)
        /\ Hit(Without(Q, i), T) <=> (Hit(Q, T) /\ Q[i] \notin T)
    BY <1>5, <1>9, <2>2, WithoutKeeps
  <2> QED BY <1>10, <1>13, <1>17, <2>1, <2>3
<1>20. \A t \in Servers : cvLockTrackerList'[t] = IF t = s THEN R ELSE cvLockTrackerList[t]
  BY <1>4, <1>5, <1>7, <1>17
<1>21. ASSUME NEW d \in Clients
       PROVE  /\ d # c => DeferredAt(d)' = DeferredAt(d)
              /\ \A t \in Servers : Single(cvLockTrackerList'[t], TrackerOf(d))
              /\ d = c => DeferredAt(d)' = {}
  <2>1. \A t : t \in DeferredAt(d)' <=> t \in Servers /\ Hit(cvLockTrackerList'[t], TrackerOf(d))
    BY DEF DeferredAt
  <2>2. \A t : t \in DeferredAt(d) <=> t \in Servers /\ Hit(cvLockTrackerList[t], TrackerOf(d))
    BY DEF DeferredAt
  <2>3. \A t \in Servers : Single(cvLockTrackerList[t], TrackerOf(d))
    BY DEF Inv, OnePlace, OnceEach
  <2> QED BY <1>4, <1>16, <1>19, <1>20, <2>1, <2>2, <2>3
<1>22. call[c] # Idle /\ call' = call
  <2>1. call[c].op = e.op
    BY <1>11 DEF Asks
  <2>2. Idle.op \notin Ops /\ UseOps \subseteq Ops
    BY DEF Idle, Ops, LockOps, UseOps, MVOps
  <2> QED BY <1>12, <2>1, <2>2 DEF clientVars
<1>23. \A d \in Clients : First(src, b) \notin MailOf(d)
  BY <1>1, Concerns
<1>24. m \in DoubtOf(c)
  BY <1>1, <1>2, Concerns
<1>25. Leaving(src, b, c)
  BY <1>16, <1>21, <1>22, <1>23 DEF Leaving
<1>26. cvLockTrackerList' \in [Servers -> Seq(Trackers)]
  BY <1>4, <1>5, <1>7, <1>17, <1>18
<1>27. ASSUME NEW t \in Servers, NEW j \in DOMAIN cvLockTrackerList'[t]
       PROVE  \E h \in DOMAIN cvLockTrackerList[t] : cvLockTrackerList'[t][j] = cvLockTrackerList[t][h]
  <2>1. CASE t = s
    <3>1. j \in 1 .. Len(Q) - 1 /\ cvLockTrackerList'[t][j] = R[j]
      BY <1>18, <1>20, <1>27, <2>1
    <3>2. CASE j < i
      BY <1>4, <1>5, <1>18, <2>1, <3>1, <3>2
    <3>3. CASE ~(j < i)
      <4>1. j + 1 \in DOMAIN Q
        BY <1>5, <1>18, <3>1
      <4> QED BY <1>4, <1>18, <2>1, <3>1, <3>3, <4>1
    <3> QED BY <3>2, <3>3
  <2>2. CASE t # s
    BY <1>20, <1>27, <2>2
  <2> QED BY <2>1, <2>2
<1>28. ASSUME NEW t \in Servers, NEW d \in Clients, NEW o \in LockNums, PutOff(t, d, o), First(src, b) \notin DoubtOf(d)
       PROVE  PutOff(t, d, o)'
  <2>1. d # c
    BY <1>24, <1>28
  <2>2. PICK j \in DOMAIN cvLockTrackerList[t] :
           cvLockTrackerList[t][j].client = d /\ cvLockTrackerList[t][j].lockNum = o
    BY <1>28 DEF PutOff
  <2>3. CASE t # s
    BY <1>20, <2>2, <2>3 DEF PutOff
  <2>4. CASE t = s
    <3>1. j \in 1 .. Len(Q) /\ j # i /\ Q[j].client = d /\ Q[j].lockNum = o
      BY <1>4, <1>5, <1>9, <2>1, <2>2, <2>4
    <3>2. \E h \in DOMAIN R : R[h] = Q[j]
      <4>1. CASE j < i
        <5>1. j \in 1 .. Len(Q) - 1
          BY <1>9, <1>18, <3>1, <4>1
        <5> QED BY <1>18, <4>1, <5>1
      <4>2. CASE ~(j < i)
        <5>1. j - 1 \in 1 .. Len(Q) - 1 /\ ~(j - 1 < i) /\ (j - 1) + 1 = j
          <6>1. PICK N \in Nat : N = Len(Q) /\ i \in 1 .. N /\ j \in 1 .. N /\ j # i
            BY <1>9, <1>18, <3>1
          <6> QED BY <4>2, <6>1
        <5> QED BY <1>18, <5>1
      <4> QED BY <4>1, <4>2
    <3> QED BY <1>20, <2>4, <3>1, <3>2 DEF PutOff
  <2> QED BY <2>3, <2>4
<1> QED BY <1>1, <1>2, <1>11, <1>12, <1>16, <1>24, <1>25, <1>26, <1>27, <1>28

(* The mail when one message is sent.                                       *)
LEMMA OnlyStep ==
    ASSUME Inv, NEW src \in Machines, NEW b \in Boxes, net[<<src, b>>] # <<>>,
           NEW y \in Messages, y.to \in Boxes, Handle(src, b, Only(y)), NEW d \in Clients,
           y \in DoubtOf(d) => First(src, b) \in DoubtOf(d) \/ DeferredAt(d) = {},
           y \in MailOf(d) => First(src, b) \in MailOf(d) \/ NetAt(d) = {}
    PROVE  /\ \A ch \in Channels : Single(net'[ch], MailOf(d))
           /\ NetAt(d)' = IF y \in MailOf(d) THEN {<<b[1], y.to>>}
                          ELSE IF First(src, b) \in MailOf(d) THEN {} ELSE NetAt(d)
           /\ OneDoubt(d)'
<1>1. PICK mail : mail = Only(y)
  OBVIOUS
<1>2. PICK x \in Boxes : x = y.to
  OBVIOUS
<1>3. /\ mail \in Mails
      /\ \A bx \in Boxes : \A T : (Hit(mail[bx], T) <=> (bx = x /\ y \in T)) /\ Single(mail[bx], T)
  BY <1>1, <1>2, OnlyMail
<1>4. /\ \A bx \in Boxes : Single(mail[bx], MailOf(d)) /\ (Hit(mail[bx], MailOf(d)) => bx = x)
      /\ Hit(mail[x], MailOf(d)) => First(src, b) \in MailOf(d) \/ NetAt(d) = {}
      /\ Hit(mail[x], MailOf(d)) <=> y \in MailOf(d)
  BY <1>3
<1>5. Handle(src, b, mail)
  BY <1>1
<1>6. /\ \A ch \in Channels : Single(net'[ch], MailOf(d))
      /\ NetAt(d)' = IF Hit(mail[x], MailOf(d)) THEN {<<b[1], x>>}
                     ELSE IF First(src, b) \in MailOf(d) THEN {} ELSE NetAt(d)
      /\ First(src, b) \in MailOf(d) => /\ <<src, b>> \in NetAt(d) /\ NetAt(d) = {<<src, b>>}
                                        /\ AskedAt(d) = {} /\ DeferredAt(d) = {} /\ QueuedAt(d) = {} /\ AsleepAt(d) = {}
  BY <1>3, <1>4, <1>5, NetStep
<1>7. OneDoubt(d)'
  <2>1. /\ \A bx \in Boxes : Single(mail[bx], DoubtOf(d)) /\ (Hit(mail[bx], DoubtOf(d)) => bx = x)
        /\ Hit(mail[x], DoubtOf(d)) => \/ First(src, b) \in DoubtOf(d)
                                       \/ \A ch \in Channels : ~Hit(net[ch], DoubtOf(d))
    BY <1>3, DoubtDeferred
  <2> QED BY <1>3, <1>5, <2>1, DoubtStep
<1> QED BY <1>2, <1>4, <1>6, <1>7

(* Locks, conditions and calls that stay.                                   *)
LEMMA SameTables ==
    ASSUME Inv, lock' = lock, cond' = cond, call' = call
    PROVE  /\ GoodQueues' /\ SleepersGaveUpLock' /\ cond' \in [CVNums -> Conds]
           /\ \A d \in Clients : AsleepAt(d)' = AsleepAt(d) /\ \A k \in CVNums : Single(cond'[k].queue, {d})
<1>1. GoodQueues'
  BY DEF Inv, GoodQueues
<1>2. SleepersGaveUpLock'
  <2>1. SleepersGaveUpLock' <=> SleepersGaveUpLock
    BY DEF SleepersGaveUpLock
  <2> QED BY <2>1 DEF Inv
<1>3. \A d \in Clients : AsleepAt(d)' = AsleepAt(d) /\ \A k \in CVNums : Single(cond'[k].queue, {d})
  BY DEF Inv, OnePlace, OnceEach, AsleepAt
<1> QED BY <1>1, <1>2, <1>3 DEF Inv, StateOK, TypeOK, Conds

(* The operation that was put off goes on, once the lock was asked about.   *)
LEMMA ValidatedInv == ASSUME Inv, NEW s \in Servers, NEW src \in Machines, Validated(s, src) PROVE Inv'
<1>1. PICK b \in Boxes : b = <<s, 0>>
  BY BoxFacts
<1>2. PICK m : m = First(src, b)
  OBVIOUS
<1>3. PICK e : e = cvLockTrackerList[s][Tracked(s, m)]
  OBVIOUS
<1>4. PICK c, v, l, op : c = m.client /\ v = e.cvNum /\ l = e.lockNum /\ op = e.op
  OBVIOUS
<1>5. Drops(s, src, b, m, e)
  BY <1>1, <1>2, <1>3 DEF Validated, At, Arrived, Message, Drops
<1>6. /\ m \in Verdicts /\ c \in Clients
      /\ op \in UseOps /\ v \in CVNums /\ l \in LockNums
      /\ Asks(c, op, v, l) /\ ~Mine(s, l)
      /\ Leaving(src, b, c) /\ NetAt(c) = {} /\ m \in DoubtOf(c)
      /\ cvLockTrackerList' \in [Servers -> Seq(Trackers)]
      /\ \A t \in Servers : \A i \in DOMAIN cvLockTrackerList'[t] : \E j \in DOMAIN cvLockTrackerList[t] :
            cvLockTrackerList'[t][i] = cvLockTrackerList[t][j]
      /\ \A t \in Servers : \A d \in Clients : \A k \in LockNums :
            PutOff(t, d, k) => PutOff(t, d, k)' \/ First(src, b) \in DoubtOf(d)
  BY <1>4, <1>5, Untracked
<1>7. /\ net[<<src, b>>] # <<>> /\ First(src, b) = m
      /\ UNCHANGED <<lock, mv, queryQueue, nextQueryID, clientVars>> /\ call' = call
  BY <1>5 DEF Drops, clientVars
<1>8. call[c].op = op /\ call[c].arg = l /\ call[c].obj = v /\ c \in Machines
  BY <1>6, BoxFacts DEF Asks
<1>9. \A d \in Clients : First(src, b) \notin MailOf(d)
  BY <1>6, <1>7, Concerns
<1>10. down \subseteq Servers
  BY DEF Inv, StateOK, TypeOK
<1>11. \/ Handle(src, b, Replies(<<c>>)) /\ cond' = cond /\ down' = down
       \/ /\ ~Mine(s, v) /\ Handle(src, b, Only(Request(<<s, 1>>, op, c, v, l))) /\ cond' = cond /\ down' = down
       \/ /\ Mine(s, v) /\ op = "WAIT" /\ cond' = [cond EXCEPT ![v] = Waited(@, l, c)] /\ down' = down
          /\ Handle(src, b, Only(Request(<<l \div MaxObjects, 0>>, "RELEASE", s, l, 0)))
       \/ op # "WAIT" /\ Wake(s, src, c, op, v, l)
  BY <1>1, <1>2, <1>3, <1>4 DEF Validated, Message
<1>12. CASE Handle(src, b, Replies(<<c>>)) /\ cond' = cond /\ down' = down
  <2>1. PICK q \in Seq(Machines) : q = <<c>>
    <3>1. c \in Machines
      BY <1>6, BoxFacts
    <3>2. <<c>> \in Seq(Machines)
      BY <3>1
    <3> QED BY <3>2, Zenon
  <2>2. \A T : (Hit(q, T) <=> c \in T) /\ Single(q, T)
    BY <2>1 DEF Hit, Single
  <2>3. PICK mail : mail = Replies(q)
    OBVIOUS
  <2>4. /\ mail \in Mails
        /\ \A b2 \in Boxes : \A j \in DOMAIN mail[b2] : \A y : y = mail[b2][j] => GoodMessage(y, b2)'
    <3>1. /\ mail \in Mails
          /\ \A b2 \in Boxes : \A j \in DOMAIN mail[b2] :
                /\ b2[2] = 0 /\ mail[b2][j] = Reply(b2[1], -1)
                /\ \E i \in DOMAIN q : q[i] = b2[1]
      BY <2>3, RepliesMail
    <3> SUFFICES ASSUME NEW b2 \in Boxes, NEW j \in DOMAIN mail[b2], NEW y, y = mail[b2][j]
                 PROVE  GoodMessage(y, b2)'
      BY <3>1
    <3>2. b2 = <<c, 0>> /\ y = Reply(c, -1)
      BY <2>1, <3>1, BoxFacts
    <3>3. "REPLY" \notin Ops /\ "ACQUIRE" \notin UseOps
      BY DEF Ops, LockOps, UseOps, MVOps
    <3>4. call'[c].op # "ACQUIRE"
      <4>1. call'[c].op = op /\ op \in UseOps
        BY <1>6, <1>7, <1>8
      <4> QED BY <3>3, <4>1
    <3>5. y.to = b2 /\ y.type = "REPLY" /\ b2[1] = c
      BY <3>2 DEF Reply
    <3> QED BY <3>3, <3>4, <3>5 DEF GoodMessage
  <2>5. /\ GoodQueues' /\ SleepersGaveUpLock' /\ cond' \in [CVNums -> Conds]
        /\ \A d \in Clients : AsleepAt(d)' = AsleepAt(d) /\ \A k \in CVNums : Single(cond'[k].queue, {d})
    BY <1>7, <1>12, SameTables
  <2>6. CondChange(src, b, mail)
    BY <1>6, <1>7, <1>10, <1>12, <2>1, <2>3, <2>4, <2>5 DEF CondChange
  <2>7. StateOK' /\ GoodMail' /\ GoodQueries' /\ GoodTrackers' /\ Ownership' /\ Retirement'
    BY <2>6, CondStep
  <2>8. ASSUME NEW d \in Clients PROVE OnePlace(d)' /\ OneDoubt(d)'
    <3>1. Handle(src, b, Replies(q)) /\ Single(q, {d}) /\ (Hit(q, {d}) => First(src, b) \in MailOf(d) \/ NetAt(d) = {})
      BY <1>6, <1>12, <2>1, <2>2
    <3>2. /\ \A ch \in Channels : Single(net'[ch], MailOf(d))
          /\ NetAt(d)' = IF Hit(q, {d}) THEN {<<b[1], <<d, 0>>>>}
                         ELSE IF First(src, b) \in MailOf(d) THEN {} ELSE NetAt(d)
          /\ First(src, b) \in MailOf(d) => AskedAt(d) = {} /\ DeferredAt(d) = {} /\ QueuedAt(d) = {} /\ AsleepAt(d) = {}
          /\ OneDoubt(d)'
      BY <1>7, <3>1, AnswersStep
    <3>3. CASE d = c
      <4>1. AsleepAt(d)' = {}
        BY <1>6, <2>5, <3>3 DEF Leaving
      <4>2. \E x : NetAt(d)' \subseteq {x}
        BY <2>2, <3>2, <3>3
      <4>3. OnePlace(d)'
        BY <1>6, <2>5, <3>2, <3>3, <4>1, <4>2, LeftForNet
      <4> QED BY <3>2, <4>3
    <3>4. CASE d # c
      <4>1. NetAt(d)' = NetAt(d)
        BY <1>9, <2>2, <3>2, <3>4
      <4>2. OnePlace(d)'
        BY <1>6, <2>5, <3>2, <3>4, <4>1, LeftOthers
      <4> QED BY <3>2, <4>2
    <3> QED BY <3>3, <3>4
  <2> QED BY <2>5, <2>7, <2>8 DEF Inv
<1>13. CASE /\ ~Mine(s, v) /\ Handle(src, b, Only(Request(<<s, 1>>, op, c, v, l))) /\ cond' = cond /\ down' = down
  <2>1. PICK y : y = Request(<<s, 1>>, op, c, v, l)
    OBVIOUS
  <2>2. y \in Requests /\ y \in Messages /\ y.to = <<s, 1>> /\ y.type = op /\ y.from = c /\ y.obj = v /\ y.arg = l
        /\ <<s, 1>> \in Boxes
    <3>1. <<s, 1>> \in Boxes /\ op \in Ops /\ v \in Numbers /\ l \in Numbers
      BY <1>6, BoxFacts, UseAssumption DEF Ops
    <3>2. l \in Nat
      BY <3>1, NumberFacts
    <3> QED BY <1>8, <2>1, <3>1, <3>2 DEF Request, Requests, Messages
  <2>3. op \in Ops /\ op # "DESTROY_MV" /\ op # "RELEASE" /\ op # "REPLY"
        /\ op \notin {"DOES_CLIENT_HAVE_LOCK", "CV_LOCK_TRACKER_RESPONSE", "DO_YOU_HAVE", "HAVE", "DO_NOT_HAVE"}
    BY <1>6 DEF Ops, UseOps
  <2>4. \A d \in Clients : (y \in MailOf(d) <=> d = c) /\ y \notin DoubtOf(d)
    BY <2>2, <2>3, Concerns
  <2>5. GoodMessage(y, <<s, 1>>)'
    <3>1. Existing(KindOf(op)) = CVNums /\ Args(op) = LockNums
      BY <1>6, OpFacts
    <3>2. call'[c] = [op |-> op, obj |-> v, arg |-> l]
      BY <1>6, <1>7 DEF Asks
    <3>3. GoodRequest(y, <<s, 1>>)'
      BY <1>6, <2>2, <2>3, <3>1, <3>2 DEF GoodRequest, Asks
    <3> QED BY <2>2, <2>3, <3>3 DEF GoodMessage
  <2>6. PICK mail : mail = Only(y)
    OBVIOUS
  <2>7. /\ mail \in Mails
        /\ \A b2 \in Boxes : \A j \in DOMAIN mail[b2] : \A z : z = mail[b2][j] => GoodMessage(z, b2)'
    <3>1. mail \in Mails /\ \A b2 \in Boxes : \A j \in DOMAIN mail[b2] : b2 = y.to /\ mail[b2][j] = y
      BY <2>2, <2>6, OnlyMail
    <3> QED BY <2>2, <2>5, <3>1
  <2>8. /\ GoodQueues' /\ SleepersGaveUpLock' /\ cond' \in [CVNums -> Conds]
        /\ \A d \in Clients : AsleepAt(d)' = AsleepAt(d) /\ \A k \in CVNums : Single(cond'[k].queue, {d})
    BY <1>7, <1>13, SameTables
  <2>9. CondChange(src, b, mail)
    BY <1>6, <1>7, <1>10, <1>13, <2>1, <2>6, <2>7, <2>8 DEF CondChange
  <2>10. StateOK' /\ GoodMail' /\ GoodQueries' /\ GoodTrackers' /\ Ownership' /\ Retirement'
    BY <2>9, CondStep
  <2>11. ASSUME NEW d \in Clients PROVE OnePlace(d)' /\ OneDoubt(d)'
    <3>1. /\ y.to \in Boxes /\ Handle(src, b, Only(y)) /\ y \notin DoubtOf(d)
          /\ y \in MailOf(d) => First(src, b) \in MailOf(d) \/ NetAt(d) = {}
      BY <1>6, <1>13, <2>1, <2>2, <2>4
    <3>2. /\ \A ch \in Channels : Single(net'[ch], MailOf(d))
          /\ NetAt(d)' = IF y \in MailOf(d) THEN {<<b[1], y.to>>}
                         ELSE IF First(src, b) \in MailOf(d) THEN {} ELSE NetAt(d)
          /\ OneDoubt(d)'
      BY <1>7, <2>2, <3>1, OnlyStep
    <3>3. CASE d = c
      <4>1. AsleepAt(d)' = {}
        BY <1>6, <2>8, <3>3 DEF Leaving
      <4>2. \E x : NetAt(d)' \subseteq {x}
        BY <2>4, <3>2, <3>3
      <4>3. OnePlace(d)'
        BY <1>6, <2>8, <3>2, <3>3, <4>1, <4>2, LeftForNet
      <4> QED BY <3>2, <4>3
    <3>4. CASE d # c
      <4>1. NetAt(d)' = NetAt(d)
        BY <1>9, <2>4, <3>2, <3>4
      <4>2. OnePlace(d)'
        BY <1>6, <2>8, <3>2, <3>4, <4>1, LeftOthers
      <4> QED BY <3>2, <4>2
    <3> QED BY <3>3, <3>4
  <2> QED BY <2>8, <2>10, <2>11 DEF Inv
<1>14. CASE /\ Mine(s, v) /\ op = "WAIT" /\ cond' = [cond EXCEPT ![v] = Waited(@, l, c)] /\ down' = down
            /\ Handle(src, b, Only(Request(<<l \div MaxObjects, 0>>, "RELEASE", s, l, 0)))
  <2>1. PICK t : t = l \div MaxObjects
    OBVIOUS
  <2>2. l \in Numbers /\ l \in Nat /\ t \in Servers /\ Mine(t, l)
    <3>1. l \in Numbers
      BY <1>6, UseAssumption
    <3>2. l \div MaxObjects \in Servers /\ l \in Nat
      BY <3>1, NumberFacts
    <3>3. Mine(t, l)
      BY <2>1, Zenon DEF Mine
    <3> QED BY <2>1, <3>1, <3>2, <3>3
  <2>3. PICK y : y = Request(<<t, 0>>, "RELEASE", s, l, 0)
    OBVIOUS
  <2>4. /\ y \in Requests /\ y \in Messages /\ y.to = <<t, 0>> /\ y.type = "RELEASE" /\ y.from = s /\ y.obj = l /\ y.arg = 0
        /\ <<t, 0>> \in Boxes /\ s \notin Clients
    <3>1. <<t, 0>> \in Boxes /\ s \notin Clients /\ s \in Machines /\ "RELEASE" \in Ops
      BY <2>2, BoxFacts DEF Ops, LockOps
    <3> QED BY <2>2, <2>3, <3>1 DEF Request, Requests, Messages
  <2>5. \A d \in Clients : y \notin MailOf(d) /\ y \notin DoubtOf(d)
    BY <2>4, Concerns
  <2>6. GoodMessage(y, <<t, 0>>)'
    <3>1. Existing(KindOf("RELEASE")) = LockNums /\ Args("RELEASE") = {0} /\ "RELEASE" \in Ops
      BY OpFacts DEF LockOps, UseOps, Args, Ops
    <3>2. GoodRequest(y, <<t, 0>>)'
      BY <1>6, <2>2, <2>4, <3>1 DEF GoodRequest
    <3> QED BY <2>2, <2>4, <3>1, <3>2 DEF GoodMessage
  <2>7. PICK mail : mail = Only(y)
    OBVIOUS
  <2>8. /\ mail \in Mails
        /\ \A b2 \in Boxes : \A j \in DOMAIN mail[b2] : \A z : z = mail[b2][j] => GoodMessage(z, b2)'
    <3>1. mail \in Mails /\ \A b2 \in Boxes : \A j \in DOMAIN mail[b2] : b2 = y.to /\ mail[b2][j] = y
      BY <2>4, <2>7, OnlyMail
    <3> QED BY <2>4, <2>6, <3>1
  <2>9. Handle(src, b, Only(y))
    BY <1>14, <2>1, <2>3
  <2>10. Joined(c, v)
    <3>1. PICK D : D = Waited(cond[v], l, c)
      OBVIOUS
    <3>2. cond[v] \in Conds
      BY <1>6, OneCond
    <3>3. D \in Conds /\ (D.queue = cond[v].queue \/ D.queue = Append(cond[v].queue, c))
      BY <1>6, <2>2, <3>1, <3>2, WaitedFacts
    <3>4. cond' = [cond EXCEPT ![v] = D]
      BY <1>14, <3>1
    <3>5. Joins(c, v, D)
      BY <1>6, <1>8, <1>14, <3>3, <3>4 DEF Joins, Leaving
    <3> QED BY <1>6, <3>5, JoinStep
  <2>11. GoodQueues' /\ SleepersGaveUpLock'
    <3>1. \A k \in LockNums : \A i \in DOMAIN lock'[k].queue :
             call[lock'[k].queue[i]].op = "ACQUIRE" /\ call[lock'[k].queue[i]].obj = k
      BY <1>7, OneLock
    <3>2. \A x \in CVNums : \A i \in DOMAIN cond'[x].queue :
             call[cond'[x].queue[i]].op = "WAIT" /\ call[cond'[x].queue[i]].obj = x
      BY <2>10 DEF Joined
    <3>3. \A x \in CVNums : \A d \in Clients : d \in Elements(cond'[x].queue) =>
             \/ d \in Elements(cond[x].queue)
             \/ x \div MaxObjects = call[d].arg \div MaxObjects => lock'[call[d].arg].owner # d
      <4>1. \A x \in CVNums : \A d \in Clients : d \in Elements(cond'[x].queue) =>
               d \in Elements(cond[x].queue) \/ (d = c /\ x = v)
        BY <2>10 DEF Joined
      <4>2. ~(v \div MaxObjects = call[c].arg \div MaxObjects)
        <5>1. call[c].arg = l
          BY <1>8
        <5>2. v \div MaxObjects = s /\ ~(l \div MaxObjects = s)
          BY <1>6, <1>14, Zenon DEF Mine
        <5> QED BY <5>1, <5>2, Zenon
      <4> QED BY <4>1, <4>2, Zenon
    <3>4. \A k \in LockNums : \A d \in Clients : lock'[k].owner = d => lock[k].owner = d \/ call[d].op = "ACQUIRE"
      BY <1>7
    <3> QED BY <1>7, <3>1, <3>2, <3>3, <3>4, SleepersAfter
  <2>12. CondChange(src, b, mail)
    <3>1. cond' \in [CVNums -> Conds]
      BY <2>10 DEF Joined
    <3> QED BY <1>6, <1>7, <1>10, <1>14, <2>7, <2>8, <2>9, <3>1 DEF CondChange
  <2>13. StateOK' /\ GoodMail' /\ GoodQueries' /\ GoodTrackers' /\ Ownership' /\ Retirement'
    BY <2>12, CondStep
  <2>14. ASSUME NEW d \in Clients PROVE OnePlace(d)' /\ OneDoubt(d)'
    <3>1. /\ y.to \in Boxes /\ y \notin DoubtOf(d)
          /\ y \in MailOf(d) => First(src, b) \in MailOf(d) \/ NetAt(d) = {}
      BY <2>4, <2>5
    <3>2. /\ \A ch \in Channels : Single(net'[ch], MailOf(d))
          /\ NetAt(d)' = IF y \in MailOf(d) THEN {<<b[1], y.to>>}
                         ELSE IF First(src, b) \in MailOf(d) THEN {} ELSE NetAt(d)
          /\ OneDoubt(d)'
      BY <1>7, <2>4, <2>9, <3>1, OnlyStep
    <3>3. NetAt(d)' = NetAt(d)
      BY <1>9, <2>5, <3>2
    <3>4. /\ \A k \in CVNums : Single(cond'[k].queue, {d})
          /\ d # c => AsleepAt(d)' = AsleepAt(d)
          /\ d = c => AsleepAt(d)' \subseteq {v}
      BY <2>10 DEF Joined
    <3>5. CASE d = c
      <4>1. NetAt(d)' = {} /\ \E x : AsleepAt(d)' \subseteq {x}
        BY <1>6, <3>3, <3>4, <3>5
      <4>2. OnePlace(d)'
        BY <1>6, <3>2, <3>4, <3>5, <4>1, LeftForCond
      <4> QED BY <3>2, <4>2
    <3>6. CASE d # c
      <4>1. OnePlace(d)'
        BY <1>6, <3>2, <3>3, <3>4, <3>6, LeftOthers
      <4> QED BY <3>2, <4>1
    <3> QED BY <3>5, <3>6
  <2> QED BY <2>11, <2>13, <2>14 DEF Inv
<1>15. CASE op # "WAIT" /\ Wake(s, src, c, op, v, l)
  <2>1. PICK W : W = Woken(cond[v], op, l)
    OBVIOUS
  <2>2. PICK q : q = IF Spins(cond[v], op, l) THEN <<>> ELSE Append(W, c)
    OBVIOUS
  <2>3. /\ cond' = [cond EXCEPT ![v] = AfterWake(@, op, l)]
        /\ down' = IF Spins(cond[v], op, l) THEN down \cup {s} ELSE down
        /\ Handle(src, b, IF Spins(cond[v], op, l) THEN Nothing ELSE Replies(Append(W, c)))
    BY <1>1, <1>15, <2>1 DEF Wake
  <2>4. Woke(v, W)
    BY <1>6, <2>1, <2>3, WakeStep
  <2>5. Handle(src, b, Replies(q))
    BY <2>2, <2>3, RepliesNone
  <2>6. q = Append(W, c) \/ (q = <<>> /\ W = <<>>)
    BY <2>1, <2>2 DEF Spins, Woken
  <2>7. call[c].op \in {"SIGNAL", "BROADCAST"}
    BY <1>6, <1>8, <1>15 DEF UseOps
  <2>8. WakesFor(src, b, c, v, W, q)
    BY <1>6, <1>7, <2>4, <2>5, <2>6, <2>7 DEF WakesFor
  <2>9. /\ Replies(q) \in Mails
        /\ \A b2 \in Boxes : \A j \in DOMAIN Replies(q)[b2] : \A y : y = Replies(q)[b2][j] => GoodMessage(y, b2)'
        /\ GoodQueues' /\ SleepersGaveUpLock'
        /\ \A d \in Clients : OnePlace(d)' /\ OneDoubt(d)'
    BY <1>6, <2>8, WakeRest
  <2>10. CondChange(src, b, Replies(q))
    <3>1. cond' \in [CVNums -> Conds] /\ down' \subseteq Servers
      BY <1>10, <2>3, <2>4 DEF Woke
    <3> QED BY <1>6, <1>7, <2>5, <2>9, <3>1 DEF CondChange
  <2>11. StateOK' /\ GoodMail' /\ GoodQueries' /\ GoodTrackers' /\ Ownership' /\ Retirement'
    BY <2>10, CondStep
  <2> QED BY <2>9, <2>11 DEF Inv
<1> QED BY <1>11, <1>12, <1>13, <1>14, <1>15

-----------------------------------------------------------------------------
(* Requests on their way between servers                                   *)

(* Messages go on and the servers' lists of requests change; the tables and
   the clients do not.                                                      *)
Routes(src, b, mail) ==
    /\ net[<<src, b>>] # <<>> /\ mail \in Mails /\ Handle(src, b, mail)
    /\ \A b2 \in Boxes : \A j \in DOMAIN mail[b2] : \A y : y = mail[b2][j] => GoodMessage(y, b2)'
    /\ UNCHANGED <<tableVars, down, clientVars>>
    /\ nextQueryID' \in [Servers -> Nat] /\ queryQueue' \in [Servers -> Seq(Queries)]
    /\ cvLockTrackerList' \in [Servers -> Seq(Trackers)]
    /\ \A t \in Servers : \A i \in DOMAIN queryQueue'[t] : \A x : x = queryQueue'[t][i].data =>
          x.from \in Clients /\ GoodRequest(x, <<t, 1>>)
    /\ \A t \in Servers : \A i \in DOMAIN cvLockTrackerList'[t] : \A e : e = cvLockTrackerList'[t][i] =>
          Asks(e.client, e.op, e.cvNum, e.lockNum) /\ ~Mine(t, e.lockNum)
    /\ \A t \in Servers : \A d \in Clients : \A l \in LockNums : PutOff(t, d, l) => PutOff(t, d, l)'

(* What stays when a request is put off or asked about.                     *)
LEMMA RouteStep ==
    ASSUME Inv, NEW src \in Machines, NEW b \in Boxes, NEW mail, Routes(src, b, mail)
    PROVE  /\ StateOK' /\ GoodMail' /\ GoodQueries' /\ GoodTrackers' /\ GoodQueues'
           /\ Ownership' /\ Retirement' /\ SleepersGaveUpLock'
<1> USE DEF Routes
<1>1. UNCHANGED <<lock, cond, mv, down, call, calls, holds, retired>>
  BY DEF tableVars, clientVars
<1>2. StateOK'
  <2>1. net' \in [Channels -> Seq(Messages)]
    BY HandleTyped DEF Inv, StateOK
  <2>2. DOMAIN net' = Channels /\ DOMAIN queryQueue' = Servers
    BY <2>1
  <2>3. StateOK /\ TypeOK
    BY DEF Inv, StateOK
  <2>4. TypeOK'
    BY <1>1, <2>2, <2>3 DEF TypeOK
  <2> QED BY <1>1, <2>1, <2>3, <2>4 DEF StateOK
<1>3. GoodMail'
  <2>1. ASSUME NEW ch \in Channels, NEW i \in DOMAIN net[ch], NEW y \in Messages,
               y = net[ch][i], GoodMessage(y, ch[2])
        PROVE  GoodMessage(y, ch[2])'
    <3>1. PICK b2 \in Boxes : b2 = ch[2]
      BY BoxFacts
    <3>2. y.type = "DOES_CLIENT_HAVE_LOCK" =>
              (PutOff(y.from, y.client, y.lockNum) => PutOff(y.from, y.client, y.lockNum)')
      <4> SUFFICES ASSUME y.type = "DOES_CLIENT_HAVE_LOCK", PutOff(y.from, y.client, y.lockNum)
                   PROVE  PutOff(y.from, y.client, y.lockNum)'
        OBVIOUS
      <4>1. PICK t \in Servers, d \in Clients, l \in LockNums : t = y.from /\ d = y.client /\ l = y.lockNum
        BY Types DEF Doubts
      <4>2. PutOff(t, d, l) => PutOff(t, d, l)'
        OBVIOUS
      <4> QED BY <4>1, <4>2
    <3>3. y.type = "CV_LOCK_TRACKER_RESPONSE" =>
              (PutOff(b2[1], y.client, y.lockNum) => PutOff(b2[1], y.client, y.lockNum)')
      <4> SUFFICES ASSUME y.type = "CV_LOCK_TRACKER_RESPONSE", PutOff(b2[1], y.client, y.lockNum)
                   PROVE  PutOff(b2[1], y.client, y.lockNum)'
        OBVIOUS
      <4>1. PICK t \in Servers, d \in Clients, l \in LockNums : t = b2[1] /\ d = y.client /\ l = y.lockNum
        <5>1. y \in Verdicts
          BY Types
        <5>2. b2[1] \in Servers
          BY <2>1, <3>1 DEF GoodMessage
        <5> QED BY <5>1, <5>2 DEF Verdicts
      <4>2. PutOff(t, d, l) => PutOff(t, d, l)'
        OBVIOUS
      <4> QED BY <4>1, <4>2
    <3>4. y.type = "REPLY" /\ b2[1] \in Clients /\ call[b2[1]].op = "ACQUIRE" =>
              (Owns(b2[1], call[b2[1]].obj) => Owns(b2[1], call[b2[1]].obj)')
      BY <1>1 DEF Owns
    <3>5. GoodMessage(y, b2)'
      BY <1>1, <2>1, <3>1, <3>2, <3>3, <3>4, StaysGood
    <3> QED BY <3>1, <3>5
  <2> QED BY <2>1, MailStep
<1>4. GoodQueries'
  <2>1. \A x, b2 : GoodRequest(x, b2)' <=> GoodRequest(x, b2)
    BY <1>1 DEF GoodRequest, Asks
  <2> SUFFICES ASSUME NEW t \in Servers, NEW i \in DOMAIN queryQueue'[t]
               PROVE  /\ queryQueue'[t][i].data.from \in Clients
                      /\ GoodRequest(queryQueue[t][i].data, <<t, 1>>)'
    BY DEF GoodQueries
  <2>2. PICK x : x = queryQueue'[t][i].data
    OBVIOUS
  <2>3. x.from \in Clients /\ GoodRequest(x, <<t, 1>>)
    BY <2>2
  <2>4. GoodRequest(x, <<t, 1>>)'
    BY <2>1, <2>3
  <2> QED BY <2>2, <2>3, <2>4
<1>5. GoodTrackers'
  <2>1. \A e : \A t : (Asks(e.client, e.op, e.cvNum, e.lockNum) /\ ~Mine(t, e.lockNum))'
                      <=> Asks(e.client, e.op, e.cvNum, e.lockNum) /\ ~Mine(t, e.lockNum)
    BY <1>1 DEF Asks
  <2> SUFFICES ASSUME NEW t \in Servers, NEW i \in DOMAIN cvLockTrackerList'[t], NEW e, e = cvLockTrackerList'[t][i]
               PROVE  (Asks(e.client, e.op, e.cvNum, e.lockNum) /\ ~Mine(t, e.lockNum))'
    BY DEF GoodTrackers
  <2> QED BY <2>1
<1>6. Ownership' /\ Retirement'
  BY <1>1 DEF Inv, Ownership, Retirement, Owns
<1>7. GoodQueues' /\ SleepersGaveUpLock'
  BY <1>1, SameTables
<1> QED BY <1>2, <1>3, <1>4, <1>5, <1>6, <1>7

(* The server of a lock is asked.                                           *)
LEMMA AskOwnerInv == ASSUME Inv, NEW s \in Servers, NEW src \in Machines, AskOwner(s, src) PROVE Inv'
<1>1. PICK b \in Boxes : b = <<s, 0>>
  BY BoxFacts
<1>2. PICK m : m = First(src, b)
  OBVIOUS
<1>3. PICK c, k, v, op : c = m.from /\ k = m.arg /\ v = m.obj /\ op = m.type
  OBVIOUS
<1>4. PICK e : e = CVLockTracker(m)
  OBVIOUS
<1>5. PICK t : t = k \div MaxObjects
  OBVIOUS
<1>6. PICK y : y = [to |-> <<t, 0>>, type |-> "DOES_CLIENT_HAVE_LOCK", from |-> s, client |-> c, lockNum |-> k]
  OBVIOUS
<1>7. /\ net[<<src, b>>] # <<>> /\ op \in UseOps /\ ~Mine(s, k)
      /\ cvLockTrackerList' = [cvLockTrackerList EXCEPT ![s] = Append(@, e)]
      /\ Handle(src, b, Only(y))
      /\ UNCHANGED <<tableVars, queryQueue, nextQueryID, down, clientVars>>
  BY <1>1, <1>2, <1>3, <1>4, <1>5, <1>6 DEF AskOwner, At, Arrived, Message
<1>8. c \in Clients /\ m \in MailOf(c) /\ call[c] = [op |-> op, obj |-> v, arg |-> k]
  <2>1. m.type \in Ops \ {"RELEASE", "DESTROY_MV"}
    BY <1>3, <1>7 DEF Ops, UseOps
  <2>2. m.from \in Clients /\ m \in MailOf(m.from) /\ call[m.from] = [op |-> m.type, obj |-> m.obj, arg |-> m.arg]
    BY <1>2, <1>7, <2>1, Asked
  <2> QED BY <1>3, <2>2
<1>9. v \in CVNums /\ k \in LockNums
  <2>1. call[c].op \in UseOps
    BY <1>7, <1>8
  <2>2. StateOK
    BY DEF Inv
  <2> QED BY <1>8, <2>1, <2>2, Called
<1>10. t \in Servers /\ <<t, 0>> \in Boxes
  <2>1. k \in Numbers
    BY <1>9, UseAssumption
  <2> QED BY <1>5, <2>1, NumberFacts, BoxFacts
<1>11. y \in Doubts /\ y \in Messages /\ y.to = <<t, 0>>
  BY <1>6, <1>8, <1>9, <1>10 DEF Doubts, Messages
<1>12. e \in Trackers /\ e.client = c /\ e.lockNum = k /\ e.op = op /\ e.cvNum = v
  BY <1>3, <1>4, <1>7, <1>8, <1>9 DEF CVLockTracker, Trackers
<1>13. PICK Q : Q = cvLockTrackerList[s]
  OBVIOUS
<1>14. cvLockTrackerList \in [Servers -> Seq(Trackers)] /\ Q \in Seq(Trackers)
  BY <1>13 DEF Inv, StateOK, TypeOK
<1>15. PICK R \in Seq(Trackers) : R = Append(Q, e)
  <2>1. Append(Q, e) \in Seq(Trackers)
    BY <1>12, <1>14
  <2> QED BY <2>1
<1>16. /\ DOMAIN Q \subseteq DOMAIN R /\ (\A i \in DOMAIN Q : R[i] = Q[i])
       /\ \A i \in DOMAIN R : i \in DOMAIN Q \/ R[i] = e
       /\ \E i \in DOMAIN R : R[i] = e
  <2>1. /\ Len(Q) \in Nat /\ DOMAIN Q = 1 .. Len(Q) /\ DOMAIN R = 1 .. Len(Q) + 1
        /\ R[Len(Q) + 1] = e /\ \A i \in 1 .. Len(Q) : R[i] = Q[i]
    BY <1>12, <1>14, <1>15
  <2> QED BY <2>1
<1>17. \A x \in Servers : cvLockTrackerList'[x] = IF x = s THEN R ELSE cvLockTrackerList[x]
  BY <1>7, <1>13, <1>14, <1>15
<1>18. cvLockTrackerList' \in [Servers -> Seq(Trackers)]
  BY <1>7, <1>13, <1>14, <1>15
<1>19. PutOff(s, c, k)'
  BY <1>12, <1>16, <1>17 DEF PutOff
<1>20. ASSUME NEW x \in Servers, NEW d \in Clients, NEW l \in LockNums, PutOff(x, d, l) PROVE PutOff(x, d, l)'
  <2>1. PICK i \in DOMAIN cvLockTrackerList[x] :
           cvLockTrackerList[x][i].client = d /\ cvLockTrackerList[x][i].lockNum = l
    BY <1>20 DEF PutOff
  <2>2. i \in DOMAIN cvLockTrackerList'[x] /\ cvLockTrackerList'[x][i] = cvLockTrackerList[x][i]
    BY <1>13, <1>16, <1>17
  <2> QED BY <2>1, <2>2 DEF PutOff
<1>21. ASSUME NEW x \in Servers, NEW i \in DOMAIN cvLockTrackerList'[x], NEW f, f = cvLockTrackerList'[x][i]
       PROVE  Asks(f.client, f.op, f.cvNum, f.lockNum) /\ ~Mine(x, f.lockNum)
  <2>1. CASE i \in DOMAIN cvLockTrackerList[x] /\ f = cvLockTrackerList[x][i]
    BY <2>1 DEF Inv, GoodTrackers
  <2>2. CASE x = s /\ f = e
    BY <1>7, <1>8, <1>12, <2>2 DEF Asks
  <2> QED BY <1>13, <1>16, <1>17, <1>21, <2>1, <2>2
<1>22. PICK mail : mail = Only(y)
  OBVIOUS
<1>23. /\ mail \in Mails
       /\ \A b2 \in Boxes : \A j \in DOMAIN mail[b2] : \A z : z = mail[b2][j] => GoodMessage(z, b2)'
  <2>1. mail \in Mails /\ \A b2 \in Boxes : \A j \in DOMAIN mail[b2] : b2 = y.to /\ mail[b2][j] = y
    BY <1>11, <1>22, OnlyMail
  <2>2. GoodMessage(y, <<t, 0>>)'
    <3>1. y.type = "DOES_CLIENT_HAVE_LOCK" /\ y.from = s /\ y.client = c /\ y.lockNum = k /\ y.to = <<t, 0>>
      BY <1>6
    <3>2. "DOES_CLIENT_HAVE_LOCK" \notin Ops
      BY DEF Ops, LockOps, UseOps, MVOps
    <3> QED BY <1>5, <1>19, <3>1, <3>2 DEF GoodMessage
  <2> QED BY <1>11, <2>1, <2>2
<1>24. Routes(src, b, mail)
  <2>1. queryQueue' \in [Servers -> Seq(Queries)] /\ nextQueryID' \in [Servers -> Nat]
    BY <1>7 DEF Inv, StateOK, TypeOK
  <2>2. \A x \in Servers : \A i \in DOMAIN queryQueue'[x] : \A z : z = queryQueue'[x][i].data =>
           z.from \in Clients /\ GoodRequest(z, <<x, 1>>)
    BY <1>7 DEF Inv, GoodQueries
  <2> QED BY <1>7, <1>18, <1>20, <1>21, <1>22, <1>23, <2>1, <2>2 DEF Routes
<1>25. /\ StateOK' /\ GoodMail' /\ GoodQueries' /\ GoodTrackers' /\ GoodQueues'
       /\ Ownership' /\ Retirement' /\ SleepersGaveUpLock'
  BY <1>24, RouteStep
<1>26. ASSUME NEW d \in Clients PROVE OnePlace(d)' /\ OneDoubt(d)'
  <2>1. OnePlace(d) /\ OnceEach(d)
    BY DEF Inv, OnePlace
  <2>2. m \in MailOf(d) <=> d = c
    BY <1>8, OneOwner
  <2>3. <<src, b>> \in Channels /\ 1 \in DOMAIN net[<<src, b>>] /\ net[<<src, b>>][1] = m
    BY <1>2, <1>7, Handled
  <2>4. d = c => NetAt(d) # {}
    BY <2>2, <2>3 DEF NetAt, Hit
  <2>5. d = c => AskedAt(d) = {} /\ DeferredAt(d) = {} /\ QueuedAt(d) = {} /\ AsleepAt(d) = {}
    BY <2>1, <2>4, Alone
  <2>6. y \notin MailOf(d) /\ (y \in DoubtOf(d) <=> d = c)
    BY <1>6, <1>11, Concerns
  <2>7. /\ \A ch \in Channels : Single(net'[ch], MailOf(d))
        /\ NetAt(d)' = IF y \in MailOf(d) THEN {<<b[1], y.to>>}
                       ELSE IF First(src, b) \in MailOf(d) THEN {} ELSE NetAt(d)
        /\ OneDoubt(d)'
    BY <1>7, <1>10, <1>11, <2>5, <2>6, OnlyStep
  <2>8. PICK T : T = TrackerOf(d)
    OBVIOUS
  <2>9. e \in T <=> d = c
    BY <1>12, <2>8 DEF TrackerOf
  <2>10. \A x \in Servers : x \in DeferredAt(d) <=> Hit(cvLockTrackerList[x], T)
    BY <2>8 DEF DeferredAt
  <2>11. \A x : x \in DeferredAt(d)' <=> x \in Servers /\ Hit(cvLockTrackerList'[x], T)
    BY <2>8 DEF DeferredAt
  <2>12. \A x \in Servers : Single(cvLockTrackerList[x], T)
    BY <2>1, <2>8 DEF OnceEach
  <2>13. /\ Append(Q, e) \in Seq(Trackers)
         /\ Hit(Append(Q, e), T) <=> (Hit(Q, T) \/ e \in T)
         /\ Single(Q, T) /\ ~(Hit(Q, T) /\ e \in T) => Single(Append(Q, e), T)
    BY <1>12, <1>14, AppendKeeps
  <2>14. Single(Q, T) /\ ~(Hit(Q, T) /\ e \in T)
    BY <1>13, <2>5, <2>9, <2>10, <2>12
  <2>15. \A x \in Servers : Single(cvLockTrackerList'[x], T)
    BY <1>15, <1>17, <2>12, <2>13, <2>14
  <2>16. \A x \in Servers : Hit(cvLockTrackerList'[x], T) <=> Hit(cvLockTrackerList[x], T) \/ (x = s /\ d = c)
    BY <1>13, <1>15, <1>17, <2>9, <2>13
  <2>17. AskedAt(d)' = AskedAt(d) /\ QueuedAt(d)' = QueuedAt(d) /\ AsleepAt(d)' = AsleepAt(d) /\ call' = call
    BY <1>7 DEF AskedAt, QueuedAt, AsleepAt, tableVars, clientVars
  <2>18. OnceEach(d)'
    BY <1>7, <2>1, <2>7, <2>8, <2>15 DEF OnceEach, tableVars
  <2>19. CASE d = c
    <3>1. NetAt(d)' = {} /\ AskedAt(d)' = {} /\ QueuedAt(d)' = {} /\ AsleepAt(d)' = {}
      BY <1>2, <2>2, <2>5, <2>6, <2>7, <2>17, <2>19
    <3>2. \E x : DeferredAt(d)' \subseteq {x}
      <4>1. DeferredAt(d)' \subseteq {s}
        BY <2>5, <2>10, <2>11, <2>16, <2>19
      <4> QED BY <4>1
    <3>3. call'[d] # Idle
      <4>1. call[d].op \in UseOps
        BY <1>7, <1>8, <2>19
      <4> QED BY <2>17, <4>1 DEF Idle, UseOps
    <3>4. OnePlace(d)'
      BY <2>18, <3>1, <3>2, <3>3, MovedToTracker
    <3> QED BY <2>7, <3>4
  <2>20. CASE d # c
    <3>1. NetAt(d)' = NetAt(d)
      BY <1>2, <2>2, <2>6, <2>7, <2>20
    <3>2. DeferredAt(d)' = DeferredAt(d)
      <4>1. DeferredAt(d) \subseteq Servers
        BY DEF DeferredAt
      <4> QED BY <2>10, <2>11, <2>16, <2>20, <4>1
    <3>3. OnePlace(d)'
      BY <2>1, <2>17, <2>18, <3>1, <3>2, Stays
    <3> QED BY <2>7, <3>3
  <2> QED BY <2>19, <2>20
<1> QED BY <1>25, <1>26 DEF Inv

(* The other servers are asked.                                             *)
LEMMA QueryInv == ASSUME Inv, NEW s \in Servers, NEW src \in Machines, Query(s, src) PROVE Inv'
<1>1. PICK b \in Boxes : b = <<s, 1>>
  BY BoxFacts
<1>2. PICK m : m = First(src, b)
  OBVIOUS
<1>3. PICK n : n = nextQueryID[s]
  OBVIOUS
<1>4. PICK e : e = [id |-> n, numResponsesReceived |-> 0, data |-> m]
  OBVIOUS
<1>5. PICK kind : kind = KindOf(m.type)
  OBVIOUS
<1>6. PICK mail : mail = [b2 \in Boxes |->
                     IF b2 \in (Servers \ {s}) \X {1}
                     THEN <<[to |-> b2, type |-> "DO_YOU_HAVE", from |-> s, id |-> n, kind |-> kind, obj |-> m.obj]>>
                     ELSE <<>>]
  OBVIOUS
<1>7. /\ net[<<src, b>>] # <<>> /\ m.type \in Ops
      /\ queryQueue' = [queryQueue EXCEPT ![s] = Append(@, e)]
      /\ nextQueryID' = [nextQueryID EXCEPT ![s] = @ + 2]
      /\ Handle(src, b, mail)
      /\ UNCHANGED <<tableVars, cvLockTrackerList, down, clientVars>>
  BY <1>1, <1>2, <1>3, <1>4, <1>5, <1>6 DEF Query, At1, Arrived
<1>8. m \in Requests /\ m \in Messages /\ GoodRequest(m, b) /\ m.obj \in Numbers
  BY <1>2, <1>7, Requested
<1>9. m.from \in Clients
  <2>1. b[2] = 1
    BY <1>1
  <2> QED BY <1>8, <2>1 DEF GoodRequest
<1>10. GoodRequest(m, <<s, 1>>)
  BY <1>1, <1>8
<1>11. nextQueryID \in [Servers -> Nat] /\ queryQueue \in [Servers -> Seq(Queries)] /\ n \in Nat
  BY <1>3 DEF Inv, StateOK, TypeOK
<1>12. e \in Queries
  BY <1>4, <1>8, <1>11 DEF Queries
<1>13. kind \in {"lock", "cv", "mv"}
  BY <1>5 DEF KindOf
<1>14. \A b2 \in Boxes : mail[b2] \in Seq(Questions) /\ DOMAIN mail[b2] \subseteq {1}
                         /\ \A j \in DOMAIN mail[b2] : mail[b2][j].to = b2 /\ b2[1] \in Servers /\ b2[2] = 1
  <2> SUFFICES ASSUME NEW b2 \in Boxes
               PROVE  /\ mail[b2] \in Seq(Questions) /\ DOMAIN mail[b2] \subseteq {1}
                      /\ \A j \in DOMAIN mail[b2] : mail[b2][j].to = b2 /\ b2[1] \in Servers /\ b2[2] = 1
    OBVIOUS
  <2>1. PICK z : z = [to |-> b2, type |-> "DO_YOU_HAVE", from |-> s, id |-> n, kind |-> kind, obj |-> m.obj]
    OBVIOUS
  <2>2. z \in Questions /\ z.to = b2
    BY <1>8, <1>11, <1>13, <2>1 DEF Questions
  <2>3. mail[b2] = IF b2 \in (Servers \ {s}) \X {1} THEN <<z>> ELSE <<>>
    BY <1>6, <2>1
  <2>4. CASE b2 \in (Servers \ {s}) \X {1}
    <3>1. mail[b2] = <<z>> /\ b2[1] \in Servers /\ b2[2] = 1
      BY <2>3, <2>4
    <3>2. <<z>> \in Seq(Questions) /\ DOMAIN <<z>> = {1} /\ <<z>>[1] = z
      BY <2>2
    <3> QED BY <2>2, <3>1, <3>2
  <2>5. CASE b2 \notin (Servers \ {s}) \X {1}
    <3>1. mail[b2] = <<>>
      BY <2>3, <2>5
    <3>2. <<>> \in Seq(Questions) /\ DOMAIN <<>> = {}
      OBVIOUS
    <3> QED BY <3>1, <3>2
  <2> QED BY <2>4, <2>5
<1>15. mail \in Mails
  <2>1. Questions \subseteq Messages
    BY DEF Messages
  <2>2. \A b2 \in Boxes : mail[b2] \in Seq(Messages)
    BY <1>14, <2>1
  <2>3. mail = [b2 \in Boxes |-> mail[b2]]
    BY <1>6
  <2> QED BY <2>2, <2>3 DEF Mails
<1>16. \A b2 \in Boxes : \A j \in DOMAIN mail[b2] : mail[b2][j] \in Questions
  BY <1>14
<1>17. \A d \in Clients : \A b2 \in Boxes :
          /\ ~Hit(mail[b2], MailOf(d)) /\ Single(mail[b2], MailOf(d))
          /\ ~Hit(mail[b2], DoubtOf(d)) /\ Single(mail[b2], DoubtOf(d))
  BY <1>14, <1>16, Concerns DEF Hit, Single
<1>18. ASSUME NEW b2 \in Boxes, NEW j \in DOMAIN mail[b2], NEW y, y = mail[b2][j] PROVE GoodMessage(y, b2)'
  <2>1. y.to = b2 /\ y.type = "DO_YOU_HAVE" /\ b2[1] \in Servers /\ b2[2] = 1
    BY <1>14, <1>16, <1>18 DEF Questions
  <2> QED BY <2>1 DEF GoodMessage, Ops, LockOps, UseOps, MVOps
<1>19. PICK Q : Q = queryQueue[s]
  OBVIOUS
<1>20. PICK R \in Seq(Queries) : R = Append(Q, e)
  <2>1. Q \in Seq(Queries) /\ Append(Q, e) \in Seq(Queries)
    BY <1>11, <1>12, <1>19
  <2> QED BY <2>1
<1>21. Q \in Seq(Queries) /\ \A i \in DOMAIN R : (i \in DOMAIN Q /\ R[i] = Q[i]) \/ R[i] = e
  <2>1. Q \in Seq(Queries)
    BY <1>11, <1>19
  <2>2. /\ Len(Q) \in Nat /\ DOMAIN Q = 1 .. Len(Q) /\ DOMAIN R = 1 .. Len(Q) + 1
        /\ R[Len(Q) + 1] = e /\ \A i \in 1 .. Len(Q) : R[i] = Q[i]
    BY <1>12, <1>20, <2>1
  <2> QED BY <2>1, <2>2
<1>22. /\ queryQueue' \in [Servers -> Seq(Queries)]
       /\ \A x \in Servers : queryQueue'[x] = IF x = s THEN R ELSE queryQueue[x]
  BY <1>7, <1>11, <1>19, <1>20
<1>23. ASSUME NEW x \in Servers, NEW i \in DOMAIN queryQueue'[x], NEW z, z = queryQueue'[x][i].data
       PROVE  z.from \in Clients /\ GoodRequest(z, <<x, 1>>)
  <2>1. CASE i \in DOMAIN queryQueue[x] /\ z = queryQueue[x][i].data
    BY <2>1 DEF Inv, GoodQueries
  <2>2. CASE x = s /\ z = m
    BY <1>9, <1>10, <2>2
  <2> QED BY <1>4, <1>19, <1>21, <1>22, <1>23, <2>1, <2>2
<1>24. Routes(src, b, mail)
  <2>1. nextQueryID' \in [Servers -> Nat]
    BY <1>7, <1>11
  <2>2. cvLockTrackerList' \in [Servers -> Seq(Trackers)]
    BY <1>7 DEF Inv, StateOK, TypeOK
  <2>3. \A t \in Servers : \A i \in DOMAIN cvLockTrackerList'[t] : \A f : f = cvLockTrackerList'[t][i] =>
           Asks(f.client, f.op, f.cvNum, f.lockNum) /\ ~Mine(t, f.lockNum)
    BY <1>7 DEF Inv, GoodTrackers
  <2>4. \A t \in Servers : \A d \in Clients : \A l \in LockNums : PutOff(t, d, l) => PutOff(t, d, l)'
    BY <1>7 DEF PutOff
  <2> QED BY <1>7, <1>15, <1>18, <1>22, <1>23, <2>1, <2>2, <2>3, <2>4 DEF Routes
<1>25. /\ StateOK' /\ GoodMail' /\ GoodQueries' /\ GoodTrackers' /\ GoodQueues'
       /\ Ownership' /\ Retirement' /\ SleepersGaveUpLock'
  BY <1>24, RouteStep
<1>26. ASSUME NEW d \in Clients PROVE OnePlace(d)' /\ OneDoubt(d)'
  <2>1. OnePlace(d) /\ OnceEach(d)
    BY DEF Inv, OnePlace
  <2>2. /\ \A b2 \in Boxes : Single(mail[b2], MailOf(d)) /\ (Hit(mail[b2], MailOf(d)) => b2 = b)
        /\ Hit(mail[b], MailOf(d)) => First(src, b) \in MailOf(d) \/ NetAt(d) = {}
        /\ ~Hit(mail[b], MailOf(d))
    BY <1>17
  <2>3. /\ \A ch \in Channels : Single(net'[ch], MailOf(d))
        /\ NetAt(d)' = IF Hit(mail[b], MailOf(d)) THEN {<<b[1], b>>}
                       ELSE IF First(src, b) \in MailOf(d) THEN {} ELSE NetAt(d)
        /\ First(src, b) \in MailOf(d) => /\ <<src, b>> \in NetAt(d) /\ NetAt(d) = {<<src, b>>}
                                          /\ AskedAt(d) = {} /\ DeferredAt(d) = {} /\ QueuedAt(d) = {} /\ AsleepAt(d) = {}
    BY <1>7, <1>15, <2>2, NetStep
  <2>4. OneDoubt(d)'
    <3>1. /\ \A b2 \in Boxes : Single(mail[b2], DoubtOf(d)) /\ (Hit(mail[b2], DoubtOf(d)) => b2 = b)
          /\ Hit(mail[b], DoubtOf(d)) => \/ First(src, b) \in DoubtOf(d)
                                         \/ \A ch \in Channels : ~Hit(net[ch], DoubtOf(d))
      BY <1>17
    <3> QED BY <1>7, <1>15, <3>1, DoubtStep
  <2>5. PICK T : T = QueryOf(d)
    OBVIOUS
  <2>6. e \in T <=> m \in MailOf(d)
    BY <1>4, <1>8, <1>12, <2>5 DEF QueryOf, MailOf
  <2>7. \A x : x \in AskedAt(d) <=> x \in Servers /\ Hit(queryQueue[x], T)
    BY <2>5 DEF AskedAt
  <2>8. \A x : x \in AskedAt(d)' <=> x \in Servers /\ Hit(queryQueue'[x], T)
    BY <2>5 DEF AskedAt
  <2>9. \A x \in Servers : Single(queryQueue[x], T)
    BY <2>1, <2>5 DEF OnceEach
  <2>10. /\ Append(Q, e) \in Seq(Queries)
         /\ Hit(Append(Q, e), T) <=> (Hit(Q, T) \/ e \in T)
         /\ Single(Q, T) /\ ~(Hit(Q, T) /\ e \in T) => Single(Append(Q, e), T)
    BY <1>12, <1>21, AppendKeeps
  <2>11. Single(Q, T) /\ ~(Hit(Q, T) /\ e \in T)
    BY <1>2, <1>19, <2>3, <2>6, <2>7, <2>9
  <2>12. \A x \in Servers : Single(queryQueue'[x], T)
    BY <1>20, <1>22, <2>9, <2>10, <2>11
  <2>13. \A x \in Servers : Hit(queryQueue'[x], T) <=> Hit(queryQueue[x], T) \/ (x = s /\ m \in MailOf(d))
    BY <1>19, <1>20, <1>22, <2>6, <2>10
  <2>14. /\ DeferredAt(d)' = DeferredAt(d) /\ QueuedAt(d)' = QueuedAt(d) /\ AsleepAt(d)' = AsleepAt(d)
         /\ call' = call
    BY <1>7 DEF DeferredAt, QueuedAt, AsleepAt, tableVars, clientVars
  <2>15. OnceEach(d)'
    BY <1>7, <2>1, <2>3, <2>5, <2>12 DEF OnceEach, tableVars
  <2>16. CASE m \in MailOf(d)
    <3>1. NetAt(d)' = {} /\ DeferredAt(d)' = {} /\ QueuedAt(d)' = {} /\ AsleepAt(d)' = {}
      BY <1>2, <2>2, <2>3, <2>14, <2>16
    <3>2. \E x : AskedAt(d)' \subseteq {x}
      <4>1. AskedAt(d)' \subseteq {s}
        BY <1>2, <2>3, <2>7, <2>8, <2>13, <2>16
      <4> QED BY <4>1
    <3>3. call'[d] # Idle
      BY <1>2, <2>1, <2>3, <2>14, <2>16, Alone
    <3>4. OnePlace(d)'
      BY <2>15, <3>1, <3>2, <3>3, MovedToQuery
    <3> QED BY <2>4, <3>4
  <2>17. CASE m \notin MailOf(d)
    <3>1. NetAt(d)' = NetAt(d)
      BY <1>2, <2>2, <2>3, <2>17
    <3>2. AskedAt(d)' = AskedAt(d)
      BY <2>7, <2>8, <2>13, <2>17
    <3>3. OnePlace(d)'
      BY <2>1, <2>14, <2>15, <3>1, <3>2, Stays
    <3> QED BY <2>4, <3>3
  <2> QED BY <2>16, <2>17
<1> QED BY <1>25, <1>26 DEF Inv

(* The request goes to the server that has the object.                      *)
LEMMA FoundInv == ASSUME Inv, NEW s \in Servers, NEW src \in Machines, Found(s, src) PROVE Inv'
<1>1. PICK b \in Boxes : b = <<s, 1>>
  BY BoxFacts
<1>2. PICK m : m = First(src, b)
  OBVIOUS
<1>3. PICK Q, S : Q = queryQueue[s] /\ S = QueryAt(s, m.id)
  OBVIOUS
<1>4. PICK i : i = Lowest(S)
  OBVIOUS
<1>5. /\ net[<<src, b>>] # <<>> /\ m.type = "HAVE"
      /\ queryQueue' = [queryQueue EXCEPT ![s] = IF S = {} THEN @ ELSE Without(@, i)]
      /\ Handle(src, b, IF S = {} THEN Nothing ELSE Only([Q[i].data EXCEPT !.to = <<m.from, 0>>]))
      /\ UNCHANGED <<tableVars, nextQueryID, cvLockTrackerList, down, clientVars>>
  BY <1>1, <1>2, <1>3, <1>4 DEF Found, At1, Arrived
<1>6. /\ queryQueue \in [Servers -> Seq(Queries)] /\ Q \in Seq(Queries)
      /\ DOMAIN Q = 1 .. Len(Q) /\ Len(Q) \in Nat
  BY <1>3 DEF Inv, StateOK
<1>7. m \in Findings /\ m.from \in Servers /\ \A d \in Clients : m \notin MailOf(d) /\ m \notin DoubtOf(d)
  <2>1. m \in Findings
    BY <1>2, <1>5, Handled, Types
  <2> QED BY <2>1, Concerns DEF Findings
<1>8. CASE S = {}
  <2>1. queryQueue' = queryQueue
    BY <1>5, <1>6, <1>8
  <2>2. LittleChanges
    BY <1>5, <2>1, NoChanges DEF serverVars
  <2>3. Handle(src, b, Nothing)
    BY <1>5, <1>8
  <2> QED BY <1>5, <2>2, <2>3, PlainNothing
<1>9. CASE S # {}
  <2>1. i \in 1 .. Len(Q)
    <3>1. S \in SUBSET Nat /\ S \subseteq 1 .. Len(Q)
      BY <1>3, <1>6 DEF QueryAt
    <3>2. Lowest(S) \in S
      BY <1>9, <3>1, LowestIn
    <3> QED BY <1>4, <3>1, <3>2
  <2>2. PICK e, x : e = Q[i] /\ x = e.data
    OBVIOUS
  <2>3. e \in Queries /\ x \in Requests /\ x.from \in Clients /\ GoodRequest(x, <<s, 1>>)
    <3>1. e \in Queries
      BY <1>6, <2>1, <2>2
    <3>2. x.from \in Clients /\ GoodRequest(x, <<s, 1>>)
      BY <1>3, <1>6, <2>1, <2>2 DEF Inv, GoodQueries
    <3> QED BY <2>2, <3>1, <3>2 DEF Queries
  <2>4. PICK f \in Servers : f = m.from
    BY <1>7
  <2>5. PICK y : y = [x EXCEPT !.to = <<f, 0>>]
    OBVIOUS
  <2>6. /\ y \in Requests /\ y \in Messages /\ y.to = <<f, 0>> /\ <<f, 0>> \in Boxes /\ y.type = x.type
        /\ y.from = x.from /\ y.obj = x.obj /\ y.arg = x.arg /\ x.type \in Ops
    BY <2>3, <2>4, <2>5, BoxFacts DEF Requests, Messages
  <2>7. Handle(src, b, Only(y)) /\ queryQueue' = [queryQueue EXCEPT ![s] = Without(@, i)]
    BY <1>5, <1>9, <2>2, <2>4, <2>5
  <2>8. PICK R : R = Without(Q, i)
    OBVIOUS
  <2>9. /\ R \in Seq(Queries) /\ DOMAIN R = 1 .. Len(Q) - 1
        /\ \A j \in 1 .. Len(Q) - 1 : R[j] = IF j < i THEN Q[j] ELSE Q[j + 1]
    <3>1. PICK T : T = {}
      OBVIOUS
    <3>2. Single(Q, T)
      BY <3>1 DEF Single
    <3>3. /\ Without(Q, i) \in Seq(Queries)
          /\ Len(Without(Q, i)) = Len(Q) - 1
          /\ \A j \in 1 .. Len(Q) - 1 : Without(Q, i)[j] = IF j < i THEN Q[j] ELSE Q[j + 1]
          /\ Single(Without(Q, i), T)
          /\ Hit(Without(Q, i), T) <=> (Hit(Q, T) /\ Q[i] \notin T)
      BY <1>6, <2>1, <3>2, WithoutKeeps
    <3> QED BY <2>8, <3>3
  <2>10. \A j \in DOMAIN R : \E h \in DOMAIN Q : R[j] = Q[h]
    <3> SUFFICES ASSUME NEW j \in DOMAIN R PROVE \E h \in DOMAIN Q : R[j] = Q[h]
      OBVIOUS
    <3>1. PICK N \in Nat : N = Len(Q) /\ j \in 1 .. N - 1
      BY <1>6, <2>9
    <3>2. CASE j < i
      BY <1>6, <2>9, <3>1, <3>2
    <3>3. CASE ~(j < i)
      <4>1. j + 1 \in DOMAIN Q
        BY <1>6, <3>1
      <4> QED BY <2>9, <3>3, <4>1
    <3> QED BY <3>2, <3>3
  <2>11. /\ queryQueue' \in [Servers -> Seq(Queries)]
         /\ \A t \in Servers : queryQueue'[t] = IF t = s THEN R ELSE queryQueue[t]
    BY <1>3, <1>6, <2>7, <2>8, <2>9
  <2>12. ASSUME NEW t \in Servers, NEW j \in DOMAIN queryQueue'[t], NEW z, z = queryQueue'[t][j].data
         PROVE  z.from \in Clients /\ GoodRequest(z, <<t, 1>>)
    <3>1. PICK h \in DOMAIN queryQueue[t] : z = queryQueue[t][h].data
      BY <1>3, <2>10, <2>11, <2>12
    <3> QED BY <3>1 DEF Inv, GoodQueries
  <2>13. PICK mail : mail = Only(y)
    OBVIOUS
  <2>14. /\ mail \in Mails
         /\ \A b2 \in Boxes : \A j \in DOMAIN mail[b2] : \A z : z = mail[b2][j] => GoodMessage(z, b2)'
    <3>1. mail \in Mails /\ \A b2 \in Boxes : \A j \in DOMAIN mail[b2] : b2 = y.to /\ mail[b2][j] = y
      BY <2>6, <2>13, OnlyMail
    <3>2. GoodRequest(y, <<f, 0>>)'
      BY <1>5, <2>3, <2>6 DEF GoodRequest, Asks, clientVars
    <3>3. GoodMessage(y, <<f, 0>>)'
      BY <2>4, <2>6, <3>2 DEF GoodMessage, Ops, LockOps, UseOps, MVOps
    <3> QED BY <2>6, <3>1, <3>3
  <2>15. Routes(src, b, mail)
    <3>1. nextQueryID' \in [Servers -> Nat] /\ cvLockTrackerList' \in [Servers -> Seq(Trackers)]
      BY <1>5 DEF Inv, StateOK, TypeOK
    <3>2. \A t \in Servers : \A j \in DOMAIN cvLockTrackerList'[t] : \A g : g = cvLockTrackerList'[t][j] =>
             Asks(g.client, g.op, g.cvNum, g.lockNum) /\ ~Mine(t, g.lockNum)
      BY <1>5 DEF Inv, GoodTrackers
    <3>3. \A t \in Servers : \A d \in Clients : \A l \in LockNums : PutOff(t, d, l) => PutOff(t, d, l)'
      BY <1>5 DEF PutOff
    <3> QED BY <1>5, <2>7, <2>11, <2>12, <2>13, <2>14, <3>1, <3>2, <3>3 DEF Routes
  <2>16. /\ StateOK' /\ GoodMail' /\ GoodQueries' /\ GoodTrackers' /\ GoodQueues'
         /\ Ownership' /\ Retirement' /\ SleepersGaveUpLock'
    BY <2>15, RouteStep
  <2>17. ASSUME NEW d \in Clients PROVE OnePlace(d)' /\ OneDoubt(d)'
    <3>1. OnePlace(d) /\ OnceEach(d)
      BY DEF Inv, OnePlace
    <3>2. PICK T : T = QueryOf(d)
      OBVIOUS
    <3>3. (e \in T <=> y \in MailOf(d)) /\ y \notin DoubtOf(d)
      <4>1. y \notin DoubtOf(d) /\ (y \in MailOf(d) <=> y.type # "DESTROY_MV" /\ y.from = d)
        BY <2>6, Concerns
      <4>2. e \in T <=> IsAbout(x, d)
        BY <2>2, <2>3, <3>2 DEF QueryOf
      <4>3. IsAbout(x, d) <=> x.type # "DESTROY_MV" /\ x.from = d
        BY <2>6 DEF IsAbout, Ops, LockOps, UseOps, MVOps
      <4> QED BY <2>6, <4>1, <4>2, <4>3
    <3>4. \A t : t \in AskedAt(d) <=> t \in Servers /\ Hit(queryQueue[t], T)
      BY <3>2 DEF AskedAt
    <3>5. \A t : t \in AskedAt(d)' <=> t \in Servers /\ Hit(queryQueue'[t], T)
      BY <3>2 DEF AskedAt
    <3>6. \A t \in Servers : Single(queryQueue[t], T)
      BY <3>1, <3>2 DEF OnceEach
    <3>7. e \in T => s \in AskedAt(d)
      <4>1. e \in T => Hit(Q, T)
        BY <1>6, <2>1, <2>2 DEF Hit
      <4> QED BY <1>3, <3>4, <4>1
    <3>8. e \in T => NetAt(d) = {} /\ AskedAt(d) = {s} /\ DeferredAt(d) = {} /\ QueuedAt(d) = {} /\ AsleepAt(d) = {}
      BY <3>1, <3>7, Alone
    <3>9. /\ \A ch \in Channels : Single(net'[ch], MailOf(d))
          /\ NetAt(d)' = IF y \in MailOf(d) THEN {<<b[1], y.to>>}
                         ELSE IF First(src, b) \in MailOf(d) THEN {} ELSE NetAt(d)
          /\ OneDoubt(d)'
      BY <1>5, <2>6, <2>7, <3>3, <3>8, OnlyStep
    <3>10. Single(Q, T)
      BY <1>3, <3>6
    <3>11. /\ Without(Q, i) \in Seq(Queries)
           /\ Len(Without(Q, i)) = Len(Q) - 1
           /\ \A j \in 1 .. Len(Q) - 1 : Without(Q, i)[j] = IF j < i THEN Q[j] ELSE Q[j + 1]
           /\ Single(Without(Q, i), T)
           /\ Hit(Without(Q, i), T) <=> (Hit(Q, T) /\ Q[i] \notin T)
      BY <1>6, <2>1, <3>10, WithoutKeeps
    <3>12. \A t \in Servers : Single(queryQueue'[t], T)
      BY <2>8, <2>11, <3>6, <3>11
    <3>13. \A t \in Servers : Hit(queryQueue'[t], T) <=> Hit(queryQueue[t], T) /\ ~(t = s /\ e \in T)
      BY <1>3, <2>2, <2>8, <2>11, <3>11
    <3>14. /\ DeferredAt(d)' = DeferredAt(d) /\ QueuedAt(d)' = QueuedAt(d) /\ AsleepAt(d)' = AsleepAt(d)
           /\ call' = call
      BY <1>5 DEF DeferredAt, QueuedAt, AsleepAt, tableVars, clientVars
    <3>15. OnceEach(d)'
      BY <1>5, <3>1, <3>2, <3>9, <3>12 DEF OnceEach, tableVars
    <3>16. CASE e \in T
      <4>1. AskedAt(d)' = {} /\ DeferredAt(d)' = {} /\ QueuedAt(d)' = {} /\ AsleepAt(d)' = {}
        BY <3>4, <3>5, <3>8, <3>13, <3>14, <3>16
      <4>2. \E z : NetAt(d)' \subseteq {z}
        BY <3>3, <3>9, <3>16
      <4>3. call'[d] # Idle
        BY <3>1, <3>7, <3>14, <3>16, Alone
      <4>4. OnePlace(d)'
        BY <3>15, <4>1, <4>2, <4>3, MovedToNet
      <4> QED BY <3>9, <4>4
    <3>17. CASE e \notin T
      <4>1. NetAt(d)' = NetAt(d)
        BY <1>2, <1>7, <3>3, <3>9, <3>17
      <4>2. AskedAt(d)' = AskedAt(d)
        BY <3>4, <3>5, <3>13, <3>17
      <4>3. OnePlace(d)'
        BY <3>1, <3>14, <3>15, <4>1, <4>2, Stays
      <4> QED BY <3>9, <4>3
    <3> QED BY <3>16, <3>17
  <2> QED BY <2>16, <2>17 DEF Inv
<1> QED BY <1>8, <1>9

-----------------------------------------------------------------------------
(* The clients' own steps                                                  *)

(* Client c, of which nothing is left outside the mail, waits for r now.    *)
Turns(c, r) ==
    /\ c \in Clients /\ r \in {Idle} \cup Contents /\ r.op # "DESTROY_MV"
    /\ call' = [call EXCEPT ![c] = r] /\ UNCHANGED <<tableVars, serverVars>>
    /\ AskedAt(c) = {} /\ DeferredAt(c) = {} /\ QueuedAt(c) = {} /\ AsleepAt(c) = {}
    /\ net' \in [Channels -> Seq(Messages)]
    /\ calls' \in [Clients -> Nat] /\ holds' \in [Clients -> SUBSET LockNums]

Unharmed(c) == \A y \in Messages : \A b2 \in Boxes : y \notin MailOf(c) /\ GoodMessage(y, b2) => GoodMessage(y, b2)'

(* What stays when a client's call changes.                                 *)
LEMMA TurnStep ==
    ASSUME Inv, NEW c, NEW r, Turns(c, r)
    PROVE  /\ StateOK' /\ GoodQueries' /\ GoodTrackers' /\ GoodQueues' /\ SleepersGaveUpLock'
           /\ call'[c] = r /\ \A d \in Clients : d # c => call'[d] = call[d]
           /\ \A d \in Clients : /\ AskedAt(d)' = AskedAt(d) /\ DeferredAt(d)' = DeferredAt(d)
                                 /\ QueuedAt(d)' = QueuedAt(d) /\ AsleepAt(d)' = AsleepAt(d)
                                 /\ OnceEach(d)' <=> \A ch \in Channels : Single(net'[ch], MailOf(d))
           /\ Unharmed(c)
<1> USE DEF Turns
<1>1. /\ UNCHANGED <<lock, cond, mv, queryQueue, nextQueryID, cvLockTrackerList, down>>
      /\ c \in Clients /\ call' = [call EXCEPT ![c] = r]
  BY DEF tableVars, serverVars
<1>2. StateOK /\ TypeOK /\ call \in [Clients -> {Idle} \cup Contents]
  BY DEF Inv, StateOK
<1>3. call'[c] = r /\ \A d \in Clients : d # c => call'[d] = call[d]
  BY <1>1, <1>2
<1>4. StateOK'
  <2>1. TypeOK'
    BY <1>1, <1>2 DEF TypeOK
  <2>2. call' \in [Clients -> {Idle} \cup Contents]
    BY <1>1, <1>2
  <2>3. \A d \in Clients : call'[d].op # "DESTROY_MV"
    BY <1>2, <1>3 DEF StateOK
  <2> QED BY <1>1, <1>2, <2>1, <2>2, <2>3 DEF StateOK
<1>5. \A x, b2 : /\ GoodRequest(x, b2) /\ (x.from = c => x.type = "DESTROY_MV")
                 => GoodRequest(x, b2)'
  BY <1>3 DEF GoodRequest, Asks
<1>6. GoodQueries'
  <2> SUFFICES ASSUME NEW t \in Servers, NEW i \in DOMAIN queryQueue[t], NEW x, x = queryQueue[t][i].data
               PROVE  x.from \in Clients /\ GoodRequest(x, <<t, 1>>)'
    BY <1>1 DEF GoodQueries
  <2>1. PICK e : e = queryQueue[t][i]
    OBVIOUS
  <2>2. e \in Queries /\ x \in Requests
    <3>1. queryQueue[t] \in Seq(Queries)
      BY <1>2 DEF StateOK
    <3>2. e \in Queries
      BY <2>1, <3>1
    <3> QED BY <2>1, <3>2 DEF Queries
  <2>3. x.from \in Clients /\ GoodRequest(x, <<t, 1>>)
    BY DEF Inv, GoodQueries
  <2>4. x.from = c => x.type = "DESTROY_MV"
    <3> SUFFICES ASSUME x.from = c, x.type # "DESTROY_MV" PROVE FALSE
      OBVIOUS
    <3>1. IsAbout(x, c)
      BY <2>2 DEF IsAbout, Requests
    <3>2. e \in QueryOf(c)
      BY <2>1, <2>2, <3>1 DEF QueryOf
    <3>3. t \in AskedAt(c)
      BY <2>1, <3>2 DEF AskedAt, Hit
    <3> QED BY <3>3
  <2> QED BY <1>5, <2>3, <2>4
<1>7. GoodTrackers'
  <2> SUFFICES ASSUME NEW t \in Servers, NEW i \in DOMAIN cvLockTrackerList[t], NEW e, e = cvLockTrackerList[t][i]
               PROVE  Asks(e.client, e.op, e.cvNum, e.lockNum)' /\ ~Mine(t, e.lockNum)
    BY <1>1 DEF GoodTrackers
  <2>1. e \in Trackers /\ e.client \in Clients
    <3>1. cvLockTrackerList[t] \in Seq(Trackers)
      BY <1>2 DEF TypeOK
    <3>2. e \in Trackers
      BY <3>1
    <3> QED BY <3>2 DEF Trackers
  <2>2. Asks(e.client, e.op, e.cvNum, e.lockNum) /\ ~Mine(t, e.lockNum)
    BY DEF Inv, GoodTrackers
  <2>3. e.client # c
    <3> SUFFICES ASSUME e.client = c PROVE FALSE
      OBVIOUS
    <3>1. e \in TrackerOf(c)
      BY <2>1 DEF TrackerOf
    <3>2. t \in DeferredAt(c)
      BY <3>1 DEF DeferredAt, Hit
    <3> QED BY <3>2
  <2>4. call'[e.client] = call[e.client]
    BY <1>3, <2>1, <2>3
  <2> QED BY <2>2, <2>4 DEF Asks
<1>8. \A l \in LockNums : \A i \in DOMAIN lock[l].queue : lock[l].queue[i] \in Clients /\ lock[l].queue[i] # c
  <2>1. \A l \in LockNums : \A i \in DOMAIN lock[l].queue : lock[l].queue[i] \in Clients
    BY OneLock
  <2>2. \A l \in LockNums : ~Hit(lock[l].queue, {c})
    BY DEF QueuedAt
  <2> QED BY <2>1, <2>2 DEF Hit
<1>9. \A k \in CVNums : \A i \in DOMAIN cond[k].queue : cond[k].queue[i] \in Clients /\ cond[k].queue[i] # c
  <2>1. \A k \in CVNums : \A i \in DOMAIN cond[k].queue : cond[k].queue[i] \in Clients
    BY OneCond
  <2>2. \A k \in CVNums : ~Hit(cond[k].queue, {c})
    BY DEF AsleepAt
  <2> QED BY <2>1, <2>2 DEF Hit
<1>10. GoodQueues'
  <2>1. GoodQueues
    BY DEF Inv
  <2>2. \A l \in LockNums : \A i \in DOMAIN lock[l].queue :
           call'[lock[l].queue[i]].op = "ACQUIRE" /\ call'[lock[l].queue[i]].obj = l
    BY <1>3, <1>8, <2>1 DEF GoodQueues
  <2>3. \A k \in CVNums : \A i \in DOMAIN cond[k].queue :
           call'[cond[k].queue[i]].op = "WAIT" /\ call'[cond[k].queue[i]].obj = k
    BY <1>3, <1>9, <2>1 DEF GoodQueues
  <2> QED BY <1>1, <2>2, <2>3 DEF GoodQueues
<1>11. SleepersGaveUpLock'
  <2> SUFFICES ASSUME NEW d \in Clients, NEW k \in CVNums,
                      d \in Elements(cond[k].queue), k \div MaxObjects = call'[d].arg \div MaxObjects
               PROVE  lock[call'[d].arg].owner # d
    BY <1>1, Zenon DEF SleepersGaveUpLock, Elements
  <2>1. d # c
    <3>1. cond[k].queue \in Seq(Clients)
      BY OneCond
    <3>2. PICK i \in DOMAIN cond[k].queue : cond[k].queue[i] = d
      BY <3>1 DEF Elements
    <3> QED BY <1>9, <3>2
  <2>2. call'[d] = call[d]
    BY <1>3, <2>1
  <2>3. SleepersGaveUpLock
    BY DEF Inv
  <2> QED BY <2>2, <2>3, Zenon DEF SleepersGaveUpLock
<1>12. ASSUME NEW d \in Clients
       PROVE  /\ AskedAt(d)' = AskedAt(d) /\ DeferredAt(d)' = DeferredAt(d)
              /\ QueuedAt(d)' = QueuedAt(d) /\ AsleepAt(d)' = AsleepAt(d)
              /\ OnceEach(d)' <=> \A ch \in Channels : Single(net'[ch], MailOf(d))
  <2>1. OnceEach(d)
    BY DEF Inv, OnePlace
  <2> QED BY <1>1, <2>1 DEF AskedAt, DeferredAt, QueuedAt, AsleepAt, OnceEach
<1>13. ASSUME NEW y \in Messages, NEW b2 \in Boxes, y \notin MailOf(c), GoodMessage(y, b2) PROVE GoodMessage(y, b2)'
  <2>1. y.type \in Ops => GoodRequest(y, b2)'
    <3> SUFFICES ASSUME y.type \in Ops PROVE GoodRequest(y, b2)'
      OBVIOUS
    <3>1. y \in Requests /\ GoodRequest(y, b2)
      BY <1>13, Types DEF GoodMessage
    <3>2. y.from = c => y.type = "DESTROY_MV"
      BY <1>1, <1>13, <3>1, Concerns
    <3> QED BY <1>5, <3>1, <3>2
  <2>2. y.type = "REPLY" /\ b2[1] \in Clients => b2[1] # c
    <3> SUFFICES ASSUME y.type = "REPLY", b2[1] = c PROVE FALSE
      OBVIOUS
    <3>1. y \in Answers /\ y.to = b2
      BY <1>13, Types DEF GoodMessage
    <3>2. b2 = <<c, 0>>
      BY <1>1, BoxFacts
    <3> QED BY <1>1, <1>13, <3>1, <3>2, Concerns
  <2>3. y.type = "REPLY" /\ b2[1] \in Clients /\ call'[b2[1]].op = "ACQUIRE" => Owns(b2[1], call[b2[1]].obj)'
    BY <1>1, <1>3, <1>13, <2>2 DEF GoodMessage, Owns
  <2>4. \A x, d, l : PutOff(x, d, l)' <=> PutOff(x, d, l)
    BY <1>1 DEF PutOff
  <2> QED BY <1>13, <2>1, <2>3, <2>4 DEF GoodMessage
<1> QED BY <1>3, <1>4, <1>6, <1>7, <1>10, <1>11, <1>12, <1>13 DEF Unharmed

(* Any answer ends the call.                                                *)
LEMMA ReturnInv == ASSUME Inv, NEW c \in Clients, NEW src \in Servers, Return(c, src) PROVE Inv'
<1>1. PICK b \in Boxes : b = <<c, 0>>
  BY BoxFacts
<1>2. PICK m : m = First(src, b)
  OBVIOUS
<1>3. src \in Machines /\ c \in Machines
  BY BoxFacts
<1>4. /\ net[<<src, b>>] # <<>> /\ m.type = "REPLY" /\ call[c] # Idle /\ call[c].op # "WAIT"
      /\ call' = [call EXCEPT ![c] = Idle]
      /\ holds' = [holds EXCEPT ![c] = IF call[c].op = "ACQUIRE" THEN @ \cup {call[c].obj} ELSE @]
      /\ Handle(src, b, Nothing)
      /\ UNCHANGED <<tableVars, serverVars, calls, retired>>
  BY <1>1, <1>2 DEF Return, Arrived
<1>5. m \in Answers /\ GoodMessage(m, b) /\ m \in MailOf(c)
  <2>1. m \in Messages /\ GoodMessage(m, b)
    BY <1>2, <1>3, <1>4, Handled
  <2>2. m \in Answers
    BY <1>4, <2>1, Types
  <2>3. m.to = <<c, 0>>
    BY <1>1, <2>1 DEF GoodMessage
  <2> QED BY <2>1, <2>2, <2>3, Concerns
<1>6. Replies(<<>>) = Nothing /\ <<>> \in Seq(Machines) /\ \A T : ~Hit(<<>>, T) /\ Single(<<>>, T)
  BY RepliesNone DEF Hit, Single
<1>7. ASSUME NEW d \in Clients
      PROVE  /\ \A ch \in Channels : Single(net'[ch], MailOf(d))
             /\ NetAt(d)' = IF d = c THEN {} ELSE NetAt(d)
             /\ OneDoubt(d)'
  <2>1. PICK q \in Seq(Machines) : q = <<>>
    BY <1>6
  <2>2. ~Hit(q, {d}) /\ Single(q, {d}) /\ Handle(src, b, Replies(q))
    BY <1>4, <1>6, <2>1
  <2>3. /\ \A ch \in Channels : Single(net'[ch], MailOf(d))
        /\ NetAt(d)' = IF Hit(q, {d}) THEN {<<b[1], <<d, 0>>>>}
                       ELSE IF First(src, b) \in MailOf(d) THEN {} ELSE NetAt(d)
        /\ First(src, b) \in MailOf(d) => AskedAt(d) = {} /\ DeferredAt(d) = {} /\ QueuedAt(d) = {} /\ AsleepAt(d) = {}
        /\ OneDoubt(d)'
    BY <1>3, <1>4, <2>2, AnswersStep
  <2>4. m \in MailOf(d) <=> d = c
    BY <1>5, OneOwner
  <2> QED BY <1>2, <2>2, <2>3, <2>4
<1>8. <<src, b>> \in Channels /\ 1 \in DOMAIN net[<<src, b>>] /\ net[<<src, b>>][1] = m
  BY <1>2, <1>3, <1>4, Handled
<1>9. <<src, b>> \in NetAt(c)
  BY <1>5, <1>8 DEF NetAt, Hit
<1>10. OnePlace(c) /\ OnceEach(c)
  BY DEF Inv, OnePlace
<1>11. NetAt(c) = {<<src, b>>} /\ AskedAt(c) = {} /\ DeferredAt(c) = {} /\ QueuedAt(c) = {} /\ AsleepAt(c) = {}
  BY <1>9, <1>10, Alone
<1>12. StateOK /\ TypeOK /\ calls \in [Clients -> Nat] /\ holds \in [Clients -> SUBSET LockNums]
  BY DEF Inv, StateOK, TypeOK
<1>13. PICK H : H = IF call[c].op = "ACQUIRE" THEN holds[c] \cup {call[c].obj} ELSE holds[c]
  OBVIOUS
<1>14. holds' = [holds EXCEPT ![c] = H] /\ \A k \in H : k \in holds[c] \/ (call[c].op = "ACQUIRE" /\ k = call[c].obj)
  BY <1>4, <1>13
<1>15. call[c].op = "ACQUIRE" => call[c].obj \in LockNums /\ Owns(c, call[c].obj) /\ <<"lock", call[c].obj>> \notin retired
  <2> SUFFICES ASSUME call[c].op = "ACQUIRE"
               PROVE  call[c].obj \in LockNums /\ Owns(c, call[c].obj) /\ <<"lock", call[c].obj>> \notin retired
    OBVIOUS
  <2>1. call[c].op \in LockOps
    BY DEF LockOps
  <2>2. call[c].obj \in LockNums
    BY <1>12, <2>1, Called
  <2>3. Owns(c, call[c].obj)
    BY <1>1, <1>4, <1>5 DEF GoodMessage
  <2>4. Retirement
    BY DEF Inv
  <2> QED BY <2>2, <2>3, <2>4 DEF Retirement
<1>16. H \subseteq LockNums
  BY <1>12, <1>14, <1>15
<1>17. Turns(c, Idle)
  <2>1. net' \in [Channels -> Seq(Messages)]
    BY <1>3, <1>4, <1>12, HandleTyped, NothingMail DEF StateOK
  <2>2. calls' \in [Clients -> Nat] /\ holds' \in [Clients -> SUBSET LockNums]
    BY <1>4, <1>12, <1>14, <1>16
  <2>3. Idle.op # "DESTROY_MV"
    BY DEF Idle
  <2> QED BY <1>4, <1>11, <2>1, <2>2, <2>3 DEF Turns
<1>18. /\ StateOK' /\ GoodQueries' /\ GoodTrackers' /\ GoodQueues' /\ SleepersGaveUpLock'
       /\ call'[c] = Idle /\ \A d \in Clients : d # c => call'[d] = call[d]
       /\ \A d \in Clients : /\ AskedAt(d)' = AskedAt(d) /\ DeferredAt(d)' = DeferredAt(d)
                             /\ QueuedAt(d)' = QueuedAt(d) /\ AsleepAt(d)' = AsleepAt(d)
                             /\ OnceEach(d)' <=> \A ch \in Channels : Single(net'[ch], MailOf(d))
       /\ Unharmed(c)
  BY <1>17, TurnStep
<1>19. ASSUME NEW ch \in Channels, NEW i \in DOMAIN net[ch], NEW y \in Messages,
              y = net[ch][i], ch = <<src, b>> => i # 1
       PROVE  y \notin MailOf(c)
  <2> SUFFICES ASSUME y \in MailOf(c) PROVE FALSE
    OBVIOUS
  <2>1. ch \in NetAt(c)
    BY <1>19 DEF NetAt, Hit
  <2>2. ch = <<src, b>>
    BY <1>11, <2>1
  <2>3. Single(net[ch], MailOf(c))
    BY <1>10 DEF OnceEach
  <2> QED BY <1>5, <1>8, <1>19, <2>2, <2>3 DEF Single
<1>20. GoodMail'
  <2>1. PICK mail : mail = Nothing
    OBVIOUS
  <2>2. mail \in Mails /\ \A bx \in Boxes : \A k \in DOMAIN mail[bx] : \A y : y = mail[bx][k] => GoodMessage(y, bx)'
    BY <2>1, NothingMail
  <2>3. \A ch \in Channels : \A i \in DOMAIN net[ch] : \A y \in Messages :
           y = net[ch][i] /\ (ch = <<src, b>> => i # 1) /\ GoodMessage(y, ch[2]) => GoodMessage(y, ch[2])'
    BY <1>18, <1>19, BoxFacts DEF Unharmed
  <2>4. Handle(src, b, mail)
    BY <1>4, <2>1
  <2> QED BY <1>3, <1>4, <2>2, <2>3, <2>4, MailStep
<1>21. Ownership'
  <2>1. Ownership
    BY DEF Inv
  <2>2. \A d \in Clients : holds'[d] = IF d = c THEN H ELSE holds[d]
    BY <1>12, <1>14
  <2>3. \A d, l : Owns(d, l)' <=> Owns(d, l)
    BY <1>4 DEF Owns, tableVars
  <2>4. ASSUME NEW d \in Clients, NEW l \in holds'[d] PROVE Owns(d, l)' /\ <<"lock", l>> \notin retired'
    <3>1. CASE l \in holds[d]
      BY <1>4, <2>1, <2>3, <3>1 DEF Ownership
    <3>2. CASE d = c /\ call[c].op = "ACQUIRE" /\ l = call[c].obj
      BY <1>4, <1>15, <2>3, <3>2
    <3> QED BY <1>14, <2>2, <2>4, <3>1, <3>2
  <2>5. ASSUME NEW d \in Clients
        PROVE  /\ call'[d].op = "RELEASE" => call'[d].obj \notin holds'[d]
               /\ call'[d].op = "WAIT" => call'[d].arg \notin holds'[d]
    BY <1>18, <2>1, <2>2 DEF Ownership, Idle
  <2> QED BY <2>4, <2>5 DEF Ownership
<1>22. Retirement'
  <2>1. Retirement
    BY DEF Inv
  <2>2. \A d \in Clients : call'[d] = call[d] \/ call'[d].op = "none"
    BY <1>18 DEF Idle
  <2> QED BY <1>4, <2>1, <2>2 DEF Retirement, tableVars
<1>23. ASSUME NEW d \in Clients PROVE OnePlace(d)' /\ OneDoubt(d)'
  <2>1. OnceEach(d)'
    BY <1>7, <1>18
  <2>2. CASE d = c
    <3>1. NetAt(d)' = {} /\ AskedAt(d)' = {} /\ DeferredAt(d)' = {} /\ QueuedAt(d)' = {} /\ AsleepAt(d)' = {}
      BY <1>7, <1>11, <1>18, <2>2
    <3> QED BY <1>7, <2>1, <3>1, Nowhere
  <2>3. CASE d # c
    <3>1. OnePlace(d) /\ NetAt(d)' = NetAt(d)
      BY <1>7, <2>3 DEF Inv
    <3> QED BY <1>7, <1>18, <2>1, <2>3, <3>1, Stays
  <2> QED BY <2>2, <2>3
<1> QED BY <1>18, <1>20, <1>21, <1>22, <1>23 DEF Inv

(* A client that was woken asks for its lock.                               *)
LEMMA ReacquireInv ==
    ASSUME Inv, NEW c \in Clients, NEW src \in Servers, NEW s \in Servers, Reacquire(c, src, s)
    PROVE  Inv'
<1>1. PICK b \in Boxes : b = <<c, 0>>
  BY BoxFacts
<1>2. PICK m : m = First(src, b)
  OBVIOUS
<1>3. src \in Machines /\ c \in Machines /\ <<s, 0>> \in Boxes
  BY BoxFacts
<1>4. PICK k, r, y : /\ k = call[c].arg /\ r = [op |-> "ACQUIRE", obj |-> k, arg |-> 0]
                     /\ y = Request(<<s, 0>>, "ACQUIRE", c, k, 0)
  OBVIOUS
<1>5. /\ net[<<src, b>>] # <<>> /\ m.type = "REPLY" /\ call[c].op = "WAIT"
      /\ call' = [call EXCEPT ![c] = r]
      /\ Handle(src, b, Only(y))
      /\ UNCHANGED <<tableVars, serverVars, calls, holds, retired>>
  BY <1>1, <1>2, <1>4 DEF Reacquire, Arrived
<1>6. m \in Answers /\ GoodMessage(m, b) /\ m \in MailOf(c)
  <2>1. m \in Messages /\ GoodMessage(m, b)
    BY <1>2, <1>3, <1>5, Handled
  <2>2. m \in Answers
    BY <1>5, <2>1, Types
  <2>3. m.to = <<c, 0>>
    BY <1>1, <2>1 DEF GoodMessage
  <2> QED BY <2>1, <2>2, <2>3, Concerns
<1>7. StateOK /\ TypeOK /\ calls \in [Clients -> Nat] /\ holds \in [Clients -> SUBSET LockNums]
  BY DEF Inv, StateOK, TypeOK
<1>8. k \in LockNums /\ k \in Numbers
  <2>1. call[c].op \in UseOps
    BY <1>5 DEF UseOps
  <2>2. k \in LockNums
    BY <1>4, <1>7, <2>1, Called
  <2> QED BY <2>2, UseAssumption
<1>9. k \in Nat
  BY <1>8, NumberFacts
<1>10. /\ "ACQUIRE" \in Ops /\ Existing(KindOf("ACQUIRE")) = LockNums /\ Args("ACQUIRE") = {0}
  BY OpFacts DEF LockOps, UseOps, Args, Ops
<1>11. /\ y \in Requests /\ y \in Messages /\ y.to = <<s, 0>> /\ y.type = "ACQUIRE"
       /\ y.from = c /\ y.obj = k /\ y.arg = 0
  BY <1>3, <1>4, <1>8, <1>9, <1>10 DEF Request, Requests, Messages
<1>12. r \in Contents /\ r.op = "ACQUIRE" /\ r.obj = k /\ r.arg = 0
  BY <1>4, <1>8, <1>9, <1>10 DEF Contents
<1>13. \A d \in Clients : y \notin DoubtOf(d) /\ (y \in MailOf(d) <=> d = c)
  BY <1>11, Concerns
<1>14. \A d \in Clients : m \in MailOf(d) <=> d = c
  BY <1>6, OneOwner
<1>15. ASSUME NEW d \in Clients
       PROVE  /\ \A ch \in Channels : Single(net'[ch], MailOf(d))
              /\ NetAt(d)' = IF d = c THEN {<<b[1], y.to>>} ELSE NetAt(d)
              /\ OneDoubt(d)'
  <2>1. y \notin DoubtOf(d) /\ (y \in MailOf(d) <=> d = c) /\ (First(src, b) \in MailOf(d) <=> d = c)
    BY <1>2, <1>13, <1>14
  <2>2. /\ y.to \in Boxes /\ (y \in DoubtOf(d) => First(src, b) \in DoubtOf(d) \/ DeferredAt(d) = {})
        /\ y \in MailOf(d) => First(src, b) \in MailOf(d) \/ NetAt(d) = {}
    BY <1>3, <1>11, <2>1
  <2>3. /\ \A ch \in Channels : Single(net'[ch], MailOf(d))
        /\ NetAt(d)' = IF y \in MailOf(d) THEN {<<b[1], y.to>>}
                       ELSE IF First(src, b) \in MailOf(d) THEN {} ELSE NetAt(d)
        /\ OneDoubt(d)'
    BY <1>3, <1>5, <1>11, <2>2, OnlyStep
  <2> QED BY <2>1, <2>3
<1>16. <<src, b>> \in Channels /\ 1 \in DOMAIN net[<<src, b>>] /\ net[<<src, b>>][1] = m
  BY <1>2, <1>3, <1>5, Handled
<1>17. <<src, b>> \in NetAt(c)
  BY <1>6, <1>16 DEF NetAt, Hit
<1>18. OnePlace(c) /\ OnceEach(c)
  BY DEF Inv, OnePlace
<1>19. NetAt(c) = {<<src, b>>} /\ AskedAt(c) = {} /\ DeferredAt(c) = {} /\ QueuedAt(c) = {} /\ AsleepAt(c) = {}
  BY <1>17, <1>18, Alone
<1>20. PICK mail : mail = Only(y)
  OBVIOUS
<1>21. mail \in Mails /\ \A bx \in Boxes : \A j \in DOMAIN mail[bx] : bx = y.to /\ mail[bx][j] = y
  <2>1. y \in Messages
    BY <1>11
  <2> QED BY <1>20, <2>1, OnlyMail
<1>22. Turns(c, r)
  <2>1. net' \in [Channels -> Seq(Messages)]
    BY <1>3, <1>5, <1>7, <1>20, <1>21, HandleTyped DEF StateOK
  <2>2. calls' \in [Clients -> Nat] /\ holds' \in [Clients -> SUBSET LockNums]
    BY <1>5, <1>7
  <2> QED BY <1>5, <1>12, <1>19, <2>1, <2>2 DEF Turns
<1>23. /\ StateOK' /\ GoodQueries' /\ GoodTrackers' /\ GoodQueues' /\ SleepersGaveUpLock'
       /\ call'[c] = r /\ \A d \in Clients : d # c => call'[d] = call[d]
       /\ \A d \in Clients : /\ AskedAt(d)' = AskedAt(d) /\ DeferredAt(d)' = DeferredAt(d)
                             /\ QueuedAt(d)' = QueuedAt(d) /\ AsleepAt(d)' = AsleepAt(d)
                             /\ OnceEach(d)' <=> \A ch \in Channels : Single(net'[ch], MailOf(d))
       /\ Unharmed(c)
  BY <1>22, TurnStep
<1>24. ASSUME NEW ch \in Channels, NEW i \in DOMAIN net[ch], NEW x \in Messages,
              x = net[ch][i], ch = <<src, b>> => i # 1
       PROVE  x \notin MailOf(c)
  <2> SUFFICES ASSUME x \in MailOf(c) PROVE FALSE
    OBVIOUS
  <2>1. ch \in NetAt(c)
    BY <1>24 DEF NetAt, Hit
  <2>2. ch = <<src, b>>
    BY <1>19, <2>1
  <2>3. Single(net[ch], MailOf(c))
    BY <1>18 DEF OnceEach
  <2> QED BY <1>6, <1>16, <1>24, <2>2, <2>3 DEF Single
<1>25. GoodMessage(y, <<s, 0>>)'
  <2>1. Asks(c, "ACQUIRE", k, 0)'
    BY <1>4, <1>23 DEF Asks
  <2>2. GoodRequest(y, <<s, 0>>)'
    BY <1>8, <1>10, <1>11, <2>1 DEF GoodRequest
  <2> QED BY <1>11, <2>2 DEF GoodMessage
<1>26. GoodMail'
  <2>1. \A bx \in Boxes : \A j \in DOMAIN mail[bx] : \A x : x = mail[bx][j] => GoodMessage(x, bx)'
    BY <1>11, <1>21, <1>25
  <2>2. \A ch \in Channels : \A i \in DOMAIN net[ch] : \A x \in Messages :
           x = net[ch][i] /\ (ch = <<src, b>> => i # 1) /\ GoodMessage(x, ch[2]) => GoodMessage(x, ch[2])'
    BY <1>23, <1>24, BoxFacts DEF Unharmed
  <2>3. Handle(src, b, mail)
    BY <1>5, <1>20
  <2> QED BY <1>3, <1>5, <1>21, <2>1, <2>2, <2>3, MailStep
<1>27. Ownership'
  <2>1. Ownership
    BY DEF Inv
  <2>2. \A d, l : Owns(d, l)' <=> Owns(d, l)
    BY <1>5 DEF Owns, tableVars
  <2>3. \A d \in Clients : call'[d] = call[d] \/ call'[d].op = "ACQUIRE"
    BY <1>12, <1>23
  <2> QED BY <1>5, <2>1, <2>2, <2>3 DEF Ownership
<1>28. Retirement'
  <2>1. Retirement
    BY DEF Inv
  <2>2. <<"lock", k>> \notin retired
    BY <1>4, <1>5, <2>1 DEF Retirement
  <2>3. \A d \in Clients : call'[d] = call[d] \/ (call'[d].op = "ACQUIRE" /\ call'[d].obj = k)
    BY <1>12, <1>23
  <2> QED BY <1>5, <2>1, <2>2, <2>3 DEF Retirement, tableVars
<1>29. ASSUME NEW d \in Clients PROVE OnePlace(d)' /\ OneDoubt(d)'
  <2>1. OnceEach(d)'
    BY <1>15, <1>23
  <2>2. CASE d = c
    <3>1. AskedAt(d)' = {} /\ DeferredAt(d)' = {} /\ QueuedAt(d)' = {} /\ AsleepAt(d)' = {}
      BY <1>19, <1>23, <2>2
    <3>2. \E x : NetAt(d)' \subseteq {x}
      BY <1>15, <2>2
    <3>3. call'[d] # Idle
      BY <1>12, <1>23, <2>2 DEF Idle
    <3> QED BY <1>15, <2>1, <3>1, <3>2, <3>3, MovedToNet
  <2>3. CASE d # c
    <3>1. OnePlace(d) /\ NetAt(d)' = NetAt(d)
      BY <1>15, <2>3 DEF Inv
    <3> QED BY <1>15, <1>23, <2>1, <2>3, <3>1, Stays
  <2> QED BY <2>2, <2>3
<1> QED BY <1>23, <1>26, <1>27, <1>28, <1>29 DEF Inv

(* A client makes a call.                                                   *)
LEMMA CallInv ==
    ASSUME Inv, NEW c \in Clients, NEW op \in Ops, NEW k \in Existing(KindOf(op)), NEW a \in Args(op),
           NEW s \in Servers, Call(c, op, k, a, s)
    PROVE  Inv'
<1>1. PICK y : y = Request(<<s, 0>>, op, c, k, a)
  OBVIOUS
<1>2. PICK r : r = IF op = "DESTROY_MV" THEN Idle ELSE [op |-> op, obj |-> k, arg |-> a]
  OBVIOUS
<1>3. PICK G : G = CASE op = "RELEASE" -> {k} [] op = "WAIT" -> {a} [] OTHER -> {}
  OBVIOUS
<1>4. PICK mail : mail = Only(y)
  OBVIOUS
<1>5. /\ call[c] = Idle /\ Sensible(c, op, k, a)
      /\ call' = [call EXCEPT ![c] = r] /\ calls' = [calls EXCEPT ![c] = @ + 1]
      /\ holds' = [holds EXCEPT ![c] = @ \ G]
      /\ retired' = IF op \in {"DESTROY_LOCK", "DESTROY_CV", "DESTROY_MV"}
                    THEN retired \cup {<<KindOf(op), k>>} ELSE retired
      /\ net' = Posted(net, c, mail)
      /\ UNCHANGED <<tableVars, serverVars>>
  BY <1>1, <1>2, <1>3, <1>4 DEF Call
<1>6. c \in Machines /\ <<s, 0>> \in Boxes /\ \A x \in Boxes : <<c, x>> \in Channels
  BY BoxFacts DEF Channels
<1>7. StateOK /\ TypeOK /\ calls \in [Clients -> Nat] /\ holds \in [Clients -> SUBSET LockNums]
      /\ net \in [Channels -> Seq(Messages)] /\ call \in [Clients -> {Idle} \cup Contents]
  BY DEF Inv, StateOK, TypeOK
<1>8. k \in Numbers /\ a \in Nat
  <2>1. Existing(KindOf(op)) \subseteq Numbers
    BY UseAssumption DEF Existing
  <2>2. LockNums \subseteq Nat /\ Values \subseteq Nat
    BY UseAssumption, NumberFacts
  <2>3. Args(op) \subseteq Nat
    BY <2>2 DEF Args
  <2> QED BY <2>1, <2>3
<1>9. /\ y \in Requests /\ y \in Messages /\ y.to = <<s, 0>> /\ y.type = op
      /\ y.from = c /\ y.obj = k /\ y.arg = a
  BY <1>1, <1>6, <1>8 DEF Request, Requests, Messages
<1>10. r \in {Idle} \cup Contents /\ r.op # "DESTROY_MV"
  <2>1. CASE op = "DESTROY_MV"
    BY <1>2, <2>1 DEF Idle
  <2>2. CASE op # "DESTROY_MV"
    BY <1>2, <1>8, <2>2 DEF Contents
  <2> QED BY <2>1, <2>2
<1>11. OnePlace(c)
  BY DEF Inv
<1>12. NetAt(c) = {} /\ AskedAt(c) = {} /\ DeferredAt(c) = {} /\ QueuedAt(c) = {} /\ AsleepAt(c) = {}
  BY <1>5, <1>11, Alone
<1>13. /\ mail \in Mails
       /\ \A bx \in Boxes : \A j \in DOMAIN mail[bx] : bx = y.to /\ mail[bx][j] = y
       /\ \A bx \in Boxes : \A T : (Hit(mail[bx], T) <=> (bx = y.to /\ y \in T)) /\ Single(mail[bx], T)
  <2>1. y \in Messages
    BY <1>9
  <2> QED BY <1>4, <2>1, OnlyMail
<1>14. /\ Posted(net, c, mail) \in [Channels -> Seq(Messages)]
       /\ \A ch \in Channels :
             /\ net[ch] \in Seq(Messages) /\ mail[ch[2]] \in Seq(Messages)
             /\ Posted(net, c, mail)[ch] = IF ch[1] = c THEN net[ch] \o mail[ch[2]] ELSE net[ch]
             /\ \A i \in DOMAIN Posted(net, c, mail)[ch] :
                   \/ i \in DOMAIN net[ch] /\ Posted(net, c, mail)[ch][i] = net[ch][i]
                   \/ /\ ch[1] = c
                      /\ \E j \in DOMAIN mail[ch[2]] : Posted(net, c, mail)[ch][i] = mail[ch[2]][j]
  BY <1>6, <1>7, <1>13, PostedOrigin
<1>15. Turns(c, r)
  <2>1. net' \in [Channels -> Seq(Messages)]
    BY <1>5, <1>14
  <2>2. calls' \in [Clients -> Nat] /\ holds' \in [Clients -> SUBSET LockNums]
    BY <1>5, <1>7
  <2> QED BY <1>5, <1>10, <1>12, <2>1, <2>2 DEF Turns
<1>16. /\ StateOK' /\ GoodQueries' /\ GoodTrackers' /\ GoodQueues' /\ SleepersGaveUpLock'
       /\ call'[c] = r /\ \A d \in Clients : d # c => call'[d] = call[d]
       /\ \A d \in Clients : /\ AskedAt(d)' = AskedAt(d) /\ DeferredAt(d)' = DeferredAt(d)
                             /\ QueuedAt(d)' = QueuedAt(d) /\ AsleepAt(d)' = AsleepAt(d)
                             /\ OnceEach(d)' <=> \A ch \in Channels : Single(net'[ch], MailOf(d))
       /\ Unharmed(c)
  BY <1>15, TurnStep
<1>17. GoodMessage(y, <<s, 0>>)'
  <2>1. op # "DESTROY_MV" => Asks(c, op, k, a)'
    BY <1>2, <1>16 DEF Asks
  <2>2. GoodRequest(y, <<s, 0>>)'
    BY <1>9, <2>1 DEF GoodRequest
  <2>3. op \notin {"DOES_CLIENT_HAVE_LOCK", "CV_LOCK_TRACKER_RESPONSE", "DO_YOU_HAVE", "HAVE", "DO_NOT_HAVE", "REPLY"}
    BY DEF Ops, LockOps, UseOps, MVOps
  <2> QED BY <1>9, <2>2, <2>3 DEF GoodMessage
<1>18. GoodMail'
  <2> SUFFICES ASSUME NEW ch \in Channels, NEW i \in DOMAIN net'[ch], NEW x, x = net'[ch][i]
               PROVE  GoodMessage(x, ch[2])'
    BY DEF GoodMail
  <2>1. CASE i \in DOMAIN net[ch] /\ x = net[ch][i]
    <3>1. PICK b2 \in Boxes : b2 = ch[2]
      BY BoxFacts
    <3>2. x \in Messages /\ GoodMessage(x, b2)
      BY <1>7, <2>1, <3>1 DEF Inv, GoodMail
    <3>3. x \notin MailOf(c)
      BY <1>12, <2>1 DEF NetAt, Hit
    <3>4. GoodMessage(x, b2)'
      BY <1>16, <3>2, <3>3 DEF Unharmed
    <3> QED BY <3>1, <3>4
  <2>2. CASE \E j \in DOMAIN mail[ch[2]] : x = mail[ch[2]][j]
    <3>1. ch[2] \in Boxes
      BY BoxFacts
    <3>2. ch[2] = <<s, 0>> /\ x = y
      BY <1>9, <1>13, <2>2, <3>1
    <3>3. \A b2 : b2 = <<s, 0>> => GoodMessage(y, b2)'
      BY <1>17
    <3> QED BY <3>2, <3>3
  <2> QED BY <1>5, <1>14, <2>1, <2>2
<1>19. ASSUME NEW d \in Clients
       PROVE  /\ \A ch \in Channels : Single(net'[ch], MailOf(d))
              /\ NetAt(d)' = IF y \in MailOf(d) THEN {<<c, <<s, 0>>>>} ELSE NetAt(d)
              /\ y \in MailOf(d) => d = c /\ op # "DESTROY_MV"
              /\ y \notin DoubtOf(d)
  <2>1. (y \in MailOf(d) => d = c /\ op # "DESTROY_MV") /\ y \notin DoubtOf(d)
    BY <1>9, Concerns
  <2>2. PICK T : T = MailOf(d)
    OBVIOUS
  <2>3. \A ch \in Channels : /\ Single(net[ch], T) /\ (ch \in NetAt(d) <=> Hit(net[ch], T))
                             /\ ch \in NetAt(d)' <=> Hit(net'[ch], T)
    BY <2>2 DEF Inv, OnePlace, OnceEach, NetAt
  <2>4. y \in T => \A ch \in Channels : ~Hit(net[ch], T)
    BY <1>12, <2>1, <2>2, <2>3
  <2>5. ASSUME NEW ch \in Channels
        PROVE  /\ Hit(net'[ch], T) <=> (Hit(net[ch], T) \/ (ch[1] = c /\ Hit(mail[ch[2]], T)))
               /\ Single(net'[ch], T)
    <3>1. /\ Hit(Posted(net, c, mail)[ch], T) <=> (Hit(net[ch], T) \/ (ch[1] = c /\ Hit(mail[ch[2]], T)))
          /\ Single(net[ch], T) /\ (ch[1] = c => Single(mail[ch[2]], T) /\ ~(Hit(net[ch], T) /\ Hit(mail[ch[2]], T)))
             => Single(Posted(net, c, mail)[ch], T)
      BY <1>6, <1>7, <1>13, PostedKeeps
    <3>2. ch[2] \in Boxes
      BY BoxFacts
    <3>3. Single(mail[ch[2]], T) /\ ~(Hit(net[ch], T) /\ Hit(mail[ch[2]], T))
      BY <1>13, <2>4, <3>2
    <3> QED BY <1>5, <2>3, <3>1, <3>3
  <2>6. \A ch \in Channels : ch[2] \in Boxes /\ ch = <<ch[1], ch[2]>>
    BY BoxFacts
  <2>7. \A ch \in Channels : Hit(net'[ch], T) <=> Hit(net[ch], T) \/ (ch = <<c, <<s, 0>>>> /\ y \in T)
    <3> SUFFICES ASSUME NEW ch \in Channels
                 PROVE  Hit(net'[ch], T) <=> Hit(net[ch], T) \/ (ch = <<c, <<s, 0>>>> /\ y \in T)
      OBVIOUS
    <3>1. Hit(mail[ch[2]], T) <=> (ch[2] = <<s, 0>> /\ y \in T)
      BY <1>9, <1>13, <2>6
    <3> QED BY <2>5, <2>6, <3>1
  <2>8. NetAt(d)' \subseteq Channels /\ NetAt(d) \subseteq Channels /\ <<c, <<s, 0>>>> \in Channels
    BY <1>6 DEF NetAt
  <2>9. NetAt(d)' = IF y \in T THEN {<<c, <<s, 0>>>>} ELSE NetAt(d)
    BY <2>3, <2>4, <2>7, <2>8
  <2> QED BY <2>1, <2>2, <2>5, <2>9
<1>20. ASSUME NEW d \in Clients PROVE OneDoubt(d)'
  <2>1. PICK T : T = DoubtOf(d)
    OBVIOUS
  <2>2. /\ \A ch \in Channels : Single(net[ch], T)
        /\ \A ch, dh \in Channels : Hit(net[ch], T) /\ Hit(net[dh], T) => ch = dh
    BY <2>1 DEF Inv, OneDoubt
  <2>3. y \notin T
    BY <1>19, <2>1
  <2>4. ASSUME NEW ch \in Channels
        PROVE  (Hit(net'[ch], T) <=> Hit(net[ch], T)) /\ Single(net'[ch], T)
    <3>1. /\ Hit(Posted(net, c, mail)[ch], T) <=> (Hit(net[ch], T) \/ (ch[1] = c /\ Hit(mail[ch[2]], T)))
          /\ Single(net[ch], T) /\ (ch[1] = c => Single(mail[ch[2]], T) /\ ~(Hit(net[ch], T) /\ Hit(mail[ch[2]], T)))
             => Single(Posted(net, c, mail)[ch], T)
      BY <1>6, <1>7, <1>13, PostedKeeps
    <3>2. ch[2] \in Boxes
      BY BoxFacts
    <3>3. Single(mail[ch[2]], T) /\ ~Hit(mail[ch[2]], T)
      BY <1>13, <2>3, <3>2
    <3> QED BY <1>5, <2>2, <3>1, <3>3
  <2>5. /\ \A ch \in Channels : Single(net'[ch], T)
        /\ \A ch, dh \in Channels : Hit(net'[ch], T) /\ Hit(net'[dh], T) => ch = dh
    BY <2>2, <2>4
  <2> QED BY <2>1, <2>5 DEF OneDoubt
<1>21. \A d \in Clients : holds'[d] \subseteq holds[d] /\ (d = c => holds'[d] = holds[d] \ G)
  BY <1>5, <1>7
<1>22. /\ \A x : x \in retired' => x \in retired \/ (x = <<KindOf(op), k>> /\ \A d \in Clients : x \notin InUseBy(d))
       /\ retired \subseteq retired'
  <2>1. \A d \in Clients : op \in {"DESTROY_LOCK", "DESTROY_CV", "DESTROY_MV"} => <<KindOf(op), k>> \notin InUseBy(d)
    BY <1>5 DEF Sensible
  <2> QED BY <1>5, <2>1
<1>23. ASSUME NEW d \in Clients
       PROVE  /\ \A l \in holds[d] : <<"lock", l>> \in InUseBy(d)
              /\ call[d].op \in {"ACQUIRE", "RELEASE"} => <<"lock", call[d].obj>> \in InUseBy(d)
              /\ call[d].op = "WAIT" => <<"lock", call[d].arg>> \in InUseBy(d)
  <2>1. \A l \in holds[d] : <<"lock", l>> \in InUseBy(d)
    BY DEF InUseBy
  <2>2. call[d].op \in {"ACQUIRE", "RELEASE"} => <<"lock", call[d].obj>> \in InUseBy(d)
    <3> SUFFICES ASSUME call[d].op \in {"ACQUIRE", "RELEASE"} PROVE <<"lock", call[d].obj>> \in InUseBy(d)
      OBVIOUS
    <3>1. KindOf(call[d].op) = "lock" /\ call[d] # Idle
      BY DEF KindOf, LockOps, MVOps, Idle
    <3> QED BY <3>1 DEF InUseBy
  <2>3. call[d].op = "WAIT" => <<"lock", call[d].arg>> \in InUseBy(d)
    <3> SUFFICES ASSUME call[d].op = "WAIT" PROVE <<"lock", call[d].arg>> \in InUseBy(d)
      OBVIOUS
    <3>1. call[d].op \in UseOps /\ call[d] # Idle
      BY DEF UseOps, Idle
    <3> QED BY <3>1 DEF InUseBy
  <2> QED BY <2>1, <2>2, <2>3
<1>24. Ownership'
  <2>1. Ownership
    BY DEF Inv
  <2>2. \A d, l : Owns(d, l)' <=> Owns(d, l)
    BY <1>5 DEF Owns, tableVars
  <2>3. ASSUME NEW d \in Clients, NEW l \in holds'[d] PROVE Owns(d, l)' /\ <<"lock", l>> \notin retired'
    <3>1. l \in holds[d]
      BY <1>21, <2>3
    <3>2. Owns(d, l) /\ <<"lock", l>> \notin retired /\ <<"lock", l>> \in InUseBy(d)
      BY <1>23, <2>1, <3>1 DEF Ownership
    <3> QED BY <1>22, <2>2, <3>2
  <2>4. ASSUME NEW d \in Clients
        PROVE  /\ call'[d].op = "RELEASE" => call'[d].obj \notin holds'[d]
               /\ call'[d].op = "WAIT" => call'[d].arg \notin holds'[d]
    <3>1. CASE d # c
      BY <1>16, <1>21, <2>1, <3>1 DEF Ownership
    <3>2. CASE d = c
      <4>1. r.op = "RELEASE" => op = "RELEASE" /\ r.obj = k
        BY <1>2 DEF Idle
      <4>2. r.op = "WAIT" => op = "WAIT" /\ r.arg = a
        BY <1>2 DEF Idle
      <4>3. (op = "RELEASE" => k \in G) /\ (op = "WAIT" => a \in G)
        BY <1>3
      <4> QED BY <1>16, <1>21, <3>2, <4>1, <4>2, <4>3
    <3> QED BY <3>1, <3>2
  <2> QED BY <2>3, <2>4 DEF Ownership
<1>25. Retirement'
  <2>1. Retirement
    BY DEF Inv
  <2>2. \A l \in LockNums : ~lock'[l].live \/ lock'[l].isToBeDeleted => <<"lock", l>> \in retired'
    BY <1>5, <1>22, <2>1 DEF Retirement, tableVars
  <2>3. ASSUME NEW d \in Clients
        PROVE  /\ call'[d].op \in {"ACQUIRE", "RELEASE"} => <<"lock", call'[d].obj>> \notin retired'
               /\ call'[d].op = "WAIT" => <<"lock", call'[d].arg>> \notin retired'
               /\ call'[d].op = "DESTROY_LOCK" => <<"lock", call'[d].obj>> \in retired'
    <3>1. CASE d # c
      <4>1. call'[d] = call[d]
        BY <1>16, <3>1
      <4>2. /\ call[d].op \in {"ACQUIRE", "RELEASE"} => <<"lock", call[d].obj>> \notin retired
            /\ call[d].op = "WAIT" => <<"lock", call[d].arg>> \notin retired
            /\ call[d].op = "DESTROY_LOCK" => <<"lock", call[d].obj>> \in retired
        BY <2>1 DEF Retirement
      <4> QED BY <1>22, <1>23, <4>1, <4>2
    <3>2. CASE d = c
      <4>1. r.op = "none" \/ (op # "DESTROY_MV" /\ r.op = op /\ r.obj = k /\ r.arg = a)
        BY <1>2 DEF Idle
      <4>2. op \in {"ACQUIRE", "RELEASE", "DESTROY_LOCK"} => KindOf(op) = "lock"
        BY DEF KindOf, LockOps, MVOps
      <4>3. op \in {"ACQUIRE", "RELEASE"} => <<KindOf(op), k>> \notin retired /\ retired' = retired
        BY <1>5 DEF Sensible
      <4>4. op = "WAIT" => <<"lock", a>> \notin retired /\ retired' = retired
        BY <1>5 DEF Sensible
      <4>5. op = "DESTROY_LOCK" => <<KindOf(op), k>> \in retired'
        BY <1>5
      <4> QED BY <1>16, <3>2, <4>1, <4>2, <4>3, <4>4, <4>5
    <3> QED BY <3>1, <3>2
  <2> QED BY <2>2, <2>3 DEF Retirement
<1>26. ASSUME NEW d \in Clients PROVE OnePlace(d)'
  <2>1. OnceEach(d)'
    BY <1>16, <1>19
  <2>2. CASE y \in MailOf(d)
    <3>1. d = c /\ op # "DESTROY_MV"
      BY <1>19, <2>2
    <3>2. AskedAt(d)' = {} /\ DeferredAt(d)' = {} /\ QueuedAt(d)' = {} /\ AsleepAt(d)' = {}
      BY <1>12, <1>16, <3>1
    <3>3. \E x : NetAt(d)' \subseteq {x}
      BY <1>19, <2>2
    <3>4. call'[d] # Idle
      <4>1. call'[d].op = op
        BY <1>2, <1>16, <3>1
      <4> QED BY <3>1, <4>1, OpFacts
    <3> QED BY <2>1, <3>2, <3>3, <3>4, MovedToNet
  <2>3. CASE y \notin MailOf(d) /\ d = c
    <3>1. NetAt(d)' = {} /\ AskedAt(d)' = {} /\ DeferredAt(d)' = {} /\ QueuedAt(d)' = {} /\ AsleepAt(d)' = {}
      BY <1>12, <1>16, <1>19, <2>3
    <3> QED BY <2>1, <3>1, Nowhere
  <2>4. CASE y \notin MailOf(d) /\ d # c
    <3>1. OnePlace(d) /\ NetAt(d)' = NetAt(d)
      BY <1>19, <2>4 DEF Inv
    <3> QED BY <1>16, <2>1, <2>4, <3>1, Stays
  <2> QED BY <2>2, <2>3, <2>4
<1> QED BY <1>16, <1>18, <1>20, <1>24, <1>25, <1>26 DEF Inv

-----------------------------------------------------------------------------
(* The invariant                                                           *)

(* The invariant holds at the start.                                        *)
LEMMA InitInv == ASSUME Init PROVE Inv
<1> USE DEF Init
<1>1. net \in [Channels -> Seq(Messages)] /\ queryQueue \in [Servers -> Seq(Queries)]
      /\ cvLockTrackerList \in [Servers -> Seq(Trackers)]
  <2>1. <<>> \in Seq(Messages) /\ <<>> \in Seq(Queries) /\ <<>> \in Seq(Trackers)
    OBVIOUS
  <2> QED BY <2>1
<1>2. lock \in [LockNums -> Locks] /\ cond \in [CVNums -> Conds]
  <2>1. <<>> \in Seq(Clients) /\ -1 \in Int
    OBVIOUS
  <2>2. NewLock \in Locks /\ NewCond \in Conds
    BY <2>1 DEF NewLock, NewCond, Locks, Conds
  <2> QED BY <2>2
<1>3. StateOK
  <2>1. TypeOK
    BY <1>1, <1>2, UseAssumption DEF TypeOK, Locks, Conds
  <2>2. call \in [Clients -> {Idle} \cup Contents] /\ \A c \in Clients : call[c].op # "DESTROY_MV"
    BY DEF Idle
  <2>3. \A l \in LockNums : lock[l].owner \in Clients \cup {NoOne}
    BY DEF NewLock
  <2> QED BY <1>1, <2>1, <2>2, <2>3 DEF StateOK
<1>4. \A ch \in Channels : DOMAIN net[ch] = {}
  OBVIOUS
<1>5. \A s \in Servers : DOMAIN queryQueue[s] = {} /\ DOMAIN cvLockTrackerList[s] = {}
  OBVIOUS
<1>6. (\A l \in LockNums : DOMAIN lock[l].queue = {}) /\ \A k \in CVNums : DOMAIN cond[k].queue = {} /\ Len(cond[k].queue) = 0
  BY DEF NewLock, NewCond
<1>7. GoodMail /\ GoodQueries /\ GoodTrackers /\ GoodQueues
  BY <1>4, <1>5, <1>6 DEF GoodMail, GoodQueries, GoodTrackers, GoodQueues
<1>8. ASSUME NEW c \in Clients PROVE OnePlace(c) /\ OneDoubt(c)
  <2>1. /\ \A ch \in Channels : \A T : ~Hit(net[ch], T) /\ Single(net[ch], T)
        /\ \A s \in Servers : \A T : /\ ~Hit(queryQueue[s], T) /\ Single(queryQueue[s], T)
                                     /\ ~Hit(cvLockTrackerList[s], T) /\ Single(cvLockTrackerList[s], T)
        /\ \A l \in LockNums : \A T : ~Hit(lock[l].queue, T) /\ Single(lock[l].queue, T)
        /\ \A k \in CVNums : \A T : ~Hit(cond[k].queue, T) /\ Single(cond[k].queue, T)
    BY <1>4, <1>5, <1>6 DEF Hit, Single
  <2>2. NetAt(c) = {} /\ AskedAt(c) = {} /\ DeferredAt(c) = {} /\ QueuedAt(c) = {} /\ AsleepAt(c) = {}
    BY <2>1 DEF NetAt, AskedAt, DeferredAt, QueuedAt, AsleepAt
  <2>3. OnceEach(c) /\ OneDoubt(c)
    BY <2>1 DEF OnceEach, OneDoubt
  <2>4. Occupied(c) = {}
    BY <2>2, TaggedEmpty DEF Occupied
  <2> QED BY <2>3, <2>4 DEF OnePlace
<1>9. Ownership /\ Retirement
  <2>1. \A c \in Clients : call[c].op = "none" /\ holds[c] = {}
    BY DEF Idle
  <2>2. \A l \in LockNums : lock[l].live /\ ~lock[l].isToBeDeleted
    BY DEF NewLock
  <2> QED BY <2>1, <2>2 DEF Ownership, Retirement
<1>10. SleepersGaveUpLock
  <2>1. \A k \in CVNums : Elements(cond[k].queue) = {}
    BY <1>6 DEF Elements
  <2> QED BY <2>1, Zenon DEF SleepersGaveUpLock
<1> QED BY <1>3, <1>7, <1>8, <1>9, <1>10 DEF Inv

(* It holds after a step that changes nothing.                              *)
LEMMA StutterInv == ASSUME Inv, UNCHANGED vars PROVE Inv'
<1>1. /\ UNCHANGED <<net, lock, cond, mv, queryQueue, nextQueryID, cvLockTrackerList, down>>
      /\ UNCHANGED <<call, calls, holds, retired>>
  BY DEF vars, tableVars, serverVars, clientVars
<1>2. StateOK'
  BY <1>1 DEF Inv, StateOK, TypeOK
<1>3. GoodMail'
  <2>1. \A x, b2 : GoodMessage(x, b2)' <=> GoodMessage(x, b2)
    BY <1>1 DEF GoodMessage, GoodRequest, PutOff, Owns, Asks
  <2> SUFFICES ASSUME NEW ch \in Channels, NEW i \in DOMAIN net'[ch], NEW x, x = net'[ch][i], NEW b2, b2 = ch[2]
               PROVE  GoodMessage(x, b2)'
    BY DEF GoodMail
  <2>2. GoodMessage(x, b2)
    BY <1>1 DEF Inv, GoodMail
  <2> QED BY <2>1, <2>2
<1>4. GoodQueries'
  <2>1. \A x, b2 : GoodRequest(x, b2)' <=> GoodRequest(x, b2)
    BY <1>1 DEF GoodRequest, Asks
  <2>2. GoodQueries
    BY DEF Inv
  <2> QED BY <1>1, <2>1, <2>2 DEF GoodQueries
<1>5. GoodTrackers'
  BY <1>1 DEF Inv, GoodTrackers, Asks
<1>6. GoodQueues' /\ SleepersGaveUpLock'
  BY <1>1, SameTables
<1>7. ASSUME NEW c \in Clients PROVE OnePlace(c)' /\ OneDoubt(c)'
  <2>1. OnePlace(c) /\ OnceEach(c) /\ OneDoubt(c)
    BY DEF Inv, OnePlace
  <2>2. OnceEach(c)' /\ OneDoubt(c)'
    BY <1>1, <2>1 DEF OnceEach, OneDoubt
  <2>3. /\ NetAt(c)' = NetAt(c) /\ AskedAt(c)' = AskedAt(c) /\ DeferredAt(c)' = DeferredAt(c)
        /\ QueuedAt(c)' = QueuedAt(c) /\ AsleepAt(c)' = AsleepAt(c) /\ call'[c] = call[c]
    BY <1>1 DEF NetAt, AskedAt, DeferredAt, QueuedAt, AsleepAt
  <2> QED BY <2>1, <2>2, <2>3, Stays
<1>8. Ownership' /\ Retirement'
  BY <1>1 DEF Inv, Ownership, Retirement, Owns
<1> QED BY <1>2, <1>3, <1>4, <1>5, <1>6, <1>7, <1>8 DEF Inv

(* Every action keeps the invariant.                                        *)
LEMMA NextInv == ASSUME Inv, [Next]_vars PROVE Inv'
<1>1. ASSUME NEW c \in Clients, ClientNext(c) PROVE Inv'
  <2>1. ASSUME NEW op \in Ops, NEW k \in Existing(KindOf(op)), NEW a \in Args(op), NEW s \in Servers,
               Call(c, op, k, a, s)
        PROVE  Inv'
    BY <2>1, CallInv
  <2>2. ASSUME NEW src \in Servers, Return(c, src) PROVE Inv'
    BY <2>2, ReturnInv
  <2>3. ASSUME NEW src \in Servers, NEW s \in Servers, Reacquire(c, src, s) PROVE Inv'
    BY <2>3, ReacquireInv
  <2> QED BY <1>1, <2>1, <2>2, <2>3 DEF ClientNext
<1>2. ASSUME NEW s \in Servers, NEW src \in Machines, ServerNext(s, src) PROVE Inv'
  <2>1. CASE PassOn(s, src)
    BY <2>1, PassOnInv
  <2>2. CASE Acquire(s, src)
    BY <2>2, AcquireInv
  <2>3. CASE Release(s, src)
    BY <2>3, ReleaseInv
  <2>4. CASE DestroyLock(s, src)
    BY <2>4, DestroyLockInv
  <2>5. CASE DestroyCV(s, src)
    BY <2>5, DestroyCVInv
  <2>6. CASE GetMV(s, src)
    BY <2>6, GetMVInv
  <2>7. CASE SetMV(s, src)
    BY <2>7, SetMVInv
  <2>8. CASE DestroyMV(s, src)
    BY <2>8, DestroyMVInv
  <2>9. CASE AskOwner(s, src)
    BY <2>9, AskOwnerInv
  <2>10. CASE NoSuchLock(s, src)
    BY <2>10, NoSuchLockInv
  <2>11. CASE PassOnCV(s, src)
    BY <2>11, PassOnCVInv
  <2>12. CASE WaitHere(s, src)
    BY <2>12, WaitHereInv
  <2>13. CASE WakeHere(s, src)
    BY <2>13, WakeHereInv
  <2>14. CASE DoesClientHaveLock(s, src)
    BY <2>14, DoesClientHaveLockInv
  <2>15. CASE Validated(s, src)
    BY <2>15, ValidatedInv
  <2>16. CASE NoMessageType(s, src)
    BY <2>16, NoMessageTypeInv
  <2>17. CASE Query(s, src)
    BY <2>17, QueryInv
  <2>18. CASE Answer(s, src)
    BY <2>18, AnswerInv
  <2>19. CASE Found(s, src)
    BY <2>19, FoundInv
  <2>20. CASE NotFound(s, src)
    BY <2>20, NotFoundInv
  <2> QED BY <1>2, <2>1, <2>2, <2>3, <2>4, <2>5, <2>6, <2>7, <2>8, <2>9, <2>10, <2>11, <2>12,
             <2>13, <2>14, <2>15, <2>16, <2>17, <2>18, <2>19, <2>20 DEF ServerNext
<1>3. CASE UNCHANGED vars
  BY <1>3, StutterInv
<1> QED BY <1>1, <1>2, <1>3 DEF Next

(* The invariant says what the properties do.                               *)
LEMMA OneTrace ==
    ASSUME Inv, NEW c \in Clients
    PROVE  /\ call[c] = Idle => Traces(c) = {}
           /\ \A x, y \in Traces(c) : x = y
<1>1. OnePlace(c) /\ OnceEach(c)
  BY DEF Inv, OnePlace
<1>2. /\ \A ch \in Channels : net[ch] \in Seq(Messages) /\ Single(net[ch], MailOf(c))
      /\ \A s \in Servers : queryQueue[s] \in Seq(Queries) /\ Single(queryQueue[s], QueryOf(c))
      /\ \A s \in Servers : cvLockTrackerList[s] \in Seq(Trackers) /\ Single(cvLockTrackerList[s], TrackerOf(c))
      /\ \A l \in LockNums : Single(lock[l].queue, {c})
      /\ \A k \in CVNums : Single(cond[k].queue, {c})
  BY <1>1 DEF Inv, StateOK, TypeOK, OnceEach
<1>3. ASSUME NEW x \in InNet(c)
      PROVE  \E ch \in NetAt(c) : \E j \in DOMAIN net[ch] : x = <<"net", ch, j>> /\ net[ch][j] \in MailOf(c)
  <2>1. PICK ch \in Channels : \E j \in DOMAIN net[ch] : x = <<"net", ch, j>> /\ IsAbout(net[ch][j], c)
    BY DEF InNet
  <2>2. PICK j \in DOMAIN net[ch] : x = <<"net", ch, j>> /\ IsAbout(net[ch][j], c)
    BY <2>1
  <2>3. net[ch][j] \in MailOf(c)
    <3>1. net[ch] \in Seq(Messages)
      BY <1>2
    <3>2. net[ch][j] \in Messages
      BY <3>1
    <3> QED BY <2>2, <3>2 DEF MailOf
  <2> QED BY <2>2, <2>3 DEF NetAt, Hit
<1>4. ASSUME NEW x \in InQueries(c)
      PROVE  \E s \in AskedAt(c) : \E j \in DOMAIN queryQueue[s] : x = <<"query", s, j>> /\ queryQueue[s][j] \in QueryOf(c)
  <2>1. PICK s \in Servers : \E j \in DOMAIN queryQueue[s] : x = <<"query", s, j>> /\ IsAbout(queryQueue[s][j].data, c)
    BY DEF InQueries
  <2>2. PICK j \in DOMAIN queryQueue[s] : x = <<"query", s, j>> /\ IsAbout(queryQueue[s][j].data, c)
    BY <2>1
  <2>3. queryQueue[s][j] \in QueryOf(c)
    <3>1. queryQueue[s] \in Seq(Queries)
      BY <1>2
    <3>2. queryQueue[s][j] \in Queries
      BY <3>1
    <3> QED BY <2>2, <3>2 DEF QueryOf
  <2> QED BY <2>2, <2>3 DEF AskedAt, Hit
<1>5. ASSUME NEW x \in InTrackers(c)
      PROVE  \E s \in DeferredAt(c) : \E j \in DOMAIN cvLockTrackerList[s] :
                x = <<"tracker", s, j>> /\ cvLockTrackerList[s][j] \in TrackerOf(c)
  <2>1. PICK s \in Servers : \E j \in DOMAIN cvLockTrackerList[s] :
           x = <<"tracker", s, j>> /\ cvLockTrackerList[s][j].client = c
    BY DEF InTrackers
  <2>2. PICK j \in DOMAIN cvLockTrackerList[s] : x = <<"tracker", s, j>> /\ cvLockTrackerList[s][j].client = c
    BY <2>1
  <2>3. cvLockTrackerList[s][j] \in TrackerOf(c)
    <3>1. cvLockTrackerList[s] \in Seq(Trackers)
      BY <1>2
    <3>2. cvLockTrackerList[s][j] \in Trackers
      BY <3>1
    <3> QED BY <2>2, <3>2 DEF TrackerOf
  <2> QED BY <2>2, <2>3 DEF DeferredAt, Hit
<1>6. ASSUME NEW x \in InLocks(c)
      PROVE  \E l \in QueuedAt(c) : \E j \in DOMAIN lock[l].queue : x = <<"lock", l, j>> /\ lock[l].queue[j] \in {c}
  BY DEF InLocks, QueuedAt, Hit
<1>7. ASSUME NEW x \in InConds(c)
      PROVE  \E k \in AsleepAt(c) : \E j \in DOMAIN cond[k].queue : x = <<"cv", k, j>> /\ cond[k].queue[j] \in {c}
  BY DEF InConds, AsleepAt, Hit
<1>8. /\ NetAt(c) \subseteq Channels /\ AskedAt(c) \subseteq Servers /\ DeferredAt(c) \subseteq Servers
      /\ QueuedAt(c) \subseteq LockNums /\ AsleepAt(c) \subseteq CVNums
  BY DEF NetAt, AskedAt, DeferredAt, QueuedAt, AsleepAt
<1>9. /\ \A ch \in NetAt(c) : /\ NetAt(c) = {ch} /\ AskedAt(c) = {} /\ DeferredAt(c) = {}
                              /\ QueuedAt(c) = {} /\ AsleepAt(c) = {}
      /\ \A s \in AskedAt(c) : /\ NetAt(c) = {} /\ AskedAt(c) = {s} /\ DeferredAt(c) = {}
                               /\ QueuedAt(c) = {} /\ AsleepAt(c) = {}
      /\ \A s \in DeferredAt(c) : /\ NetAt(c) = {} /\ AskedAt(c) = {} /\ DeferredAt(c) = {s}
                                  /\ QueuedAt(c) = {} /\ AsleepAt(c) = {}
      /\ \A l \in QueuedAt(c) : /\ NetAt(c) = {} /\ AskedAt(c) = {} /\ DeferredAt(c) = {}
                                /\ QueuedAt(c) = {l} /\ AsleepAt(c) = {}
      /\ \A k \in AsleepAt(c) : /\ NetAt(c) = {} /\ AskedAt(c) = {} /\ DeferredAt(c) = {}
                                /\ QueuedAt(c) = {} /\ AsleepAt(c) = {k}
      /\ call[c] = Idle => /\ NetAt(c) = {} /\ AskedAt(c) = {} /\ DeferredAt(c) = {}
                           /\ QueuedAt(c) = {} /\ AsleepAt(c) = {}
  BY <1>1, Alone
<1>10. \A x : x \in Traces(c) <=> \/ x \in InNet(c) \/ x \in InQueries(c) \/ x \in InTrackers(c)
                                  \/ x \in InLocks(c) \/ x \in InConds(c)
  BY DEF Traces
<1>11. call[c] = Idle => Traces(c) = {}
  BY <1>3, <1>4, <1>5, <1>6, <1>7, <1>9, <1>10
<1>12. ASSUME NEW x \in Traces(c), NEW y \in Traces(c) PROVE x = y
  <2>1. CASE NetAt(c) # {}
    <3>1. AskedAt(c) = {} /\ DeferredAt(c) = {} /\ QueuedAt(c) = {} /\ AsleepAt(c) = {}
      BY <1>9, <2>1
    <3>2. x \in InNet(c) /\ y \in InNet(c)
      BY <1>4, <1>5, <1>6, <1>7, <1>10, <1>12, <3>1
    <3>3. PICK ch \in NetAt(c) : \E j \in DOMAIN net[ch] : x = <<"net", ch, j>> /\ net[ch][j] \in MailOf(c)
      BY <1>3, <3>2
    <3>4. PICK dh \in NetAt(c) : \E j \in DOMAIN net[dh] : y = <<"net", dh, j>> /\ net[dh][j] \in MailOf(c)
      BY <1>3, <3>2
    <3>5. ch = dh /\ Single(net[ch], MailOf(c))
      BY <1>2, <1>8, <1>9, <3>3, <3>4
    <3> QED BY <3>3, <3>4, <3>5 DEF Single
  <2>2. CASE AskedAt(c) # {}
    <3>1. NetAt(c) = {} /\ DeferredAt(c) = {} /\ QueuedAt(c) = {} /\ AsleepAt(c) = {}
      BY <1>9, <2>2
    <3>2. x \in InQueries(c) /\ y \in InQueries(c)
      BY <1>3, <1>5, <1>6, <1>7, <1>10, <1>12, <3>1
    <3>3. PICK s \in AskedAt(c) : \E j \in DOMAIN queryQueue[s] : x = <<"query", s, j>> /\ queryQueue[s][j] \in QueryOf(c)
      BY <1>4, <3>2
    <3>4. PICK t \in AskedAt(c) : \E j \in DOMAIN queryQueue[t] : y = <<"query", t, j>> /\ queryQueue[t][j] \in QueryOf(c)
      BY <1>4, <3>2
    <3>5. s = t /\ Single(queryQueue[s], QueryOf(c))
      BY <1>2, <1>8, <1>9, <3>3, <3>4
    <3> QED BY <3>3, <3>4, <3>5 DEF Single
  <2>3. CASE DeferredAt(c) # {}
    <3>1. NetAt(c) = {} /\ AskedAt(c) = {} /\ QueuedAt(c) = {} /\ AsleepAt(c) = {}
      BY <1>9, <2>3
    <3>2. x \in InTrackers(c) /\ y \in InTrackers(c)
      BY <1>3, <1>4, <1>6, <1>7, <1>10, <1>12, <3>1
    <3>3. PICK s \in DeferredAt(c) : \E j \in DOMAIN cvLockTrackerList[s] :
             x = <<"tracker", s, j>> /\ cvLockTrackerList[s][j] \in TrackerOf(c)
      BY <1>5, <3>2
    <3>4. PICK t \in DeferredAt(c) : \E j \in DOMAIN cvLockTrackerList[t] :
             y = <<"tracker", t, j>> /\ cvLockTrackerList[t][j] \in TrackerOf(c)
      BY <1>5, <3>2
    <3>5. s = t /\ Single(cvLockTrackerList[s], TrackerOf(c))
      BY <1>2, <1>8, <1>9, <3>3, <3>4
    <3> QED BY <3>3, <3>4, <3>5 DEF Single
  <2>4. CASE QueuedAt(c) # {}
    <3>1. NetAt(c) = {} /\ AskedAt(c) = {} /\ DeferredAt(c) = {} /\ AsleepAt(c) = {}
      BY <1>9, <2>4
    <3>2. x \in InLocks(c) /\ y \in InLocks(c)
      BY <1>3, <1>4, <1>5, <1>7, <1>10, <1>12, <3>1
    <3>3. PICK l \in QueuedAt(c) : \E j \in DOMAIN lock[l].queue : x = <<"lock", l, j>> /\ lock[l].queue[j] \in {c}
      BY <1>6, <3>2
    <3>4. PICK n \in QueuedAt(c) : \E j \in DOMAIN lock[n].queue : y = <<"lock", n, j>> /\ lock[n].queue[j] \in {c}
      BY <1>6, <3>2
    <3>5. l = n /\ Single(lock[l].queue, {c})
      BY <1>2, <1>8, <1>9, <3>3, <3>4
    <3> QED BY <3>3, <3>4, <3>5 DEF Single
  <2>5. CASE AsleepAt(c) # {}
    <3>1. NetAt(c) = {} /\ AskedAt(c) = {} /\ DeferredAt(c) = {} /\ QueuedAt(c) = {}
      BY <1>9, <2>5
    <3>2. x \in InConds(c) /\ y \in InConds(c)
      BY <1>3, <1>4, <1>5, <1>6, <1>10, <1>12, <3>1
    <3>3. PICK k \in AsleepAt(c) : \E j \in DOMAIN cond[k].queue : x = <<"cv", k, j>> /\ cond[k].queue[j] \in {c}
      BY <1>7, <3>2
    <3>4. PICK n \in AsleepAt(c) : \E j \in DOMAIN cond[n].queue : y = <<"cv", n, j>> /\ cond[n].queue[j] \in {c}
      BY <1>7, <3>2
    <3>5. k = n /\ Single(cond[k].queue, {c})
      BY <1>2, <1>8, <1>9, <3>3, <3>4
    <3> QED BY <3>3, <3>4, <3>5 DEF Single
  <2> QED BY <1>3, <1>4, <1>5, <1>6, <1>7, <1>10, <1>12, <2>1, <2>2, <2>3, <2>4, <2>5
<1> QED BY <1>11, <1>12

(* The properties follow from it.                                           *)
LEMMA InvImplies ==
    ASSUME Inv
    PROVE  TypeOK /\ HoldersOwn /\ NoSecondAnswer /\ SleepersGaveUpLock
<1>1. TypeOK /\ SleepersGaveUpLock
  BY DEF Inv, StateOK
<1>2. HoldersOwn
  BY DEF Inv, Ownership, Owns, HoldersOwn
<1>3. NoSecondAnswer
  BY OneTrace DEF NoSecondAnswer
<1> QED BY <1>1, <1>2, <1>3

-----------------------------------------------------------------------------
(* What the servers ask each other                                         *)

PollMail == Questions \cup Findings

QuestionOf(s, id) == {x \in Messages : x.type = "DO_YOU_HAVE" /\ x.from = s /\ x.id = id}
FindingOf(s, id)  == {x \in Messages : x.type \in {"HAVE", "DO_NOT_HAVE"} /\ x.from = s /\ x.id = id}
DenialOf(s, id)   == {x \in Messages : x.type = "DO_NOT_HAVE" /\ x.from = s /\ x.id = id}
(* Questions of query q that are not about its object.                      *)
Misquoted(s, q) ==
    {x \in Messages : /\ x.type = "DO_YOU_HAVE" /\ x.from = s /\ x.id = q.id
                      /\ x.kind # KindOf(q.data.type) \/ x.obj # q.data.obj}

(* Server s has asked t in query id, and t's answer is not counted yet.     *)
Outstanding(s, t, id) ==
    \/ Hit(net[<<s, <<t, 1>>>>], QuestionOf(s, id))
    \/ Hit(net[<<t, <<s, 1>>>>], FindingOf(t, id))
HeardFrom(s, id) == {t \in Servers \ {s} : ~Outstanding(s, t, id)}

(* Server t has the object of query q, and says so if it is asked.          *)
HasIt(t, q) ==
    Mine(t, q.data.obj) /\ decodeIndex(q.data.obj) > 0 /\ Live(KindOf(q.data.type), q.data.obj)

(* A message of channel ch: who asks or answers, whom, and in which query.
   Requests are in mailbox 1 only if the object is another server's.        *)
GoodWord(x, ch) ==
    /\ x \in PollMail => x.from = ch[1] /\ ch[2][1] # ch[1]
    /\ x \in Questions => x.id < nextQueryID[ch[1]]
    /\ x \in Findings => x.id < nextQueryID[ch[2][1]]
    /\ x \in Requests /\ ch[2][2] = 1 => ~Mine(ch[2][1], x.obj)
Words == \A ch \in Channels : \A i \in DOMAIN net[ch] : GoodWord(net[ch][i], ch)

(* IDs are given once.                                                      *)
QueryIDs ==
    \A s \in Servers : \A i \in DOMAIN queryQueue[s] :
        /\ queryQueue[s][i].id < nextQueryID[s]
        /\ \A j \in DOMAIN queryQueue[s] : queryQueue[s][i].id = queryQueue[s][j].id => i = j

(* A server is asked once in a query, and answers once.                     *)
OneWord ==
    \A s \in Servers, id \in Nat :
        /\ \A ch \in Channels : Single(net[ch], QuestionOf(s, id)) /\ Single(net[ch], FindingOf(s, id))
        /\ \A t \in Servers : ~( /\ Hit(net[<<s, <<t, 1>>>>], QuestionOf(s, id))
                                 /\ Hit(net[<<t, <<s, 1>>>>], FindingOf(t, id)) )

(* No denial is counted but those of servers that were heard; the one that
   has the object was not, and does not deny it.                            *)
Polled(s, q) ==
    /\ ~Mine(s, q.data.obj)
    /\ q.numResponsesReceived <= Cardinality(HeardFrom(s, q.id))
    /\ \A t \in Servers \ {s} :
          /\ ~Hit(net[<<s, <<t, 1>>>>], Misquoted(s, q))
          /\ HasIt(t, q) => Outstanding(s, t, q.id) /\ ~Hit(net[<<t, <<s, 1>>>>], DenialOf(t, q.id))
Polls == \A s \in Servers : \A i \in DOMAIN queryQueue[s] : Polled(s, queryQueue[s][i])

Poll == Words /\ QueryIDs /\ OneWord /\ Polls

-----------------------------------------------------------------------------
(* The number of servers heard                                             *)

(* The other servers are one less than all.                                 *)
LEMMA OtherServersCount ==
    /\ IsFiniteSet(Servers) /\ Cardinality(Servers) = NumServers
    /\ \A s \in Servers : Cardinality(Servers \ {s}) = NumServers - 1
<1>1. NumServers \in Nat \ {0}
  BY MailAssumption
<1>2. IsFiniteSet(Servers) /\ Cardinality(Servers) = NumServers
  <2>1. 0 \in Int /\ NumServers - 1 \in Int
    BY <1>1
  <2>2. IsFiniteSet(0 .. NumServers - 1) /\ Cardinality(0 .. NumServers - 1) = IF 0 > NumServers - 1 THEN 0 ELSE (NumServers - 1) - 0 + 1
    BY <2>1, FS_Interval
  <2> QED BY <1>1, <2>2 DEF Servers
<1>3. \A s \in Servers : Cardinality(Servers \ {s}) = NumServers - 1
  BY <1>2, FS_RemoveElement
<1> QED BY <1>2, <1>3

(* The servers heard are a finite number, one less if t is not heard.       *)
LEMMA HeardCount ==
    ASSUME NEW s \in Servers, NEW id
    PROVE  /\ IsFiniteSet(HeardFrom(s, id)) /\ Cardinality(HeardFrom(s, id)) \in Nat
           /\ \A t \in Servers \ {s} :
                 Outstanding(s, t, id) => Cardinality(HeardFrom(s, id)) < NumServers - 1
<1>1. PICK H : H = HeardFrom(s, id)
  OBVIOUS
<1>2. H \subseteq Servers \ {s} /\ IsFiniteSet(Servers \ {s}) /\ NumServers \in Nat
  BY <1>1, OtherServersCount, FS_RemoveElement, MailAssumption DEF HeardFrom
<1>3. IsFiniteSet(H) /\ Cardinality(H) \in Nat
  BY <1>2, FS_Subset, FS_CardinalityType
<1>4. ASSUME NEW t \in Servers \ {s}, Outstanding(s, t, id)
      PROVE  Cardinality(H) < NumServers - 1
  <2>1. t \notin H
    BY <1>1, <1>4 DEF HeardFrom
  <2>2. H # Servers \ {s}
    BY <2>1
  <2>3. Cardinality(H) <= Cardinality(Servers \ {s})
        /\ (Cardinality(Servers \ {s}) = Cardinality(H) => H = Servers \ {s})
    BY <1>2, FS_Subset
  <2>4. Cardinality(Servers \ {s}) = NumServers - 1
    BY OtherServersCount
  <2> QED BY <1>2, <1>3, <2>2, <2>3, <2>4
<1> QED BY <1>1, <1>3, <1>4

(* A query whose object is there has not been denied by all others.         *)
LEMMA PollImplies ==
    ASSUME Inv, Poll, NEW s \in Servers, NEW i \in DOMAIN queryQueue[s], NEW q, q = queryQueue[s][i],
           Live(KindOf(q.data.type), q.data.obj), decodeIndex(q.data.obj) > 0
    PROVE  q.numResponsesReceived < NumServers - 1
<1>1. q \in Queries
  <2>1. queryQueue[s] \in Seq(Queries)
    BY DEF Inv, StateOK
  <2> QED BY <2>1
<1>2. PICK k \in Numbers : k = q.data.obj
  BY <1>1 DEF Queries, Requests
<1>3. PICK t \in Servers : t = k \div MaxObjects
  BY NumberFacts
<1>4. Polled(s, q)
  BY DEF Poll, Polls
<1>5. t # s /\ HasIt(t, q)
  BY <1>2, <1>3, <1>4 DEF Polled, HasIt, Mine
<1>6. Outstanding(s, t, q.id)
  BY <1>4, <1>5 DEF Polled
<1>7. Cardinality(HeardFrom(s, q.id)) \in Nat /\ Cardinality(HeardFrom(s, q.id)) < NumServers - 1
  BY <1>5, <1>6, HeardCount
<1>8. q.numResponsesReceived <= Cardinality(HeardFrom(s, q.id))
  BY <1>4 DEF Polled
<1>9. q.numResponsesReceived \in Nat /\ NumServers \in Nat
  BY <1>1, MailAssumption DEF Queries
<1> QED BY <1>7, <1>8, <1>9

-----------------------------------------------------------------------------
(* Steps that the servers' questions do not notice                         *)

(* Questions, answers to them and requests are different.                   *)
LEMMA Sorts ==
    /\ \A x \in Questions : x \notin Findings /\ x \notin Requests /\ x \in PollMail
    /\ \A x \in Findings : x \notin Questions /\ x \notin Requests /\ x \in PollMail
    /\ \A x \in Requests : x \notin PollMail
BY DEF Questions, Findings, Requests, PollMail, Ops, LockOps, UseOps, MVOps

(* The messages about query id.                                             *)
LEMMA PollSets ==
    ASSUME OneWord, NEW s \in Servers, NEW id \in Nat
    PROVE  /\ QuestionOf(s, id) \subseteq Questions /\ FindingOf(s, id) \subseteq Findings
           /\ DenialOf(s, id) \subseteq FindingOf(s, id)
           /\ \A q : q.id = id => Misquoted(s, q) \subseteq QuestionOf(s, id)
           /\ \A ch \in Channels :
                 /\ Single(net[ch], QuestionOf(s, id)) /\ Single(net[ch], FindingOf(s, id))
                 /\ Single(net[ch], DenialOf(s, id))
                 /\ \A q : q.id = id => Single(net[ch], Misquoted(s, q))
<1>1. /\ QuestionOf(s, id) \subseteq Questions /\ FindingOf(s, id) \subseteq Findings
      /\ DenialOf(s, id) \subseteq FindingOf(s, id)
      /\ \A q : q.id = id => Misquoted(s, q) \subseteq QuestionOf(s, id)
  BY Types DEF QuestionOf, FindingOf, DenialOf, Misquoted
<1>2. \A r, T, U : U \subseteq T /\ Single(r, T) => Single(r, U)
  BY DEF Single
<1>3. \A ch \in Channels : Single(net[ch], QuestionOf(s, id)) /\ Single(net[ch], FindingOf(s, id))
  BY DEF OneWord
<1> QED BY <1>1, <1>2, <1>3

(* Mail without questions and findings, and without requests for the
   mailbox 1 of the server that has the object.                             *)
Dull(mail) ==
    /\ mail \in Mails
    /\ \A b \in Boxes : \A k \in DOMAIN mail[b] : \A y : y = mail[b][k] =>
          /\ y \notin PollMail
          /\ y \in Requests /\ b[2] = 1 => ~Mine(b[1], y.obj)

(* Objects only go.                                                         *)
LiveLess ==
    /\ \A l \in LockNums : lock'[l].live => lock[l].live
    /\ \A k \in CVNums : cond'[k].live => cond[k].live
    /\ \A v \in MVNums : mv'[v].live => mv[v].live

(* Handling a message with dull mail removes it from what is asked and
   answered, and adds nothing.                                              *)
LEMMA DullHits ==
    ASSUME Inv, NEW src \in Machines, NEW b \in Boxes, net[<<src, b>>] # <<>>,
           NEW mail, Dull(mail), Handle(src, b, mail),
           NEW T, T \subseteq PollMail, \A ch \in Channels : Single(net[ch], T)
    PROVE  \A ch \in Channels :
              /\ Single(net'[ch], T)
              /\ Hit(net'[ch], T) <=> (Hit(net[ch], T) /\ (ch # <<src, b>> \/ First(src, b) \notin T))
<1>1. mail \in Mails /\ net \in [Channels -> Seq(Messages)]
  BY DEF Dull, Inv, StateOK
<1>2. \A b2 \in Boxes : ~Hit(mail[b2], T) /\ Single(mail[b2], T)
  BY DEF Dull, Hit, Single
<1>3. \A ch \in Channels : ch[2] \in Boxes
  BY BoxFacts
<1>4. \A ch \in Channels :
         /\ Hit(net'[ch], T) <=> \/ Hit(net[ch], T) /\ (ch # <<src, b>> \/ First(src, b) \notin T)
                                 \/ ch[1] = b[1] /\ Hit(mail[ch[2]], T)
         /\ (ch[1] = b[1] => /\ Single(mail[ch[2]], T)
                             /\ Hit(net[ch], T) /\ Hit(mail[ch[2]], T) => ch = <<src, b>> /\ First(src, b) \in T)
            => Single(net'[ch], T)
  BY <1>1, HandleKeeps
<1> QED BY <1>2, <1>3, <1>4

(* The counters of query IDs never go back.                                *)
IDsGrow == nextQueryID' \in [Servers -> Nat] /\ \A s \in Servers : nextQueryID[s] <= nextQueryID'[s]

(* What was in the mail stays a good word while IDs grow.                   *)
LEMMA KeptWord ==
    ASSUME Inv, Words, NEW ch \in Channels, NEW i \in DOMAIN net[ch], NEW x, x = net[ch][i],
           IDsGrow
    PROVE  GoodWord(x, ch)'
<1>1. x \in Messages /\ GoodMessage(x, ch[2]) /\ GoodWord(x, ch) /\ nextQueryID \in [Servers -> Nat]
  <2>1. net[ch] \in Seq(Messages)
    BY DEF Inv, StateOK
  <2>2. x \in Messages
    BY <2>1
  <2> QED BY <2>2 DEF Inv, GoodMail, Words, StateOK, TypeOK
<1>2. CASE x \in Questions
  <2>1. x.from \in Servers /\ x.id \in Nat /\ x \in PollMail
    BY <1>2 DEF Questions, PollMail
  <2>2. ch[1] \in Servers /\ x.id < nextQueryID[ch[1]]
    BY <1>1, <1>2, <2>1 DEF GoodWord
  <2>3. x.id < nextQueryID'[ch[1]]
    BY <1>1, <2>1, <2>2 DEF IDsGrow
  <2>4. x \notin Findings /\ x \notin Requests
    BY <1>2, Sorts
  <2> QED BY <1>1, <2>1, <2>3, <2>4 DEF GoodWord
<1>3. CASE x \in Findings
  <2>1. x.type \in {"DO_YOU_HAVE", "HAVE", "DO_NOT_HAVE"} /\ x.id \in Nat /\ x \in PollMail
    BY <1>3 DEF Findings, PollMail
  <2>2. ch[2][1] \in Servers /\ x.id < nextQueryID[ch[2][1]]
    BY <1>1, <1>3, <2>1 DEF GoodWord, GoodMessage
  <2>3. x.id < nextQueryID'[ch[2][1]]
    BY <1>1, <2>1, <2>2 DEF IDsGrow
  <2>4. x \notin Questions /\ x \notin Requests
    BY <1>3, Sorts
  <2> QED BY <1>1, <2>1, <2>3, <2>4 DEF GoodWord
<1>4. CASE x \notin PollMail
  BY <1>1, <1>4 DEF GoodWord, PollMail
<1> QED BY <1>2, <1>3, <1>4 DEF PollMail

(* What machine m sends are good words.                                     *)
Sent(m, mail) ==
    \A b \in Boxes : \A k \in DOMAIN mail[b] : \A y : y = mail[b][k] => GoodWord(y, <<m, b>>)

(* The words stay good if what is sent is, and IDs grow.                    *)
LEMMA WordsStep ==
    ASSUME Inv, Words, NEW src \in Machines, NEW b \in Boxes, net[<<src, b>>] # <<>>,
           NEW mail \in Mails, Handle(src, b, mail),
           Sent(b[1], mail)', IDsGrow
    PROVE  Words'
<1> SUFFICES ASSUME NEW ch \in Channels, NEW i \in DOMAIN net'[ch]
             PROVE  GoodWord(net[ch][i], ch)'
  BY DEF Words
<1>1. net \in [Channels -> Seq(Messages)]
  BY DEF Inv, StateOK
<1>2. PICK x : x = net'[ch][i]
  OBVIOUS
<1>3. \/ \E j \in DOMAIN net[ch] : x = net[ch][j] /\ (ch = <<src, b>> => j # 1)
      \/ ch[1] = b[1] /\ \E k \in DOMAIN mail[ch[2]] : x = mail[ch[2]][k]
  BY <1>1, <1>2, HandleOrigin
<1>4. CASE \E j \in DOMAIN net[ch] : x = net[ch][j]
  <2>1. PICK j \in DOMAIN net[ch] : x = net[ch][j]
    BY <1>4
  <2>2. GoodWord(x, ch)'
    BY <2>1, KeptWord
  <2> QED BY <1>2, <2>2
<1>5. CASE ch[1] = b[1] /\ \E k \in DOMAIN mail[ch[2]] : x = mail[ch[2]][k]
  <2>1. ch[2] \in Boxes /\ ch = <<b[1], ch[2]>>
    BY <1>5, BoxFacts
  <2>2. PICK k \in DOMAIN mail[ch[2]] : x = mail[ch[2]][k]
    BY <1>5
  <2>3. GoodWord(x, <<b[1], ch[2]>>)'
    BY <2>1, <2>2 DEF Sent
  <2> QED BY <1>2, <2>1, <2>3
<1> QED BY <1>3, <1>4, <1>5

(* An object that is still there was there before.                          *)
LEMMA LiveKept ==
    ASSUME LiveLess, NEW op \in Ops, NEW k \in Existing(KindOf(op))
    PROVE  Live(KindOf(op), k)' => Live(KindOf(op), k)
<1>1. CASE KindOf(op) = "lock"
  <2>1. k \in LockNums
    BY <1>1 DEF Existing
  <2> QED BY <1>1, <2>1 DEF Live, LiveLess
<1>2. CASE KindOf(op) = "cv"
  <2>1. k \in CVNums
    BY <1>2 DEF Existing
  <2> QED BY <1>2, <2>1 DEF Live, LiveLess
<1>3. CASE KindOf(op) = "mv"
  <2>1. k \in MVNums
    BY <1>3 DEF Existing
  <2> QED BY <1>3, <2>1 DEF Live, LiveLess
<1> QED BY <1>1, <1>2, <1>3 DEF KindOf

(* What is said in query q goes on: who was heard stays heard, and who has the
   object is still asked or says so.                                        *)
SameWord(s, q) ==
    \A t \in Servers \ {s} :
        /\ Outstanding(s, t, q.id)' => Outstanding(s, t, q.id)
        /\ HasIt(t, q) /\ Outstanding(s, t, q.id) => Outstanding(s, t, q.id)'
        /\ HasIt(t, q) /\ Hit(net'[<<t, <<s, 1>>>>], DenialOf(t, q.id)) => Hit(net[<<t, <<s, 1>>>>], DenialOf(t, q.id))
        /\ Hit(net'[<<s, <<t, 1>>>>], Misquoted(s, q)) => Hit(net[<<s, <<t, 1>>>>], Misquoted(s, q))

(* Query r is query q, or q with one more server heard.                     *)
Counted(s, q, r) ==
    /\ q \in Queries /\ r \in Queries /\ r.id = q.id /\ r.data = q.data
    /\ \/ r.numResponsesReceived = q.numResponsesReceived
       \/ /\ r.numResponsesReceived = q.numResponsesReceived + 1
          /\ \E t \in Servers \ {s} : Outstanding(s, t, q.id) /\ ~Outstanding(s, t, q.id)'

(* The servers heard do not get fewer.                                      *)
LEMMA HeardMore ==
    ASSUME NEW s \in Servers, NEW q, SameWord(s, q)
    PROVE  /\ Cardinality(HeardFrom(s, q.id)) \in Nat /\ Cardinality(HeardFrom(s, q.id)') \in Nat
           /\ Cardinality(HeardFrom(s, q.id)) <= Cardinality(HeardFrom(s, q.id)')
           /\ \A t \in Servers \ {s} : Outstanding(s, t, q.id) /\ ~Outstanding(s, t, q.id)'
                 => Cardinality(HeardFrom(s, q.id)) + 1 <= Cardinality(HeardFrom(s, q.id)')
<1>1. PICK G, H : G = HeardFrom(s, q.id) /\ H = HeardFrom(s, q.id)'
  OBVIOUS
<1>2. G \subseteq H /\ H \subseteq Servers \ {s}
  BY <1>1 DEF HeardFrom, SameWord
<1>3. IsFiniteSet(H)
  BY <1>2, OtherServersCount, FS_RemoveElement, FS_Subset
<1>4. /\ IsFiniteSet(G) /\ Cardinality(G) \in Nat /\ Cardinality(H) \in Nat /\ Cardinality(G) <= Cardinality(H)
      /\ Cardinality(H) = Cardinality(G) => H = G
  BY <1>2, <1>3, FS_Subset, FS_CardinalityType
<1>5. ASSUME NEW t \in Servers \ {s}, Outstanding(s, t, q.id), ~Outstanding(s, t, q.id)'
      PROVE  Cardinality(G) + 1 <= Cardinality(H)
  <2>1. t \in H /\ t \notin G
    BY <1>1, <1>5 DEF HeardFrom
  <2>2. Cardinality(H) # Cardinality(G)
    BY <1>4, <2>1
  <2> QED BY <1>4, <2>2
<1> QED BY <1>1, <1>4, <1>5

(* A query that goes on, or counts a server newly heard, stays right.       *)
LEMMA PolledStays ==
    ASSUME LiveLess, NEW s \in Servers, NEW q, q.data.obj \in Existing(KindOf(q.data.type)),
           Polled(s, q), SameWord(s, q), NEW r, Counted(s, q, r)
    PROVE  Polled(s, r)'
<1>1. q.data.type \in Ops
  BY DEF Counted, Queries, Requests
<1>2. Live(KindOf(q.data.type), q.data.obj)' => Live(KindOf(q.data.type), q.data.obj)
  BY <1>1, LiveKept
<1>3. \A t : HasIt(t, r)' => HasIt(t, q)
  BY <1>2 DEF HasIt, Mine, decodeIndex, Counted
<1>4. r.numResponsesReceived <= Cardinality(HeardFrom(s, r.id)')
  <2>1. q.numResponsesReceived <= Cardinality(HeardFrom(s, q.id))
    BY DEF Polled
  <2>2. q.numResponsesReceived \in Nat /\ r.numResponsesReceived \in Nat
    BY DEF Counted, Queries
  <2>3. HeardFrom(s, r.id)' = HeardFrom(s, q.id)'
    BY DEF Counted, HeardFrom, Outstanding
  <2> QED BY <2>1, <2>2, <2>3, HeardMore DEF Counted
<1>5. ~Mine(s, r.data.obj)
  BY DEF Polled, Counted
<1>6. ASSUME NEW t \in Servers \ {s}
      PROVE  /\ ~Hit(net'[<<s, <<t, 1>>>>], Misquoted(s, q))
             /\ HasIt(t, r)' => Outstanding(s, t, q.id)' /\ ~Hit(net'[<<t, <<s, 1>>>>], DenialOf(t, q.id))
  BY <1>3 DEF SameWord, Polled
<1>7. Misquoted(s, q)' = Misquoted(s, q) /\ \A t : DenialOf(t, q.id)' = DenialOf(t, q.id)
  BY DEF Misquoted, DenialOf
<1>8. Misquoted(s, r) = Misquoted(s, q) /\ \A t : DenialOf(t, r.id) = DenialOf(t, q.id)
  BY DEF Misquoted, DenialOf, Counted
<1>9. r.id = q.id
  BY DEF Counted
<1> QED BY <1>4, <1>5, <1>6, <1>7, <1>8, <1>9 DEF Polled, Mine

(* The queries of a server are typed, and about what exists.                *)
LEMMA QueryFacts ==
    ASSUME Inv, NEW s \in Servers, NEW i \in DOMAIN queryQueue[s], NEW q, q = queryQueue[s][i]
    PROVE  /\ q \in Queries /\ q.id \in Nat /\ q.numResponsesReceived \in Nat /\ q.data \in Requests
           /\ q.data.obj \in Existing(KindOf(q.data.type)) /\ q.data.type \in Ops
<1>1. queryQueue[s] \in Seq(Queries)
  BY DEF Inv, StateOK
<1>2. q \in Queries
  BY <1>1
<1>3. q.id \in Nat /\ q.numResponsesReceived \in Nat /\ q.data \in Requests
  BY <1>2 DEF Queries
<1>4. GoodRequest(q.data, <<s, 1>>) /\ q.data.type \in Ops
  BY <1>3 DEF Inv, GoodQueries, Requests
<1> QED BY <1>2, <1>3, <1>4 DEF GoodRequest

(* IDs may stay as they are.                                                *)
LEMMA SameIDs ==
    ASSUME Inv, nextQueryID' = nextQueryID
    PROVE  IDsGrow
<1>1. nextQueryID \in [Servers -> Nat]
  BY DEF Inv, StateOK, TypeOK
<1>2. \A s \in Servers : nextQueryID[s] \in Nat /\ nextQueryID[s] <= nextQueryID[s]
  BY <1>1
<1> QED BY <1>1, <1>2 DEF IDsGrow

(* No question or answer comes or goes.                                     *)
Untold ==
    \A T : T \subseteq PollMail /\ (\A ch \in Channels : Single(net[ch], T))
           => \A ch \in Channels : Single(net'[ch], T) /\ (Hit(net'[ch], T) <=> Hit(net[ch], T))

(* A step that leaves questions, answers and queries alone keeps Poll.      *)
LEMMA UntoldStep ==
    ASSUME Inv, Poll, Words', Untold, queryQueue' = queryQueue, nextQueryID' = nextQueryID, LiveLess
    PROVE  Poll'
<1>3. QueryIDs'
  BY DEF Poll, QueryIDs
<1>4. ASSUME NEW T, T \subseteq PollMail, \A ch \in Channels : Single(net[ch], T)
      PROVE  \A ch \in Channels : Single(net'[ch], T) /\ (Hit(net'[ch], T) <=> Hit(net[ch], T))
  BY <1>4 DEF Untold
<1>5. ASSUME NEW s \in Servers, NEW id \in Nat, NEW ch \in Channels
      PROVE  /\ Single(net'[ch], QuestionOf(s, id)) /\ Single(net'[ch], FindingOf(s, id))
             /\ Hit(net'[ch], QuestionOf(s, id)) <=> Hit(net[ch], QuestionOf(s, id))
             /\ Hit(net'[ch], FindingOf(s, id)) <=> Hit(net[ch], FindingOf(s, id))
             /\ Hit(net'[ch], DenialOf(s, id)) <=> Hit(net[ch], DenialOf(s, id))
             /\ \A q : q.id = id => (Hit(net'[ch], Misquoted(s, q)) <=> Hit(net[ch], Misquoted(s, q)))
  <2>1. /\ QuestionOf(s, id) \subseteq Questions /\ FindingOf(s, id) \subseteq Findings
        /\ DenialOf(s, id) \subseteq FindingOf(s, id)
        /\ \A q : q.id = id => Misquoted(s, q) \subseteq QuestionOf(s, id)
        /\ \A dh \in Channels :
              /\ Single(net[dh], QuestionOf(s, id)) /\ Single(net[dh], FindingOf(s, id))
              /\ Single(net[dh], DenialOf(s, id))
              /\ \A q : q.id = id => Single(net[dh], Misquoted(s, q))
    BY PollSets DEF Poll
  <2>2. QuestionOf(s, id) \subseteq PollMail /\ FindingOf(s, id) \subseteq PollMail /\ DenialOf(s, id) \subseteq PollMail
    BY <2>1 DEF PollMail
  <2>3. \A q : q.id = id => Misquoted(s, q) \subseteq PollMail
    BY <2>1 DEF PollMail
  <2>4. Single(net'[ch], QuestionOf(s, id)) /\ (Hit(net'[ch], QuestionOf(s, id)) <=> Hit(net[ch], QuestionOf(s, id)))
    BY <1>4, <2>1, <2>2
  <2>5. Single(net'[ch], FindingOf(s, id)) /\ (Hit(net'[ch], FindingOf(s, id)) <=> Hit(net[ch], FindingOf(s, id)))
    BY <1>4, <2>1, <2>2
  <2>6. Hit(net'[ch], DenialOf(s, id)) <=> Hit(net[ch], DenialOf(s, id))
    BY <1>4, <2>1, <2>2
  <2>7. ASSUME NEW q, q.id = id
        PROVE  Hit(net'[ch], Misquoted(s, q)) <=> Hit(net[ch], Misquoted(s, q))
    BY <1>4, <2>1, <2>3, <2>7
  <2> QED BY <2>4, <2>5, <2>6, <2>7
<1>6. \A s, t \in Servers : <<s, <<t, 1>>>> \in Channels
  BY BoxFacts DEF Channels
<1>7. OneWord'
  <2> SUFFICES ASSUME NEW s \in Servers, NEW id \in Nat
               PROVE  /\ \A ch \in Channels : Single(net'[ch], QuestionOf(s, id)) /\ Single(net'[ch], FindingOf(s, id))
                      /\ \A t \in Servers : ~( /\ Hit(net'[<<s, <<t, 1>>>>], QuestionOf(s, id))
                                               /\ Hit(net'[<<t, <<s, 1>>>>], FindingOf(t, id)) )
    BY DEF OneWord, QuestionOf, FindingOf
  <2> QED BY <1>5, <1>6 DEF Poll, OneWord
<1>8. Polls'
  <2> SUFFICES ASSUME NEW s \in Servers, NEW i \in DOMAIN queryQueue[s]
               PROVE  Polled(s, queryQueue[s][i])'
    BY DEF Polls
  <2>1. PICK q : q = queryQueue[s][i]
    OBVIOUS
  <2>2. q \in Queries /\ q.id \in Nat /\ q.data.obj \in Existing(KindOf(q.data.type)) /\ Polled(s, q)
    BY <2>1, QueryFacts DEF Poll, Polls
  <2>3. SameWord(s, q)
    <3> SUFFICES ASSUME NEW t \in Servers \ {s}
                 PROVE  /\ Outstanding(s, t, q.id)' <=> Outstanding(s, t, q.id)
                        /\ Hit(net'[<<s, <<t, 1>>>>], Misquoted(s, q)) <=> Hit(net[<<s, <<t, 1>>>>], Misquoted(s, q))
                        /\ Hit(net'[<<t, <<s, 1>>>>], DenialOf(t, q.id)) <=> Hit(net[<<t, <<s, 1>>>>], DenialOf(t, q.id))
      BY DEF SameWord
    <3>1. Hit(net'[<<s, <<t, 1>>>>], QuestionOf(s, q.id)) <=> Hit(net[<<s, <<t, 1>>>>], QuestionOf(s, q.id))
      BY <1>5, <1>6, <2>2
    <3>2. Hit(net'[<<t, <<s, 1>>>>], FindingOf(t, q.id)) <=> Hit(net[<<t, <<s, 1>>>>], FindingOf(t, q.id))
      BY <1>5, <1>6, <2>2
    <3>3. Outstanding(s, t, q.id)' <=> Outstanding(s, t, q.id)
      BY <3>1, <3>2 DEF Outstanding, QuestionOf, FindingOf
    <3>4. Hit(net'[<<s, <<t, 1>>>>], Misquoted(s, q)) <=> Hit(net[<<s, <<t, 1>>>>], Misquoted(s, q))
      BY <1>5, <1>6, <2>2
    <3>5. Hit(net'[<<t, <<s, 1>>>>], DenialOf(t, q.id)) <=> Hit(net[<<t, <<s, 1>>>>], DenialOf(t, q.id))
      BY <1>5, <1>6, <2>2
    <3> QED BY <3>3, <3>4, <3>5
  <2>4. Polled(s, q)'
    BY <2>2, <2>3, PolledStays DEF Counted
  <2>5. Polled(s, queryQueue[s][i])' <=> Polled(s, q)'
    BY <2>1 DEF Polled
  <2> QED BY <2>4, <2>5
<1> QED BY <1>3, <1>7, <1>8 DEF Poll

(* A step that handles no question or answer, sends none, starts and ends no
   query.                                                                   *)
Quiet(src, b, mail) ==
    /\ net[<<src, b>>] # <<>> /\ First(src, b) \notin PollMail
    /\ Dull(mail) /\ Handle(src, b, mail)
    /\ queryQueue' = queryQueue /\ nextQueryID' = nextQueryID
    /\ LiveLess

(* A quiet step does that.                                                  *)
LEMMA QuietStep ==
    ASSUME Inv, Poll, NEW src \in Machines, NEW b \in Boxes, NEW mail, Quiet(src, b, mail)
    PROVE  Poll'
<1>1. /\ net[<<src, b>>] # <<>> /\ First(src, b) \notin PollMail /\ Dull(mail) /\ Handle(src, b, mail)
      /\ queryQueue' = queryQueue /\ nextQueryID' = nextQueryID /\ LiveLess /\ mail \in Mails
  BY DEF Quiet, Dull
<1>2. Words'
  <2>1. IDsGrow
    BY <1>1, SameIDs
  <2>2. Sent(b[1], mail)'
    <3> SUFFICES ASSUME NEW b2 \in Boxes, NEW k \in DOMAIN mail[b2], NEW y, y = mail[b2][k]
                 PROVE  GoodWord(y, <<b[1], b2>>)'
      BY DEF Sent
    <3>1. y \notin PollMail /\ (y \in Requests /\ b2[2] = 1 => ~Mine(b2[1], y.obj))
      BY <1>1 DEF Dull
    <3> QED BY <3>1 DEF GoodWord, PollMail, Mine
  <2> QED BY <1>1, <2>1, <2>2, WordsStep DEF Poll
<1>3. Untold
  <2> SUFFICES ASSUME NEW T, T \subseteq PollMail, \A ch \in Channels : Single(net[ch], T)
               PROVE  \A ch \in Channels : Single(net'[ch], T) /\ (Hit(net'[ch], T) <=> Hit(net[ch], T))
    BY DEF Untold
  <2>1. \A ch \in Channels :
           /\ Single(net'[ch], T)
           /\ Hit(net'[ch], T) <=> (Hit(net[ch], T) /\ (ch # <<src, b>> \/ First(src, b) \notin T))
    BY <1>1, DullHits
  <2>2. First(src, b) \notin T
    BY <1>1
  <2> QED BY <2>1, <2>2
<1> QED BY <1>1, <1>2, <1>3, UntoldStep

-----------------------------------------------------------------------------
(* The handlers that have nothing to do with the servers' questions        *)

(* The messages of requests and of the transactions between a lock and a
   condition.                                                               *)
UseTypes == Ops \cup {"REPLY", "DOES_CLIENT_HAVE_LOCK", "CV_LOCK_TRACKER_RESPONSE"}

(* A message that is no question or answer is handled; queries stay.        *)
InUse(src, b) ==
    /\ net[<<src, b>>] # <<>> /\ First(src, b).type \in UseTypes
    /\ queryQueue' = queryQueue /\ nextQueryID' = nextQueryID
    /\ LiveLess

(* They are no questions or answers to them.                                *)
LEMMA UseTypesFacts ==
    /\ "DO_YOU_HAVE" \notin UseTypes /\ "HAVE" \notin UseTypes /\ "DO_NOT_HAVE" \notin UseTypes
    /\ \A x \in Messages : x.type \in UseTypes => x \notin PollMail
<1>1. "DO_YOU_HAVE" \notin UseTypes /\ "HAVE" \notin UseTypes /\ "DO_NOT_HAVE" \notin UseTypes
  BY DEF UseTypes, Ops, LockOps, UseOps, MVOps
<1> QED BY <1>1 DEF PollMail, Questions, Findings

(* The message is dropped.                                                  *)
LEMMA QuietNothing ==
    ASSUME Inv, Poll, NEW src \in Machines, NEW b \in Boxes, InUse(src, b), Handle(src, b, Nothing)
    PROVE  Poll'
<1>1. First(src, b) \notin PollMail
  BY UseTypesFacts, Handled DEF InUse
<1>2. Dull(Nothing)
  BY NothingMail DEF Dull
<1>3. PICK mail : mail = Nothing
  OBVIOUS
<1>4. Quiet(src, b, mail)
  BY <1>1, <1>2, <1>3 DEF Quiet, InUse
<1> QED BY <1>4, QuietStep

(* It is passed on, or answered by another.                                 *)
LEMMA QuietOnly ==
    ASSUME Inv, Poll, NEW src \in Machines, NEW b \in Boxes, InUse(src, b),
           NEW y \in Messages, y.type \in UseTypes, y.to[2] = 1 => ~Mine(y.to[1], y.obj),
           Handle(src, b, Only(y))
    PROVE  Poll'
<1>1. First(src, b) \notin PollMail /\ y \notin PollMail
  BY UseTypesFacts, Handled DEF InUse
<1>2. Dull(Only(y))
  <2>1. Only(y) \in Mails /\ \A b2 \in Boxes : \A k \in DOMAIN Only(y)[b2] : b2 = y.to /\ Only(y)[b2][k] = y
    BY OnlyMail
  <2> QED BY <1>1, <2>1 DEF Dull
<1>3. PICK mail : mail = Only(y)
  OBVIOUS
<1>4. Quiet(src, b, mail)
  BY <1>1, <1>2, <1>3 DEF Quiet, InUse
<1> QED BY <1>4, QuietStep

(* Clients are answered.                                                    *)
LEMMA QuietReplies ==
    ASSUME Inv, Poll, NEW src \in Machines, NEW b \in Boxes, InUse(src, b),
           NEW q \in Seq(Machines), Handle(src, b, Replies(q))
    PROVE  Poll'
<1>1. First(src, b) \notin PollMail
  BY UseTypesFacts, Handled DEF InUse
<1>2. Dull(Replies(q))
  <2>1. /\ Replies(q) \in Mails
        /\ \A b2 \in Boxes : \A k \in DOMAIN Replies(q)[b2] : b2[2] = 0 /\ Replies(q)[b2][k] = Reply(b2[1], -1)
    BY RepliesMail
  <2>2. \A c : Reply(c, -1).type = "REPLY"
    BY DEF Reply
  <2>3. \A y : y.type = "REPLY" => y \notin PollMail
    BY DEF PollMail, Questions, Findings
  <2> QED BY <2>1, <2>2, <2>3 DEF Dull
<1>3. PICK mail : mail = Replies(q)
  OBVIOUS
<1>4. Quiet(src, b, mail)
  BY <1>1, <1>2, <1>3 DEF Quiet, InUse
<1> QED BY <1>4, QuietStep

(* No operation brings an object back.                                      *)
LEMMA LockGoes ==
    ASSUME NEW L \in Locks, NEW c
    PROVE  Acquired(L, c).live = L.live /\ (Released(L, c).live => L.live) /\ ~Dead(L).live
BY DEF Locks, Acquired, Released, Dead

(* Nor does one on a condition.                                             *)
LEMMA CondGoes ==
    ASSUME NEW C \in Conds, NEW c, NEW w, NEW op
    PROVE  (Waited(C, w, c).live => C.live) /\ AfterWake(C, op, w).live = C.live
BY DEF Conds, Waited, AfterWake, Dead

(* What one object becomes leaves the others alone.                         *)
LEMMA LockLess ==
    ASSUME Inv, NEW k \in LockNums, NEW M, lock' = [lock EXCEPT ![k] = M], M.live => lock[k].live,
           cond' = cond, mv' = mv
    PROVE  LiveLess
<1>1. lock \in [LockNums -> Locks]
  BY OneLock
<1> QED BY <1>1 DEF LiveLess

(* The same for a condition.                                                *)
LEMMA CondLess ==
    ASSUME Inv, NEW k \in CVNums, NEW D, cond' = [cond EXCEPT ![k] = D], D.live => cond[k].live,
           lock' = lock, mv' = mv
    PROVE  LiveLess
<1>1. cond \in [CVNums -> Conds]
  BY OneCond
<1> QED BY <1>1 DEF LiveLess

(* Nothing happens to any object.                                           *)
LEMMA SameLive ==
    ASSUME lock' = lock, cond' = cond, mv' = mv
    PROVE  LiveLess
BY DEF LiveLess

(* A short sequence of machines.                                            *)
LEMMA OneMachine ==
    ASSUME NEW c \in Machines
    PROVE  <<c>> \in Seq(Machines)
OBVIOUS

(* So is the client that gets a lock.                                       *)
LEMMA OwnerSeq ==
    ASSUME Inv, NEW k \in LockNums, NEW c \in Machines
    PROVE  NextOwner(lock[k], c) \in Seq(Machines)
<1>1. /\ lock[k].queue # <<>> => Head(lock[k].queue) = lock[k].queue[1] /\ 1 \in DOMAIN lock[k].queue
      /\ \A i \in DOMAIN lock[k].queue : lock[k].queue[i] \in Clients
  BY OneLock
<1>2. lock[k].queue # <<>> => Head(lock[k].queue) \in Machines
  BY <1>1, BoxFacts
<1>3. <<>> \in Seq(Machines)
  OBVIOUS
<1> QED BY <1>2, <1>3, OneMachine DEF NextOwner

(* A request that is passed on goes to mailbox 1 only if the object is of
   another server.                                                          *)
LEMMA PassOnPoll ==
    ASSUME Inv, Poll, NEW s \in Servers, NEW src \in Machines, PassOn(s, src) \/ PassOnCV(s, src)
    PROVE  Poll'
<1>1. PICK b \in Boxes : b = <<s, 0>>
  BY BoxFacts
<1>2. PICK m : m = First(src, b)
  OBVIOUS
<1>3. /\ net[<<src, b>>] # <<>> /\ m.type \in Ops /\ ~Mine(s, m.obj)
      /\ Handle(src, b, Only([m EXCEPT !.to = <<s, 1>>]))
      /\ UNCHANGED <<tableVars, serverVars, clientVars>>
  BY <1>1, <1>2 DEF PassOn, PassOnCV, HasLock, At, Arrived, Message, Ops
<1>4. m \in Requests
  BY <1>2, <1>3, Requested
<1>5. PICK y : y = [m EXCEPT !.to = <<s, 1>>]
  OBVIOUS
<1>6. y \in Requests /\ y \in Messages /\ y.to = <<s, 1>> /\ y.type = m.type /\ y.obj = m.obj
  BY <1>4, <1>5, BoxFacts DEF Requests, Messages
<1>7. InUse(src, b)
  BY <1>2, <1>3, SameLive DEF InUse, tableVars, serverVars, UseTypes
<1>8. y.type \in UseTypes /\ (y.to[2] = 1 => ~Mine(y.to[1], y.obj))
  BY <1>3, <1>6 DEF UseTypes
<1> QED BY <1>3, <1>5, <1>6, <1>7, <1>8, QuietOnly

(* A lock is asked for.                                                     *)
LEMMA AcquirePoll == ASSUME Inv, Poll, NEW s \in Servers, NEW src \in Machines, Acquire(s, src) PROVE Poll'
<1>1. PICK b \in Boxes : b = <<s, 0>>
  BY BoxFacts
<1>2. PICK m : m = First(src, b)
  OBVIOUS
<1>3. /\ net[<<src, b>>] # <<>> /\ m.type = "ACQUIRE"
      /\ lock' = [lock EXCEPT ![m.obj] = Acquired(lock[m.obj], m.from)]
      /\ Handle(src, b, Replies(AcquireAnswers(lock[m.obj], m.from)))
      /\ UNCHANGED <<cond, mv, serverVars, clientVars>>
  BY <1>1, <1>2 DEF Acquire, Local, At, Arrived, Message
<1>4. m.type \in LockOps /\ m.type \in Ops
  BY <1>3 DEF Ops, LockOps
<1>5. m.obj \in LockNums /\ m.from \in Machines
  <2>1. m.obj \in Existing(KindOf(m.type)) /\ m.from \in Machines
    BY <1>2, <1>3, <1>4, Requested
  <2> QED BY <1>4, <2>1, OpFacts
<1>6. PICK q \in Seq(Machines) : q = AcquireAnswers(lock[m.obj], m.from)
  <2>1. <<>> \in Seq(Machines)
    OBVIOUS
  <2> QED BY <1>5, <2>1, OneMachine DEF AcquireAnswers
<1>7. Acquired(lock[m.obj], m.from).live => lock[m.obj].live
  <2>1. PICK L \in Locks : L = lock[m.obj]
    BY <1>5, OneLock
  <2>2. Acquired(L, m.from).live = L.live
    BY LockGoes
  <2> QED BY <2>1, <2>2
<1>8. LiveLess
  BY <1>3, <1>5, <1>7, LockLess
<1>9. InUse(src, b)
  BY <1>2, <1>3, <1>4, <1>8 DEF InUse, serverVars, UseTypes
<1> QED BY <1>3, <1>6, <1>9, QuietReplies

(* A lock is given back.                                                    *)
LEMMA ReleasePoll == ASSUME Inv, Poll, NEW s \in Servers, NEW src \in Machines, Release(s, src) PROVE Poll'
<1>1. PICK b \in Boxes : b = <<s, 0>>
  BY BoxFacts
<1>2. PICK m : m = First(src, b)
  OBVIOUS
<1>3. /\ net[<<src, b>>] # <<>> /\ m.type = "RELEASE"
      /\ lock' = [lock EXCEPT ![m.obj] = Released(lock[m.obj], m.from)]
      /\ Handle(src, b, Replies(<<m.from>> \o NextOwner(lock[m.obj], m.from)))
      /\ UNCHANGED <<cond, mv, serverVars, clientVars>>
  BY <1>1, <1>2 DEF Release, Local, At, Arrived, Message
<1>4. m.type \in LockOps /\ m.type \in Ops
  BY <1>3 DEF Ops, LockOps
<1>5. m.obj \in LockNums /\ m.from \in Machines
  <2>1. m.obj \in Existing(KindOf(m.type)) /\ m.from \in Machines
    BY <1>2, <1>3, <1>4, Requested
  <2> QED BY <1>4, <2>1, OpFacts
<1>6. PICK q \in Seq(Machines) : q = <<m.from>> \o NextOwner(lock[m.obj], m.from)
  <2>1. <<m.from>> \in Seq(Machines) /\ NextOwner(lock[m.obj], m.from) \in Seq(Machines)
    BY <1>5, OneMachine, OwnerSeq
  <2>2. <<m.from>> \o NextOwner(lock[m.obj], m.from) \in Seq(Machines)
    BY <2>1
  <2> QED BY <2>2
<1>7. Released(lock[m.obj], m.from).live => lock[m.obj].live
  BY <1>5, OneLock, LockGoes
<1>8. LiveLess
  BY <1>3, <1>5, <1>7, LockLess
<1>9. InUse(src, b)
  BY <1>2, <1>3, <1>4, <1>8 DEF InUse, serverVars, UseTypes
<1> QED BY <1>3, <1>6, <1>9, QuietReplies

(* A lock is destroyed.                                                     *)
LEMMA DestroyLockPoll == ASSUME Inv, Poll, NEW s \in Servers, NEW src \in Machines, DestroyLock(s, src) PROVE Poll'
<1>1. PICK b \in Boxes : b = <<s, 0>>
  BY BoxFacts
<1>2. PICK m, L : m = First(src, b) /\ L = lock[m.obj]
  OBVIOUS
<1>3. PICK M : M = IF ~L.live THEN L
                   ELSE IF L.owner # NoOne /\ L.acquireCount = 0
                   THEN [L EXCEPT !.isToBeDeleted = TRUE] ELSE [Dead(L) EXCEPT !.owner = NoOne]
  OBVIOUS
<1>4. /\ net[<<src, b>>] # <<>> /\ m.type = "DESTROY_LOCK" /\ Handle(src, b, Nothing)
      /\ lock' = [lock EXCEPT ![m.obj] = M]
      /\ UNCHANGED <<cond, mv, serverVars, clientVars>>
  BY <1>1, <1>2, <1>3 DEF DestroyLock, Local, At, Arrived, Message
<1>5. m.type \in LockOps /\ m.type \in Ops
  BY <1>4 DEF Ops, LockOps
<1>6. m.obj \in LockNums
  <2>1. m.obj \in Existing(KindOf(m.type))
    BY <1>2, <1>4, <1>5, Requested
  <2> QED BY <1>5, <2>1, OpFacts
<1>7. L \in Locks
  BY <1>2, <1>6, OneLock
<1>8. M.live => L.live
  BY <1>3, <1>7 DEF Locks, Dead
<1>9. LiveLess
  BY <1>2, <1>4, <1>6, <1>8, LockLess
<1>10. InUse(src, b)
  BY <1>2, <1>4, <1>5, <1>9 DEF InUse, serverVars, UseTypes
<1> QED BY <1>4, <1>10, QuietNothing

(* A condition is destroyed.                                                *)
LEMMA DestroyCVPoll == ASSUME Inv, Poll, NEW s \in Servers, NEW src \in Machines, DestroyCV(s, src) PROVE Poll'
<1>1. PICK b \in Boxes : b = <<s, 0>>
  BY BoxFacts
<1>2. PICK m, C : m = First(src, b) /\ C = cond[m.obj]
  OBVIOUS
<1>3. PICK D : D = IF ~C.live \/ m.obj >= MaxObjects THEN C
                   ELSE IF C.queue # <<>> THEN [C EXCEPT !.isToBeDeleted = TRUE] ELSE Dead(C)
  OBVIOUS
<1>4. /\ net[<<src, b>>] # <<>> /\ m.type = "DESTROY_CV" /\ Handle(src, b, Nothing)
      /\ cond' = [cond EXCEPT ![m.obj] = D]
      /\ UNCHANGED <<lock, mv, serverVars, clientVars>>
  BY <1>1, <1>2, <1>3 DEF DestroyCV, Local, At, Arrived, Message
<1>5. m.type \in Ops /\ KindOf(m.type) = "cv"
  BY <1>4 DEF Ops, KindOf, LockOps, MVOps
<1>6. m.obj \in CVNums
  BY <1>2, <1>4, <1>5, Requested DEF Existing
<1>7. C \in Conds
  BY <1>2, <1>6, OneCond
<1>8. D.live => C.live
  BY <1>3, <1>7 DEF Conds, Dead
<1>9. LiveLess
  BY <1>2, <1>4, <1>6, <1>8, CondLess
<1>10. InUse(src, b)
  BY <1>2, <1>4, <1>5, <1>9 DEF InUse, serverVars, UseTypes
<1> QED BY <1>4, <1>10, QuietNothing

(* A variable is read.                                                      *)
LEMMA GetMVPoll == ASSUME Inv, Poll, NEW s \in Servers, NEW src \in Machines, GetMV(s, src) PROVE Poll'
<1>1. PICK b \in Boxes : b = <<s, 0>>
  BY BoxFacts
<1>2. PICK m : m = First(src, b)
  OBVIOUS
<1>3. PICK v : v = IF mv[m.obj].live THEN mv[m.obj].value ELSE -1
  OBVIOUS
<1>4. /\ net[<<src, b>>] # <<>> /\ m.type = "GET_MV" /\ Handle(src, b, Only(Reply(m.from, v)))
      /\ UNCHANGED <<tableVars, serverVars, clientVars>>
  BY <1>1, <1>2, <1>3 DEF GetMV, Local, At, Arrived, Message
<1>5. m.type \in Ops /\ KindOf(m.type) = "mv"
  BY <1>4 DEF Ops, KindOf, LockOps, MVOps
<1>6. m.obj \in MVNums /\ m.from \in Machines
  BY <1>2, <1>4, <1>5, Requested DEF Existing
<1>7. v \in Int
  <2>1. mv[m.obj].value \in Values
    BY <1>6 DEF Inv, StateOK, TypeOK
  <2>2. -1 \in Int
    OBVIOUS
  <2>3. Values \subseteq Nat
    BY UseAssumption
  <2>4. \A u \in Values : u \in Int
    BY <2>3
  <2> QED BY <1>3, <2>1, <2>2, <2>4
<1>8. PICK y : y = Reply(m.from, v)
  OBVIOUS
<1>9. y \in Messages /\ y.type = "REPLY" /\ y.to = <<m.from, 0>>
  BY <1>6, <1>7, <1>8, BoxFacts DEF Reply, Answers, Messages
<1>10. InUse(src, b)
  BY <1>2, <1>4, <1>5, SameLive DEF InUse, tableVars, serverVars, UseTypes
<1>11. y.type \in UseTypes /\ y.to[2] # 1
  BY <1>9 DEF UseTypes
<1> QED BY <1>4, <1>8, <1>9, <1>10, <1>11, QuietOnly

(* A variable is written.                                                   *)
LEMMA SetMVPoll == ASSUME Inv, Poll, NEW s \in Servers, NEW src \in Machines, SetMV(s, src) PROVE Poll'
<1>1. PICK b \in Boxes : b = <<s, 0>>
  BY BoxFacts
<1>2. PICK m : m = First(src, b)
  OBVIOUS
<1>3. /\ net[<<src, b>>] # <<>> /\ m.type = "SET_MV" /\ Handle(src, b, Replies(<<m.from>>))
      /\ mv' = [mv EXCEPT ![m.obj].value = IF mv[m.obj].live THEN m.arg ELSE @]
      /\ UNCHANGED <<lock, cond, serverVars, clientVars>>
  BY <1>1, <1>2 DEF SetMV, Local, At, Arrived, Message
<1>4. m.type \in Ops
  BY <1>3 DEF Ops, MVOps
<1>5. m.from \in Machines
  BY <1>2, <1>3, <1>4, Requested
<1>6. mv \in [MVNums -> [live : BOOLEAN, value : Values]]
  BY DEF Inv, StateOK, TypeOK
<1>7. LiveLess
  BY <1>3, <1>6 DEF LiveLess
<1>8. InUse(src, b)
  BY <1>2, <1>3, <1>4, <1>7 DEF InUse, serverVars, UseTypes
<1>9. PICK q \in Seq(Machines) : q = <<m.from>>
  BY <1>5, OneMachine
<1> QED BY <1>3, <1>8, <1>9, QuietReplies

(* A variable is destroyed.                                                 *)
LEMMA DestroyMVPoll == ASSUME Inv, Poll, NEW s \in Servers, NEW src \in Machines, DestroyMV(s, src) PROVE Poll'
<1>1. PICK b \in Boxes : b = <<s, 0>>
  BY BoxFacts
<1>2. PICK m : m = First(src, b)
  OBVIOUS
<1>3. /\ net[<<src, b>>] # <<>> /\ m.type = "DESTROY_MV" /\ Handle(src, b, Nothing)
      /\ mv' = [mv EXCEPT ![m.obj].live = FALSE]
      /\ UNCHANGED <<lock, cond, serverVars, clientVars>>
  BY <1>1, <1>2 DEF DestroyMV, Local, At, Arrived, Message
<1>4. m.type \in Ops
  BY <1>3 DEF Ops, MVOps
<1>5. mv \in [MVNums -> [live : BOOLEAN, value : Values]]
  BY DEF Inv, StateOK, TypeOK
<1>6. LiveLess
  BY <1>3, <1>5 DEF LiveLess
<1>7. InUse(src, b)
  BY <1>2, <1>3, <1>4, <1>6 DEF InUse, serverVars, UseTypes
<1> QED BY <1>3, <1>7, QuietNothing

(* The server of the lock is asked.                                         *)
LEMMA AskOwnerPoll == ASSUME Inv, Poll, NEW s \in Servers, NEW src \in Machines, AskOwner(s, src) PROVE Poll'
<1>1. PICK b \in Boxes : b = <<s, 0>>
  BY BoxFacts
<1>2. PICK m : m = First(src, b)
  OBVIOUS
<1>3. PICK y : y = [to |-> <<m.arg \div MaxObjects, 0>>, type |-> "DOES_CLIENT_HAVE_LOCK",
                    from |-> s, client |-> m.from, lockNum |-> m.arg]
  OBVIOUS
<1>4. /\ net[<<src, b>>] # <<>> /\ m.type \in UseOps /\ Handle(src, b, Only(y))
      /\ UNCHANGED <<tableVars, queryQueue, nextQueryID, down, clientVars>>
  BY <1>1, <1>2, <1>3 DEF AskOwner, At, Arrived, Message
<1>5. m.type \in Ops /\ m.type \in Ops \ {"RELEASE", "DESTROY_MV"}
  BY <1>4 DEF Ops, UseOps
<1>6. m.from \in Clients /\ m.arg \in Args(m.type)
  BY <1>2, <1>4, <1>5, Asked, Requested
<1>7. m.arg \in LockNums
  BY <1>4, <1>6, OpFacts
<1>8. m.arg \div MaxObjects \in Servers
  BY <1>7, UseAssumption, NumberFacts
<1>9. y \in Messages /\ y.type = "DOES_CLIENT_HAVE_LOCK" /\ y.to = <<m.arg \div MaxObjects, 0>>
  <2>1. PICK t \in Servers : t = m.arg \div MaxObjects
    BY <1>8
  <2>2. y = [to |-> <<t, 0>>, type |-> "DOES_CLIENT_HAVE_LOCK", from |-> s, client |-> m.from, lockNum |-> m.arg]
    BY <1>3, <2>1
  <2>3. y \in Messages /\ y.type = "DOES_CLIENT_HAVE_LOCK" /\ y.to = <<t, 0>>
    BY <1>6, <1>7, <2>2, BoxFacts DEF Doubts, Messages
  <2> QED BY <2>1, <2>3
<1>10. InUse(src, b)
  BY <1>2, <1>4, <1>5, SameLive DEF InUse, tableVars, UseTypes
<1>11. y.type \in UseTypes /\ y.to[2] # 1
  BY <1>9 DEF UseTypes
<1> QED BY <1>4, <1>9, <1>10, <1>11, QuietOnly

(* The lock is gone.                                                        *)
LEMMA NoSuchLockPoll == ASSUME Inv, Poll, NEW s \in Servers, NEW src \in Machines, NoSuchLock(s, src) PROVE Poll'
<1>1. PICK b \in Boxes : b = <<s, 0>>
  BY BoxFacts
<1>2. PICK m : m = First(src, b)
  OBVIOUS
<1>3. /\ net[<<src, b>>] # <<>> /\ m.type \in UseOps
      /\ Handle(src, b, IF m.type = "WAIT" THEN Nothing ELSE Replies(<<m.from>>))
      /\ UNCHANGED <<tableVars, serverVars, clientVars>>
  BY <1>1, <1>2 DEF NoSuchLock, At, Arrived, Message
<1>4. m.type \in Ops
  BY <1>3 DEF Ops
<1>5. m.from \in Machines
  BY <1>2, <1>3, <1>4, Requested
<1>6. PICK q \in Seq(Machines) : q = <<m.from>>
  BY <1>5, OneMachine
<1>7. InUse(src, b)
  BY <1>2, <1>3, <1>4, SameLive DEF InUse, tableVars, serverVars, UseTypes
<1>8. CASE m.type = "WAIT"
  BY <1>3, <1>7, <1>8, QuietNothing
<1>9. CASE m.type # "WAIT"
  BY <1>3, <1>6, <1>7, <1>9, QuietReplies
<1> QED BY <1>8, <1>9

(* A client goes to sleep and gives up the lock.                            *)
LEMMA WaitHerePoll == ASSUME Inv, Poll, NEW s \in Servers, NEW src \in Machines, WaitHere(s, src) PROVE Poll'
<1>1. PICK b \in Boxes : b = <<s, 0>>
  BY BoxFacts
<1>2. PICK m : m = First(src, b)
  OBVIOUS
<1>3. PICK k, v : k = m.arg /\ v = m.obj
  OBVIOUS
<1>4. PICK M, D : M = Released(lock[k], m.from) /\ D = Waited(cond[v], decodeIndex(k), m.from)
  OBVIOUS
<1>5. /\ net[<<src, b>>] # <<>> /\ m.type = "WAIT"
      /\ cond' = [cond EXCEPT ![v] = D] /\ lock' = [lock EXCEPT ![k] = M]
      /\ Handle(src, b, Replies(NextOwner(lock[k], m.from)))
      /\ UNCHANGED <<mv, serverVars, clientVars>>
  BY <1>1, <1>2, <1>3, <1>4 DEF WaitHere, HasLock, At, Arrived, Message
<1>6. m.type \in UseOps /\ m.type \in Ops
  BY <1>5 DEF Ops, UseOps
<1>7. k \in LockNums /\ v \in CVNums /\ m.from \in Machines
  <2>1. m.obj \in Existing(KindOf(m.type)) /\ m.arg \in Args(m.type) /\ m.from \in Machines
    BY <1>2, <1>5, <1>6, Requested
  <2> QED BY <1>3, <1>6, <2>1, OpFacts
<1>8. PICK q \in Seq(Machines) : q = NextOwner(lock[k], m.from)
  BY <1>7, OwnerSeq
<1>9. lock \in [LockNums -> Locks] /\ (M.live => lock[k].live)
  BY <1>4, <1>7, OneLock, LockGoes
<1>10. cond \in [CVNums -> Conds] /\ (D.live => cond[v].live)
  BY <1>4, <1>7, OneCond, CondGoes
<1>11. LiveLess
  BY <1>5, <1>7, <1>9, <1>10 DEF LiveLess
<1>12. InUse(src, b)
  BY <1>2, <1>5, <1>6, <1>11 DEF InUse, serverVars, UseTypes
<1> QED BY <1>5, <1>8, <1>12, QuietReplies

(* Clients are woken.                                                       *)
LEMMA WakePoll ==
    ASSUME Inv, Poll, NEW s \in Servers, NEW src \in Machines, NEW b \in Boxes, b = <<s, 0>>,
           net[<<src, b>>] # <<>>, First(src, b).type \in UseTypes,
           NEW c \in Clients, NEW op, NEW v \in CVNums, NEW w, Wake(s, src, c, op, v, w),
           UNCHANGED <<lock, mv, queryQueue, nextQueryID>>
    PROVE  Poll'
<1>1. PICK C : C = cond[v]
  OBVIOUS
<1>2. C \in Conds
  BY <1>1, OneCond
<1>3. PICK D, W : D = AfterWake(C, op, w) /\ W = Woken(C, op, w)
  OBVIOUS
<1>4. D.live => C.live
  BY <1>2, <1>3, CondGoes
<1>5. cond' = [cond EXCEPT ![v] = D]
  BY <1>1, <1>3 DEF Wake
<1>6. LiveLess
  BY <1>1, <1>4, <1>5, CondLess
<1>7. InUse(src, b)
  BY <1>6 DEF InUse
<1>8. PICK q \in Seq(Machines) : q = Append(W, c)
  <2>1. W \in Seq(Clients)
    BY <1>2, <1>3, WokenFacts
  <2>2. Append(W, c) \in Seq(Clients)
    BY <2>1
  <2>3. Clients \subseteq Machines
    BY BoxFacts
  <2>4. Append(W, c) \in Seq(Machines)
    BY <2>2, <2>3
  <2> QED BY <2>4
<1>9. \/ Handle(src, b, Nothing)
      \/ Handle(src, b, Replies(q))
  BY <1>1, <1>3, <1>8 DEF Wake
<1>10. CASE Handle(src, b, Nothing)
  BY <1>7, <1>10, QuietNothing
<1>11. CASE Handle(src, b, Replies(q))
  BY <1>7, <1>11, QuietReplies
<1> QED BY <1>9, <1>10, <1>11

(* They are woken where the lock is, too.                                   *)
LEMMA WakeHerePoll == ASSUME Inv, Poll, NEW s \in Servers, NEW src \in Machines, WakeHere(s, src) PROVE Poll'
<1>1. PICK b \in Boxes : b = <<s, 0>>
  BY BoxFacts
<1>2. PICK m : m = First(src, b)
  OBVIOUS
<1>3. PICK c, op, v, w : c = m.from /\ op = m.type /\ v = m.obj /\ w = decodeIndex(m.arg)
  OBVIOUS
<1>4. /\ net[<<src, b>>] # <<>> /\ m.type \in {"SIGNAL", "BROADCAST"} /\ Wake(s, src, c, op, v, w)
      /\ UNCHANGED <<lock, mv, queryQueue, nextQueryID>>
  BY <1>1, <1>2, <1>3 DEF WakeHere, HasLock, At, Arrived, Message
<1>5. m.type \in UseOps /\ m.type \in Ops \ {"RELEASE", "DESTROY_MV"} /\ m.type \in Ops
  BY <1>4 DEF Ops, UseOps
<1>6. m.from \in Clients /\ m.obj \in Existing(KindOf(m.type))
  BY <1>2, <1>4, <1>5, Asked, Requested
<1>7. c \in Clients /\ v \in CVNums
  BY <1>3, <1>5, <1>6, OpFacts
<1>8. First(src, b).type \in UseTypes
  BY <1>2, <1>5 DEF UseTypes
<1> QED BY <1>1, <1>4, <1>7, <1>8, WakePoll

(* The server of the lock says who has it.                                  *)
LEMMA DoesClientHaveLockPoll ==
    ASSUME Inv, Poll, NEW s \in Servers, NEW src \in Machines, DoesClientHaveLock(s, src)
    PROVE  Poll'
<1>1. PICK b \in Boxes : b = <<s, 0>>
  BY BoxFacts
<1>2. PICK m : m = First(src, b)
  OBVIOUS
<1>3. PICK y : y = [to |-> <<m.from, 0>>, type |-> "CV_LOCK_TRACKER_RESPONSE", client |-> m.client,
                    lockNum |-> m.lockNum, held |-> lock[m.lockNum].owner = m.client]
  OBVIOUS
<1>4. /\ net[<<src, b>>] # <<>> /\ m.type = "DOES_CLIENT_HAVE_LOCK"
      /\ Handle(src, b, IF lock[m.lockNum].live THEN Only(y) ELSE Nothing)
      /\ UNCHANGED <<tableVars, serverVars, clientVars>>
  BY <1>1, <1>2, <1>3 DEF DoesClientHaveLock, At, Arrived, Message
<1>5. m \in Doubts
  BY <1>2, <1>4, Handled, Types
<1>6. m.from \in Servers /\ m.client \in Clients /\ m.lockNum \in LockNums
  BY <1>5 DEF Doubts
<1>7. y \in Messages /\ y.to = <<m.from, 0>> /\ y.type = "CV_LOCK_TRACKER_RESPONSE"
  BY <1>3, <1>6, BoxFacts DEF Verdicts, Messages
<1>8. InUse(src, b)
  BY <1>2, <1>4, SameLive DEF InUse, tableVars, serverVars, UseTypes
<1>9. y.type \in UseTypes /\ y.to[2] # 1
  BY <1>7 DEF UseTypes
<1>10. CASE lock[m.lockNum].live
  BY <1>4, <1>7, <1>8, <1>9, <1>10, QuietOnly
<1>11. CASE ~lock[m.lockNum].live
  BY <1>4, <1>8, <1>11, QuietNothing
<1> QED BY <1>10, <1>11

(* The operation that was put off goes on.                                  *)
LEMMA ValidatedPoll == ASSUME Inv, Poll, NEW s \in Servers, NEW src \in Machines, Validated(s, src) PROVE Poll'
<1>1. PICK b \in Boxes : b = <<s, 0>>
  BY BoxFacts
<1>2. PICK m : m = First(src, b)
  OBVIOUS
<1>3. PICK e : e = cvLockTrackerList[s][Tracked(s, m)]
  OBVIOUS
<1>4. PICK c, v, l, op : c = m.client /\ v = e.cvNum /\ l = e.lockNum /\ op = e.op
  OBVIOUS
<1>5. Drops(s, src, b, m, e)
  BY <1>1, <1>2, <1>3 DEF Validated, At, Arrived, Message, Drops
<1>6. c \in Clients /\ op \in UseOps /\ v \in CVNums /\ l \in LockNums
  BY <1>4, <1>5, Untracked
<1>7. /\ net[<<src, b>>] # <<>> /\ First(src, b) = m /\ m.type = "CV_LOCK_TRACKER_RESPONSE"
      /\ UNCHANGED <<lock, mv, queryQueue, nextQueryID, clientVars>>
  BY <1>5 DEF Drops
<1>8. First(src, b).type \in UseTypes
  BY <1>7 DEF UseTypes
<1>9. \/ Handle(src, b, Replies(<<c>>)) /\ cond' = cond
      \/ ~Mine(s, v) /\ Handle(src, b, Only(Request(<<s, 1>>, op, c, v, l))) /\ cond' = cond
      \/ /\ cond' = [cond EXCEPT ![v] = Waited(@, l, c)]
         /\ Handle(src, b, Only(Request(<<l \div MaxObjects, 0>>, "RELEASE", s, l, 0)))
      \/ Wake(s, src, c, op, v, l)
  BY <1>1, <1>2, <1>3, <1>4 DEF Validated, Message
<1>10. CASE Handle(src, b, Replies(<<c>>)) /\ cond' = cond
  <2>1. InUse(src, b)
    BY <1>7, <1>8, <1>10, SameLive DEF InUse
  <2>2. PICK q \in Seq(Machines) : q = <<c>>
    BY <1>6, BoxFacts, OneMachine
  <2> QED BY <1>10, <2>1, <2>2, QuietReplies
<1>11. CASE ~Mine(s, v) /\ Handle(src, b, Only(Request(<<s, 1>>, op, c, v, l))) /\ cond' = cond
  <2>1. InUse(src, b)
    BY <1>7, <1>8, <1>11, SameLive DEF InUse
  <2>2. PICK y : y = Request(<<s, 1>>, op, c, v, l)
    OBVIOUS
  <2>3. l \in Nat /\ v \in Numbers /\ op \in Ops
    <3>1. LockNums \subseteq Numbers /\ CVNums \subseteq Numbers
      BY UseAssumption
    <3> QED BY <1>6, <3>1, NumberFacts, OpFacts
  <2>4. y \in Messages /\ y.type = op /\ y.to = <<s, 1>> /\ y.obj = v
    BY <1>6, <2>2, <2>3, BoxFacts DEF Request, Requests, Messages
  <2>5. y.type \in UseTypes /\ (y.to[2] = 1 => ~Mine(y.to[1], y.obj))
    BY <1>11, <2>3, <2>4 DEF UseTypes
  <2> QED BY <1>11, <2>1, <2>2, <2>4, <2>5, QuietOnly
<1>12. CASE /\ cond' = [cond EXCEPT ![v] = Waited(@, l, c)]
            /\ Handle(src, b, Only(Request(<<l \div MaxObjects, 0>>, "RELEASE", s, l, 0)))
  <2>1. PICK D : D = Waited(cond[v], l, c)
    OBVIOUS
  <2>2. D.live => cond[v].live
    BY <1>6, <2>1, OneCond, CondGoes
  <2>3. LiveLess
    BY <1>6, <1>7, <1>12, <2>1, <2>2, CondLess
  <2>4. InUse(src, b)
    BY <1>7, <1>8, <2>3 DEF InUse
  <2>5. PICK t \in Servers : t = l \div MaxObjects
    BY <1>6, UseAssumption, NumberFacts
  <2>6. PICK y : y = Request(<<t, 0>>, "RELEASE", s, l, 0)
    OBVIOUS
  <2>7. y \in Messages /\ y.type = "RELEASE" /\ y.to = <<t, 0>>
    <3>1. "RELEASE" \in Ops /\ l \in Numbers /\ 0 \in Nat
      BY <1>6, UseAssumption DEF Ops, LockOps
    <3> QED BY <2>6, <3>1, BoxFacts DEF Request, Requests, Messages
  <2>8. y.type \in UseTypes /\ y.to[2] # 1
    BY <2>7 DEF UseTypes, Ops, LockOps
  <2> QED BY <1>12, <2>4, <2>5, <2>6, <2>7, <2>8, QuietOnly
<1>13. CASE Wake(s, src, c, op, v, l)
  BY <1>1, <1>6, <1>7, <1>8, <1>13, WakePoll
<1> QED BY <1>9, <1>10, <1>11, <1>12, <1>13

(* The message is none that a server knows.                                 *)
LEMMA NoMessageTypePoll == ASSUME Inv, Poll, NEW s \in Servers, NEW src \in Machines, NoMessageType(s, src) PROVE Poll'
<1>1. PICK b \in Boxes : b = <<s, 0>>
  BY BoxFacts
<1>2. /\ net[<<src, b>>] # <<>> /\ First(src, b).type = "REPLY" /\ Handle(src, b, Nothing)
      /\ UNCHANGED <<tableVars, serverVars, clientVars>>
  BY <1>1 DEF NoMessageType, At, Arrived, Message
<1>3. InUse(src, b)
  BY <1>2, SameLive DEF InUse, tableVars, serverVars, UseTypes
<1> QED BY <1>2, <1>3, QuietNothing

(* An answer ends a call, or Wait asks for its lock again.                  *)
LEMMA ReturnPoll ==
    ASSUME Inv, Poll, NEW c \in Clients, NEW src \in Servers, Return(c, src)
    PROVE  Poll'
<1>1. PICK b \in Boxes : b = <<c, 0>>
  BY BoxFacts
<1>2. /\ net[<<src, b>>] # <<>> /\ First(src, b).type = "REPLY" /\ Handle(src, b, Nothing)
      /\ UNCHANGED <<tableVars, serverVars>>
  BY <1>1 DEF Return, Arrived
<1>3. InUse(src, b)
  BY <1>2, SameLive DEF InUse, tableVars, serverVars, UseTypes
<1> QED BY <1>2, <1>3, BoxFacts, QuietNothing

(* Wait asks for its lock again.                                            *)
LEMMA ReacquirePoll ==
    ASSUME Inv, Poll, NEW c \in Clients, NEW src \in Servers, NEW s \in Servers, Reacquire(c, src, s)
    PROVE  Poll'
<1>1. PICK b \in Boxes : b = <<c, 0>>
  BY BoxFacts
<1>2. PICK k, y : k = call[c].arg /\ y = Request(<<s, 0>>, "ACQUIRE", c, k, 0)
  OBVIOUS
<1>3. /\ net[<<src, b>>] # <<>> /\ First(src, b).type = "REPLY" /\ call[c].op = "WAIT"
      /\ Handle(src, b, Only(y))
      /\ UNCHANGED <<tableVars, serverVars>>
  BY <1>1, <1>2 DEF Reacquire, Arrived
<1>4. k \in Numbers
  <2>1. call[c].op \in UseOps /\ StateOK
    BY <1>3 DEF UseOps, Inv
  <2> QED BY <1>2, <2>1, Called, UseAssumption
<1>5. y \in Messages /\ y.type = "ACQUIRE" /\ y.to = <<s, 0>>
  <2>1. "ACQUIRE" \in Ops /\ 0 \in Nat
    BY DEF Ops, LockOps
  <2> QED BY <1>2, <1>4, <2>1, BoxFacts DEF Request, Requests, Messages
<1>6. InUse(src, b)
  BY <1>3, SameLive DEF InUse, tableVars, serverVars, UseTypes
<1>7. y.type \in UseTypes /\ y.to[2] # 1
  BY <1>5 DEF UseTypes, Ops, LockOps
<1> QED BY <1>3, <1>5, <1>6, <1>7, BoxFacts, QuietOnly

(* A client calls.                                                          *)
LEMMA CallPoll ==
    ASSUME Inv, Poll, NEW c \in Clients, NEW op \in Ops, NEW k \in Existing(KindOf(op)), NEW a \in Args(op),
           NEW s \in Servers, Call(c, op, k, a, s)
    PROVE  Poll'
<1>1. PICK y : y = Request(<<s, 0>>, op, c, k, a)
  OBVIOUS
<1>2. PICK mail : mail = Only(y)
  OBVIOUS
<1>3. net' = Posted(net, c, mail) /\ UNCHANGED <<tableVars, serverVars>>
  BY <1>1, <1>2 DEF Call
<1>4. c \in Machines /\ <<s, 0>> \in Boxes /\ net \in [Channels -> Seq(Messages)]
  BY BoxFacts DEF Inv, StateOK
<1>5. k \in Numbers /\ a \in Nat
  <2>1. Existing(KindOf(op)) \subseteq Numbers
    BY UseAssumption DEF Existing
  <2>2. LockNums \subseteq Nat /\ Values \subseteq Nat
    BY UseAssumption, NumberFacts
  <2>3. Args(op) \subseteq Nat
    BY <2>2 DEF Args
  <2> QED BY <2>1, <2>3
<1>6. y \in Requests /\ y \in Messages /\ y.to = <<s, 0>>
  BY <1>1, <1>4, <1>5 DEF Request, Requests, Messages
<1>7. y \notin PollMail
  BY <1>6, Sorts
<1>8. /\ mail \in Mails
      /\ \A bx \in Boxes : \A j \in DOMAIN mail[bx] : bx = y.to /\ mail[bx][j] = y
      /\ \A bx \in Boxes : \A T : (Hit(mail[bx], T) <=> (bx = y.to /\ y \in T)) /\ Single(mail[bx], T)
  <2>1. y \in Messages
    BY <1>6
  <2> QED BY <1>2, <2>1, OnlyMail
<1>9. Untold
  <2> SUFFICES ASSUME NEW T, T \subseteq PollMail, \A ch \in Channels : Single(net[ch], T),
                      NEW ch \in Channels
               PROVE  Single(net'[ch], T) /\ (Hit(net'[ch], T) <=> Hit(net[ch], T))
    BY DEF Untold
  <2>1. ~Hit(mail[ch[2]], T) /\ Single(mail[ch[2]], T)
    BY <1>7, <1>8, BoxFacts
  <2>2. /\ Hit(Posted(net, c, mail)[ch], T) <=> (Hit(net[ch], T) \/ (ch[1] = c /\ Hit(mail[ch[2]], T)))
        /\ Single(net[ch], T) /\ (ch[1] = c => Single(mail[ch[2]], T) /\ ~(Hit(net[ch], T) /\ Hit(mail[ch[2]], T)))
           => Single(Posted(net, c, mail)[ch], T)
    BY <1>4, <1>8, PostedKeeps
  <2> QED BY <1>3, <2>1, <2>2
<1>10. queryQueue' = queryQueue /\ nextQueryID' = nextQueryID /\ LiveLess
  BY <1>3, SameLive DEF tableVars, serverVars
<1>11. Words'
  <2> SUFFICES ASSUME NEW ch \in Channels, NEW i \in DOMAIN net'[ch]
               PROVE  GoodWord(net[ch][i], ch)'
    BY DEF Words
  <2>1. PICK x : x = net'[ch][i]
    OBVIOUS
  <2>2. \/ i \in DOMAIN net[ch] /\ x = net[ch][i]
        \/ ch[1] = c /\ \E j \in DOMAIN mail[ch[2]] : x = mail[ch[2]][j]
    <3>1. /\ Posted(net, c, mail) \in [Channels -> Seq(Messages)]
          /\ \A dh \in Channels :
                /\ net[dh] \in Seq(Messages) /\ mail[dh[2]] \in Seq(Messages)
                /\ Posted(net, c, mail)[dh] = IF dh[1] = c THEN net[dh] \o mail[dh[2]] ELSE net[dh]
                /\ \A h \in DOMAIN Posted(net, c, mail)[dh] :
                      \/ h \in DOMAIN net[dh] /\ Posted(net, c, mail)[dh][h] = net[dh][h]
                      \/ /\ dh[1] = c
                         /\ \E j \in DOMAIN mail[dh[2]] : Posted(net, c, mail)[dh][h] = mail[dh[2]][j]
      BY <1>4, <1>8, PostedOrigin
    <3> QED BY <1>3, <2>1, <3>1
  <2>3. CASE i \in DOMAIN net[ch] /\ x = net[ch][i]
    <3>1. IDsGrow
      BY <1>10, SameIDs
    <3>2. GoodWord(x, ch)'
      BY <2>3, <3>1, KeptWord DEF Poll
    <3> QED BY <2>1, <3>2
  <2>4. CASE \E j \in DOMAIN mail[ch[2]] : x = mail[ch[2]][j]
    <3>1. x = y /\ ch[2] = <<s, 0>>
      BY <1>6, <1>8, <2>4, BoxFacts
    <3>2. GoodWord(x, ch)'
      BY <1>7, <3>1 DEF GoodWord, PollMail
    <3> QED BY <2>1, <3>2
  <2> QED BY <2>2, <2>3, <2>4
<1> QED BY <1>9, <1>10, <1>11, UntoldStep

-----------------------------------------------------------------------------
(* The questions, and what is answered                                     *)

(* What is said about query id of server s after a message was handled.     *)
LEMMA PollHits ==
    ASSUME Inv, Poll, NEW src \in Machines, NEW b \in Boxes, net[<<src, b>>] # <<>>,
           NEW mail \in Mails, Handle(src, b, mail), NEW s \in Servers, NEW id \in Nat,
           NEW T, T \subseteq QuestionOf(s, id) \/ T \subseteq FindingOf(s, id)
    PROVE  /\ \A ch \in Channels : Single(net[ch], T)
           /\ Hit(net[<<src, b>>], T) \/ First(src, b) \notin T
           /\ \A ch \in Channels :
                 /\ Hit(net'[ch], T) <=> \/ Hit(net[ch], T) /\ (ch # <<src, b>> \/ First(src, b) \notin T)
                                         \/ ch[1] = b[1] /\ Hit(mail[ch[2]], T)
                 /\ (ch[1] = b[1] => /\ Single(mail[ch[2]], T)
                                     /\ Hit(net[ch], T) /\ Hit(mail[ch[2]], T) => ch = <<src, b>> /\ First(src, b) \in T)
                    => Single(net'[ch], T)
<1>1. \A ch \in Channels : Single(net[ch], QuestionOf(s, id)) /\ Single(net[ch], FindingOf(s, id))
  BY DEF Poll, OneWord
<1>2. \A r, U, V : U \subseteq V /\ Single(r, V) => Single(r, U)
  BY DEF Single
<1>3. \A ch \in Channels : Single(net[ch], T)
  BY <1>1, <1>2
<1>4. net \in [Channels -> Seq(Messages)]
  BY DEF Inv, StateOK
<1>5. /\ First(src, b) \in Messages
      /\ net' \in [Channels -> Seq(Messages)]
      /\ Hit(net[<<src, b>>], T) \/ First(src, b) \notin T
      /\ \A ch \in Channels :
            /\ Hit(net'[ch], T) <=> \/ Hit(net[ch], T) /\ (ch # <<src, b>> \/ First(src, b) \notin T)
                                    \/ ch[1] = b[1] /\ Hit(mail[ch[2]], T)
            /\ (ch[1] = b[1] => /\ Single(mail[ch[2]], T)
                                /\ Hit(net[ch], T) /\ Hit(mail[ch[2]], T) => ch = <<src, b>> /\ First(src, b) \in T)
               => Single(net'[ch], T)
  BY <1>3, <1>4, HandleKeeps
<1> QED BY <1>3, <1>5

(* What is said is about queries that were made.                            *)
LEMMA NoWordYet ==
    ASSUME Inv, Poll, NEW s \in Servers, NEW n, nextQueryID[s] <= n, n \in Nat
    PROVE  /\ \A ch \in Channels : ~Hit(net[ch], QuestionOf(s, n))
           /\ \A t \in Servers : ~Hit(net[<<t, <<s, 1>>>>], FindingOf(t, n))
<1>1. nextQueryID[s] \in Nat
  BY DEF Inv, StateOK, TypeOK
<1>2. ASSUME NEW ch \in Channels, NEW i \in DOMAIN net[ch], net[ch][i] \in QuestionOf(s, n) PROVE FALSE
  <2>1. PICK x \in Messages : x = net[ch][i] /\ x.type = "DO_YOU_HAVE" /\ x.from = s /\ x.id = n
    BY <1>2 DEF QuestionOf
  <2>2. x \in Questions /\ x \in PollMail /\ GoodWord(x, ch)
    BY <2>1, Types DEF PollMail, Poll, Words
  <2>3. x.id < nextQueryID[ch[1]] /\ ch[1] = s
    BY <2>1, <2>2 DEF GoodWord
  <2> QED BY <1>1, <2>1, <2>3
<1>3. ASSUME NEW t \in Servers, NEW i \in DOMAIN net[<<t, <<s, 1>>>>], net[<<t, <<s, 1>>>>][i] \in FindingOf(t, n)
      PROVE  FALSE
  <2>0. t \in Machines /\ <<s, 1>> \in Boxes
    BY BoxFacts
  <2>1. PICK ch \in Channels : ch = <<t, <<s, 1>>>> /\ ch[2][1] = s
    <3>1. PICK ch : ch = <<t, <<s, 1>>>>
      OBVIOUS
    <3>2. ch \in Channels
      BY <2>0, <3>1 DEF Channels
    <3>3. ch[2] = <<s, 1>>
      BY <3>1
    <3>4. ch[2][1] = s
      BY <3>3
    <3> QED BY <3>1, <3>2, <3>4
  <2>2. PICK x \in Messages : x = net[ch][i] /\ x.type \in {"HAVE", "DO_NOT_HAVE"} /\ x.id = n
    BY <1>3, <2>1 DEF FindingOf
  <2>3. x \in Findings /\ GoodWord(x, ch)
    BY <1>3, <2>1, <2>2, Types DEF Poll, Words
  <2>4. x.id < nextQueryID[s]
    BY <2>1, <2>3 DEF GoodWord
  <2> QED BY <1>1, <2>2, <2>4
<1> QED BY <1>2, <1>3 DEF Hit

(* The first message is a good word.                                        *)
LEMMA FirstWord ==
    ASSUME Inv, Poll, NEW src \in Machines, NEW b \in Boxes, net[<<src, b>>] # <<>>
    PROVE  GoodWord(First(src, b), <<src, b>>)
BY Handled DEF Poll, Words

(* What Query sends: its question to each other server, once.               *)
QuestionMail(s, n, kind, k) ==
    [b \in Boxes |->
        IF b \in (Servers \ {s}) \X {1}
        THEN <<[to |-> b, type |-> "DO_YOU_HAVE", from |-> s, id |-> n, kind |-> kind, obj |-> k]>>
        ELSE <<>>]

(* The mail is these questions and no more.                                 *)
Asking(mail, s, n, kind, k) ==
    /\ mail \in Mails
    /\ \A b \in Boxes : \A i \in DOMAIN mail[b] :
          \A x : x = mail[b][i] =>
             /\ x \in Questions /\ x \in Messages /\ x.to = b /\ x.from = s /\ x.id = n /\ x.kind = kind /\ x.obj = k
             /\ b[1] \in Servers \ {s} /\ b[2] = 1
    /\ \A b \in Boxes : \A T : Single(mail[b], T)
    /\ \A t \in Servers \ {s} : Hit(mail[<<t, 1>>], QuestionOf(s, n))

(* It is.                                                                   *)
LEMMA QuestionFacts ==
    ASSUME NEW s \in Servers, NEW n \in Nat, NEW kind \in {"lock", "cv", "mv"}, NEW k \in Numbers
    PROVE  Asking(QuestionMail(s, n, kind, k), s, n, kind, k)
<1>1. PICK mail : mail = QuestionMail(s, n, kind, k)
  OBVIOUS
<1>2. ASSUME NEW b \in Boxes
      PROVE  /\ mail[b] \in Seq(Messages)
             /\ \A i \in DOMAIN mail[b] : \A x : x = mail[b][i] =>
                   /\ x \in Questions /\ x \in Messages /\ x.to = b /\ x.from = s /\ x.id = n /\ x.kind = kind /\ x.obj = k
                   /\ b[1] \in Servers \ {s} /\ b[2] = 1
             /\ \A T : Single(mail[b], T)
             /\ b[2] = 1 /\ b[1] \in Servers \ {s} => Hit(mail[b], QuestionOf(s, n))
  <2>1. PICK z : z = [to |-> b, type |-> "DO_YOU_HAVE", from |-> s, id |-> n, kind |-> kind, obj |-> k]
    OBVIOUS
  <2>2. /\ z \in Questions /\ z \in Messages /\ z.to = b /\ z.from = s /\ z.id = n /\ z.kind = kind /\ z.obj = k
        /\ z.type = "DO_YOU_HAVE"
    BY <2>1 DEF Questions, Messages
  <2>3. mail[b] = IF b \in (Servers \ {s}) \X {1} THEN <<z>> ELSE <<>>
    BY <1>1, <2>1 DEF QuestionMail
  <2>4. CASE b \in (Servers \ {s}) \X {1}
    <3>1. mail[b] = <<z>> /\ b[1] \in Servers \ {s} /\ b[2] = 1
      BY <2>3, <2>4
    <3>2. <<z>> \in Seq(Messages) /\ DOMAIN <<z>> = {1} /\ <<z>>[1] = z
      BY <2>2
    <3>3. z \in QuestionOf(s, n)
      BY <2>2 DEF QuestionOf
    <3>4. Hit(mail[b], QuestionOf(s, n)) /\ \A T : Single(mail[b], T)
      BY <3>1, <3>2, <3>3 DEF Hit, Single
    <3> QED BY <2>2, <3>1, <3>2, <3>4
  <2>5. CASE b \notin (Servers \ {s}) \X {1}
    <3>1. mail[b] = <<>> /\ DOMAIN mail[b] = {} /\ mail[b] \in Seq(Messages)
      BY <2>3, <2>5
    <3>2. ~(b[2] = 1 /\ b[1] \in Servers \ {s})
      <4>1. b = <<b[1], b[2]>>
        BY BoxFacts
      <4> QED BY <2>5, <4>1
    <3> QED BY <3>1, <3>2 DEF Single
  <2> QED BY <2>4, <2>5
<1>3. mail \in Mails
  <2>1. \A b \in Boxes : mail[b] \in Seq(Messages)
    BY <1>2
  <2>2. mail = [b \in Boxes |-> mail[b]]
    BY <1>1 DEF QuestionMail
  <2> QED BY <2>1, <2>2 DEF Mails
<1>4. ASSUME NEW t \in Servers \ {s} PROVE Hit(mail[<<t, 1>>], QuestionOf(s, n))
  <2>1. PICK b \in Boxes : b = <<t, 1>>
    BY BoxFacts
  <2>2. b[1] \in Servers \ {s} /\ b[2] = 1
    BY <2>1
  <2>3. Hit(mail[b], QuestionOf(s, n))
    BY <1>2, <2>2
  <2> QED BY <2>1, <2>3
<1>5. /\ \A b \in Boxes : \A i \in DOMAIN mail[b] : \A x : x = mail[b][i] =>
            /\ x \in Questions /\ x \in Messages /\ x.to = b /\ x.from = s /\ x.id = n /\ x.kind = kind /\ x.obj = k
            /\ b[1] \in Servers \ {s} /\ b[2] = 1
      /\ \A b \in Boxes : \A T : Single(mail[b], T)
  BY <1>2
<1> QED BY <1>1, <1>3, <1>4, <1>5 DEF Asking

(* The channels between servers.                                            *)
LEMMA Between ==
    ASSUME NEW s \in Servers, NEW t \in Servers
    PROVE  /\ <<s, <<t, 1>>>> \in Channels /\ s \in Machines /\ <<t, 1>> \in Boxes
           /\ <<s, <<t, 1>>>>[1] = s /\ <<s, <<t, 1>>>>[2] = <<t, 1>> /\ <<t, 1>>[1] = t /\ <<t, 1>>[2] = 1
BY BoxFacts DEF Channels

(* The other servers are asked, in a query of its own.                      *)
LEMMA QueryPoll == ASSUME Inv, Poll, NEW s \in Servers, NEW src \in Machines, Query(s, src) PROVE Poll'
<1>1. PICK b \in Boxes : b = <<s, 1>> /\ b[1] = s /\ b[2] = 1
  BY BoxFacts
<1>2. PICK m, n : m = First(src, b) /\ n = nextQueryID[s]
  OBVIOUS
<1>3. PICK e, kind, k : e = [id |-> n, numResponsesReceived |-> 0, data |-> m] /\ kind = KindOf(m.type) /\ k = m.obj
  OBVIOUS
<1>4. PICK mail : mail = QuestionMail(s, n, kind, k)
  OBVIOUS
<1>5. /\ net[<<src, b>>] # <<>> /\ m.type \in Ops
      /\ queryQueue' = [queryQueue EXCEPT ![s] = Append(@, e)]
      /\ nextQueryID' = [nextQueryID EXCEPT ![s] = @ + 2]
      /\ Handle(src, b, mail)
      /\ UNCHANGED <<tableVars, cvLockTrackerList, down, clientVars>>
  BY <1>1, <1>2, <1>3, <1>4 DEF Query, At1, Arrived, QuestionMail
<1>6. m \in Requests /\ k \in Numbers /\ k \in Existing(KindOf(m.type)) /\ ~Mine(s, k) /\ m \notin PollMail
  <2>1. m \in Requests /\ k \in Numbers /\ k \in Existing(KindOf(m.type))
    BY <1>2, <1>3, <1>5, Requested
  <2>2. GoodWord(m, <<src, b>>)
    BY <1>2, <1>5, FirstWord
  <2> QED BY <1>1, <1>3, <2>1, <2>2, Sorts DEF GoodWord
<1>7. kind \in {"lock", "cv", "mv"}
  BY <1>3 DEF KindOf
<1>8. /\ nextQueryID \in [Servers -> Nat] /\ queryQueue \in [Servers -> Seq(Queries)] /\ n \in Nat
      /\ \A t \in Servers : nextQueryID[t] \in Nat
      /\ n <= n
  BY <1>2 DEF Inv, StateOK, TypeOK
<1>9. /\ mail \in Mails
      /\ \A b2 \in Boxes : \A i \in DOMAIN mail[b2] :
            \A x : x = mail[b2][i] =>
               /\ x \in Questions /\ x \in Messages /\ x.to = b2 /\ x.from = s /\ x.id = n /\ x.kind = kind /\ x.obj = k
               /\ b2[1] \in Servers \ {s} /\ b2[2] = 1
      /\ \A b2 \in Boxes : \A T : Single(mail[b2], T)
      /\ \A t \in Servers \ {s} : Hit(mail[<<t, 1>>], QuestionOf(s, n))
  <2>1. Asking(QuestionMail(s, n, kind, k), s, n, kind, k)
    BY <1>6, <1>7, <1>8, QuestionFacts
  <2> QED BY <1>4, <2>1 DEF Asking
<1>10. nextQueryID'[s] = n + 2 /\ \A t \in Servers : t # s => nextQueryID'[t] = nextQueryID[t]
  BY <1>2, <1>5, <1>8
<1>11. Words'
  <2>1. IDsGrow
    <3>1. \A t \in Servers : nextQueryID[t] <= nextQueryID'[t]
      <4>1. n <= n + 2
        BY <1>8
      <4>2. \A t \in Servers : nextQueryID[t] <= nextQueryID[t]
        BY <1>8
      <4> QED BY <1>2, <1>10, <4>1, <4>2
    <3> QED BY <1>5, <1>8, <3>1 DEF IDsGrow
  <2>2. Sent(b[1], mail)'
    <3> SUFFICES ASSUME NEW b2 \in Boxes, NEW i \in DOMAIN mail[b2], NEW y, y = mail[b2][i]
                 PROVE  GoodWord(y, <<b[1], b2>>)'
      BY DEF Sent
    <3>1. y \in Questions /\ y.from = s /\ y.id = n /\ b2[1] # s
      BY <1>9
    <3>2. y \notin Findings /\ y \notin Requests /\ n < nextQueryID'[s]
      BY <1>8, <1>10, <3>1, Sorts
    <3> QED BY <1>1, <3>1, <3>2 DEF GoodWord
  <2> QED BY <1>5, <1>9, <2>1, <2>2, WordsStep DEF Poll
<1>12. PICK Q, R : Q = queryQueue[s] /\ R = Append(Q, e)
  OBVIOUS
<1>13. e \in Queries /\ e.id = n /\ e.numResponsesReceived = 0 /\ e.data = m
  BY <1>3, <1>6, <1>8 DEF Queries
<1>14. /\ Q \in Seq(Queries) /\ Len(Q) \in Nat /\ DOMAIN Q = 1 .. Len(Q) /\ DOMAIN R = 1 .. Len(Q) + 1
       /\ R[Len(Q) + 1] = e /\ \A i \in 1 .. Len(Q) : R[i] = Q[i]
  <2>1. Q \in Seq(Queries)
    BY <1>8, <1>12
  <2> QED BY <1>12, <1>13, <2>1
<1>15. queryQueue'[s] = R /\ \A t \in Servers : t # s => queryQueue'[t] = queryQueue[t]
  BY <1>5, <1>8, <1>12
<1>16. \A i \in DOMAIN R : (i \in DOMAIN Q /\ R[i] = Q[i]) \/ (i = Len(Q) + 1 /\ R[i] = e)
  BY <1>14
<1>17. \A i \in DOMAIN Q : Q[i].id \in Nat /\ Q[i].id < n
  <2> SUFFICES ASSUME NEW i \in DOMAIN Q PROVE Q[i].id \in Nat /\ Q[i].id < n
    OBVIOUS
  <2>1. Q[i].id \in Nat
    BY <1>12, QueryFacts
  <2>2. Q[i].id < n
    BY <1>2, <1>12 DEF Poll, QueryIDs
  <2> QED BY <2>1, <2>2
<1>18. QueryIDs'
  <2> SUFFICES ASSUME NEW t \in Servers, NEW i \in DOMAIN queryQueue'[t]
               PROVE  /\ queryQueue'[t][i].id < nextQueryID'[t]
                      /\ \A j \in DOMAIN queryQueue'[t] : queryQueue'[t][i].id = queryQueue'[t][j].id => i = j
    BY DEF QueryIDs
  <2>1. CASE t # s
    BY <1>10, <1>15, <2>1 DEF Poll, QueryIDs
  <2>2. CASE t = s
    <3>1. i \in DOMAIN R /\ queryQueue'[t] = R /\ nextQueryID'[t] = n + 2
      BY <1>10, <1>15, <2>2
    <3>2. R[i].id < n + 2
      <4>1. n < n + 2 /\ \A h \in Nat : h < n => h < n + 2
        BY <1>8
      <4> QED BY <1>13, <1>16, <1>17, <3>1, <4>1
    <3>3. \A j \in DOMAIN Q : \A h \in DOMAIN Q : Q[j].id = Q[h].id => j = h
      BY <1>12 DEF Poll, QueryIDs
    <3>4. ASSUME NEW j \in DOMAIN R, R[i].id = R[j].id PROVE i = j
      <4>1. ~(n < n)
        BY <1>8
      <4>2. \A h \in DOMAIN Q : Q[h].id # n
        BY <1>17, <4>1
      <4> QED BY <1>13, <1>16, <3>1, <3>3, <3>4, <4>2
    <3> QED BY <3>1, <3>2, <3>4
  <2> QED BY <2>1, <2>2
<1>19. /\ \A ch \in Channels : ~Hit(net[ch], QuestionOf(s, n))
       /\ \A t \in Servers : ~Hit(net[<<t, <<s, 1>>>>], FindingOf(t, n))
  BY <1>2, <1>8, NoWordYet
<1>20. \A b2 \in Boxes : \A T : Hit(mail[b2], T) => \E x \in T : x \in QuestionOf(s, n) /\ x \in Questions /\ x.kind = kind /\ x.obj = k
  <2> SUFFICES ASSUME NEW b2 \in Boxes, NEW T, NEW i \in DOMAIN mail[b2], mail[b2][i] \in T
               PROVE  \E x \in T : x \in QuestionOf(s, n) /\ x \in Questions /\ x.kind = kind /\ x.obj = k
    BY DEF Hit
  <2>1. PICK x : x = mail[b2][i]
    OBVIOUS
  <2>2. x \in Questions /\ x \in Messages /\ x.from = s /\ x.id = n /\ x.kind = kind /\ x.obj = k
    BY <1>9, <2>1
  <2>3. x.type = "DO_YOU_HAVE"
    BY <2>2 DEF Questions
  <2> QED BY <2>1, <2>2, <2>3 DEF QuestionOf
<1>21. \A t \in Servers : \A id \in Nat :
          /\ QuestionOf(t, id) \subseteq Questions /\ FindingOf(t, id) \subseteq Findings
          /\ DenialOf(t, id) \subseteq FindingOf(t, id)
          /\ \A q : q.id = id => Misquoted(t, q) \subseteq QuestionOf(t, id)
  BY PollSets DEF Poll
<1>22. \A t \in Servers : \A id \in Nat : ~(t = s /\ id = n) => QuestionOf(t, id) \cap QuestionOf(s, n) = {}
  BY DEF QuestionOf
<1>23. ASSUME NEW t \in Servers, NEW id \in Nat, NEW T, T \subseteq FindingOf(t, id), NEW ch \in Channels
       PROVE  Single(net'[ch], T) /\ (Hit(net'[ch], T) <=> Hit(net[ch], T))
  <2>1. T \subseteq Findings
    BY <1>21, <1>23
  <2>2. \A b2 \in Boxes : ~Hit(mail[b2], T)
    BY <1>20, <2>1, Sorts
  <2>3. First(src, b) \notin T
    BY <1>2, <1>6, <2>1, Sorts
  <2>4. /\ Hit(net'[ch], T) <=> \/ Hit(net[ch], T) /\ (ch # <<src, b>> \/ First(src, b) \notin T)
                                \/ ch[1] = b[1] /\ Hit(mail[ch[2]], T)
        /\ (ch[1] = b[1] => /\ Single(mail[ch[2]], T)
                            /\ Hit(net[ch], T) /\ Hit(mail[ch[2]], T) => ch = <<src, b>> /\ First(src, b) \in T)
           => Single(net'[ch], T)
    BY <1>5, <1>9, <1>23, PollHits
  <2> QED BY <1>9, <2>2, <2>3, <2>4, BoxFacts
<1>24. ASSUME NEW t \in Servers, NEW id \in Nat, NEW T, T \subseteq QuestionOf(t, id), NEW ch \in Channels
       PROVE  /\ Single(net'[ch], T)
              /\ Hit(net'[ch], T) <=> Hit(net[ch], T) \/ (ch[1] = s /\ Hit(mail[ch[2]], T))
  <2>1. T \subseteq Questions
    BY <1>21, <1>24
  <2>2. First(src, b) \notin T
    BY <1>2, <1>6, <2>1, Sorts
  <2>3. \A b2 \in Boxes : Hit(mail[b2], T) => ~Hit(net[ch], T)
    <3> SUFFICES ASSUME NEW b2 \in Boxes, Hit(mail[b2], T) PROVE ~Hit(net[ch], T)
      OBVIOUS
    <3>1. t = s /\ id = n
      BY <1>20, <1>22, <1>24
    <3> QED BY <1>19, <1>24, <3>1 DEF Hit
  <2>4. /\ Hit(net'[ch], T) <=> \/ Hit(net[ch], T) /\ (ch # <<src, b>> \/ First(src, b) \notin T)
                                \/ ch[1] = b[1] /\ Hit(mail[ch[2]], T)
        /\ (ch[1] = b[1] => /\ Single(mail[ch[2]], T)
                            /\ Hit(net[ch], T) /\ Hit(mail[ch[2]], T) => ch = <<src, b>> /\ First(src, b) \in T)
           => Single(net'[ch], T)
    BY <1>5, <1>9, <1>24, PollHits
  <2> QED BY <1>1, <1>9, <2>2, <2>3, <2>4, BoxFacts
<1>25. ASSUME NEW t \in Servers, NEW id \in Nat, NEW T, T \subseteq QuestionOf(t, id), NEW ch \in Channels,
              ~(t = s /\ id = n)
       PROVE  Hit(net'[ch], T) <=> Hit(net[ch], T)
  <2>1. ~Hit(mail[ch[2]], T)
    BY <1>20, <1>22, <1>25, BoxFacts
  <2> QED BY <1>24, <1>25, <2>1
<1>26. OneWord'
  <2> SUFFICES ASSUME NEW t \in Servers, NEW id \in Nat
               PROVE  /\ \A ch \in Channels : Single(net'[ch], QuestionOf(t, id)) /\ Single(net'[ch], FindingOf(t, id))
                      /\ \A u \in Servers : ~( /\ Hit(net'[<<t, <<u, 1>>>>], QuestionOf(t, id))
                                               /\ Hit(net'[<<u, <<t, 1>>>>], FindingOf(u, id)) )
    BY DEF OneWord, QuestionOf, FindingOf
  <2>1. \A ch \in Channels : Single(net'[ch], QuestionOf(t, id)) /\ Single(net'[ch], FindingOf(t, id))
    BY <1>23, <1>24
  <2>2. ASSUME NEW u \in Servers
        PROVE  ~( /\ Hit(net'[<<t, <<u, 1>>>>], QuestionOf(t, id))
                  /\ Hit(net'[<<u, <<t, 1>>>>], FindingOf(u, id)) )
    <3>1. Hit(net'[<<u, <<t, 1>>>>], FindingOf(u, id)) <=> Hit(net[<<u, <<t, 1>>>>], FindingOf(u, id))
      BY <1>23, Between
    <3>2. CASE t = s /\ id = n
      BY <1>19, <3>1, <3>2
    <3>3. CASE ~(t = s /\ id = n)
      <4>1. Hit(net'[<<t, <<u, 1>>>>], QuestionOf(t, id)) <=> Hit(net[<<t, <<u, 1>>>>], QuestionOf(t, id))
        BY <1>25, <3>3, Between
      <4> QED BY <3>1, <4>1 DEF Poll, OneWord
    <3> QED BY <3>2, <3>3
  <2> QED BY <2>1, <2>2
<1>27. LiveLess
  BY <1>5, SameLive DEF tableVars
<1>28. ASSUME NEW t \in Servers, NEW i \in DOMAIN queryQueue[t], NEW q, q = queryQueue[t][i]
       PROVE  Polled(t, q)'
  <2>1. q \in Queries /\ q.id \in Nat /\ q.data.obj \in Existing(KindOf(q.data.type)) /\ Polled(t, q)
    BY <1>28, QueryFacts DEF Poll, Polls
  <2>2. ~(t = s /\ q.id = n)
    BY <1>8, <1>12, <1>17, <1>28
  <2>3. SameWord(t, q)
    <3> SUFFICES ASSUME NEW u \in Servers \ {t}
                 PROVE  /\ Outstanding(t, u, q.id)' <=> Outstanding(t, u, q.id)
                        /\ Hit(net'[<<u, <<t, 1>>>>], DenialOf(u, q.id)) <=> Hit(net[<<u, <<t, 1>>>>], DenialOf(u, q.id))
                        /\ Hit(net'[<<t, <<u, 1>>>>], Misquoted(t, q)) <=> Hit(net[<<t, <<u, 1>>>>], Misquoted(t, q))
      BY DEF SameWord
    <3>1. Hit(net'[<<t, <<u, 1>>>>], QuestionOf(t, q.id)) <=> Hit(net[<<t, <<u, 1>>>>], QuestionOf(t, q.id))
      BY <1>25, <2>1, <2>2, Between
    <3>2. Hit(net'[<<u, <<t, 1>>>>], FindingOf(u, q.id)) <=> Hit(net[<<u, <<t, 1>>>>], FindingOf(u, q.id))
      BY <1>23, <2>1, Between
    <3>3. Outstanding(t, u, q.id)' <=> Outstanding(t, u, q.id)
      BY <3>1, <3>2 DEF Outstanding, QuestionOf, FindingOf
    <3>4. Misquoted(t, q) \subseteq QuestionOf(t, q.id) /\ DenialOf(u, q.id) \subseteq FindingOf(u, q.id)
      BY <1>21, <2>1
    <3>5. Hit(net'[<<t, <<u, 1>>>>], Misquoted(t, q)) <=> Hit(net[<<t, <<u, 1>>>>], Misquoted(t, q))
      BY <1>25, <2>1, <2>2, <3>4, Between
    <3>6. Hit(net'[<<u, <<t, 1>>>>], DenialOf(u, q.id)) <=> Hit(net[<<u, <<t, 1>>>>], DenialOf(u, q.id))
      BY <1>23, <2>1, <3>4, Between
    <3> QED BY <3>3, <3>5, <3>6
  <2> QED BY <1>27, <2>1, <2>3, PolledStays DEF Counted
<1>29. Polled(s, e)'
  <2>1. HeardFrom(s, n)' \subseteq Servers \ {s}
    BY DEF HeardFrom
  <2>2. Cardinality(HeardFrom(s, n)') \in Nat
    BY <2>1, OtherServersCount, FS_RemoveElement, FS_Subset, FS_CardinalityType
  <2>3. 0 <= Cardinality(HeardFrom(s, n)')
    BY <2>2
  <2>4. ASSUME NEW t \in Servers \ {s}
        PROVE  /\ ~Hit(net'[<<s, <<t, 1>>>>], Misquoted(s, e))
               /\ Outstanding(s, t, n)' /\ ~Hit(net'[<<t, <<s, 1>>>>], DenialOf(t, n))
    <3>1. Misquoted(s, e) \subseteq QuestionOf(s, n) /\ DenialOf(t, n) \subseteq FindingOf(t, n)
      BY <1>8, <1>13, <1>21
    <3>2. <<s, <<t, 1>>>> \in Channels /\ <<t, <<s, 1>>>> \in Channels /\ <<t, 1>> \in Boxes
      BY Between
    <3>3. ~Hit(mail[<<t, 1>>], Misquoted(s, e))
      <4>1. \A x \in Misquoted(s, e) : x.kind # kind \/ x.obj # k
        BY <1>3, <1>13 DEF Misquoted
      <4> QED BY <1>20, <3>2, <4>1
    <3>4. ~Hit(net[<<s, <<t, 1>>>>], Misquoted(s, e))
      BY <1>19, <3>1, <3>2 DEF Hit
    <3>5. ~Hit(net'[<<s, <<t, 1>>>>], Misquoted(s, e))
      BY <1>8, <1>24, <3>1, <3>2, <3>3, <3>4
    <3>6. Hit(net'[<<s, <<t, 1>>>>], QuestionOf(s, n))
      BY <1>8, <1>9, <1>24, <3>2
    <3>7. ~Hit(net[<<t, <<s, 1>>>>], DenialOf(t, n))
      BY <1>19, <3>1 DEF Hit
    <3>8. ~Hit(net'[<<t, <<s, 1>>>>], DenialOf(t, n))
      BY <1>8, <1>23, <3>1, <3>2, <3>7
    <3> QED BY <3>5, <3>6, <3>8 DEF Outstanding, QuestionOf
  <2>5. Misquoted(s, e)' = Misquoted(s, e) /\ \A t : DenialOf(t, n)' = DenialOf(t, n)
    BY DEF Misquoted, DenialOf
  <2> QED BY <1>3, <1>6, <1>13, <2>3, <2>4, <2>5 DEF Polled, Mine
<1>30. Polls'
  <2> SUFFICES ASSUME NEW t \in Servers, NEW i \in DOMAIN queryQueue'[t], NEW q, q = queryQueue'[t][i]
               PROVE  Polled(t, q)'
    BY DEF Polls
  <2>1. CASE t # s
    BY <1>15, <1>28, <2>1
  <2>2. CASE t = s
    <3>1. i \in DOMAIN R /\ q = R[i]
      BY <1>15, <2>2
    <3>2. (i \in DOMAIN Q /\ q = Q[i]) \/ q = e
      BY <1>16, <3>1
    <3> QED BY <1>12, <1>28, <1>29, <2>2, <3>2
  <2> QED BY <2>1, <2>2
<1> QED BY <1>11, <1>18, <1>26, <1>30 DEF Poll

(* A server answers: the question is gone, and the answer is under way.     *)
LEMMA AnswerPoll == ASSUME Inv, Poll, NEW s \in Servers, NEW src \in Machines, Answer(s, src) PROVE Poll'
<1>1. PICK b \in Boxes : b = <<s, 1>> /\ b[1] = s /\ b[2] = 1
  BY BoxFacts
<1>2. PICK m : m = First(src, b)
  OBVIOUS
<1>3. PICK y : y = [to |-> <<m.from, 1>>, type |-> IF Have(s, m) THEN "HAVE" ELSE "DO_NOT_HAVE", from |-> s, id |-> m.id]
  OBVIOUS
<1>4. PICK mail : mail = Only(y)
  OBVIOUS
<1>5. /\ net[<<src, b>>] # <<>> /\ m.type = "DO_YOU_HAVE" /\ Handle(src, b, mail)
      /\ UNCHANGED <<tableVars, serverVars, clientVars>>
  BY <1>1, <1>2, <1>3, <1>4 DEF Answer, At1, Arrived
<1>6. m \in Messages /\ m \in Questions /\ m \in PollMail
  BY <1>2, <1>5, Handled, Types, Sorts
<1>7. m.from = src /\ src \in Servers \ {s} /\ m.id \in Nat /\ m.id < nextQueryID[src]
  <2>1. GoodWord(m, <<src, b>>)
    BY <1>2, <1>5, FirstWord
  <2>2. m.from \in Servers /\ m.id \in Nat
    BY <1>6 DEF Questions
  <2> QED BY <1>1, <1>6, <2>1, <2>2 DEF GoodWord
<1>8. PICK id \in Nat : id = m.id
  BY <1>7
<1>9. /\ y \in Findings /\ y \in Messages /\ y.to = <<src, 1>> /\ y.type \in {"HAVE", "DO_NOT_HAVE"}
      /\ y.from = s /\ y.id = id /\ (y.type = "DO_NOT_HAVE" => ~Have(s, m)) /\ <<src, 1>> \in Boxes
  BY <1>3, <1>7, <1>8, BoxFacts DEF Findings, Messages
<1>10. /\ mail \in Mails
       /\ \A b2 \in Boxes : \A i \in DOMAIN mail[b2] : b2 = y.to /\ mail[b2][i] = y
       /\ \A b2 \in Boxes : \A T : (Hit(mail[b2], T) <=> (b2 = y.to /\ y \in T)) /\ Single(mail[b2], T)
  <2>1. y \in Messages
    BY <1>9
  <2> QED BY <1>4, <2>1, OnlyMail
<1>11. queryQueue' = queryQueue /\ nextQueryID' = nextQueryID /\ LiveLess
  BY <1>5, SameLive DEF tableVars, serverVars
<1>12. Words'
  <2>1. IDsGrow
    BY <1>11, SameIDs
  <2>2. Sent(b[1], mail)'
    <3> SUFFICES ASSUME NEW b2 \in Boxes, NEW i \in DOMAIN mail[b2], NEW z, z = mail[b2][i]
                 PROVE  GoodWord(z, <<b[1], b2>>)'
      BY DEF Sent
    <3>1. z = y /\ b2 = <<src, 1>> /\ b2[1] = src
      BY <1>9, <1>10
    <3>2. z \notin Questions /\ z \notin Requests /\ z.id < nextQueryID'[src]
      BY <1>7, <1>8, <1>9, <1>11, <3>1, Sorts
    <3> QED BY <1>1, <1>7, <1>9, <3>1, <3>2 DEF GoodWord
  <2> QED BY <1>5, <1>10, <2>1, <2>2, WordsStep DEF Poll
<1>13. QueryIDs'
  BY <1>11 DEF Poll, QueryIDs
<1>14. \A t \in Servers : \A j \in Nat :
          /\ QuestionOf(t, j) \subseteq Questions /\ FindingOf(t, j) \subseteq Findings
          /\ DenialOf(t, j) \subseteq FindingOf(t, j)
          /\ \A q : q.id = j => Misquoted(t, q) \subseteq QuestionOf(t, j)
  BY PollSets DEF Poll
<1>15. /\ m \in QuestionOf(src, id) /\ \A t \in Servers : \A j \in Nat : m \in QuestionOf(t, j) => t = src /\ j = id
       /\ y \in FindingOf(s, id) /\ \A t \in Servers : \A j \in Nat : y \in FindingOf(t, j) => t = s /\ j = id
  BY <1>5, <1>6, <1>7, <1>8, <1>9 DEF QuestionOf, FindingOf
<1>16. PICK ah, dh \in Channels : ah = <<src, b>> /\ dh = <<s, <<src, 1>>>> /\ dh[1] = s /\ dh[2] = <<src, 1>>
  <2>1. /\ <<src, b>> \in Channels /\ <<s, <<src, 1>>>> \in Channels
        /\ <<s, <<src, 1>>>>[1] = s /\ <<s, <<src, 1>>>>[2] = <<src, 1>>
    <3>1. PICK t \in Servers : t = src
      BY <1>7
    <3>2. <<t, <<s, 1>>>> \in Channels /\ <<s, <<t, 1>>>> \in Channels
      BY Between
    <3>3. <<s, <<t, 1>>>>[1] = s /\ <<s, <<t, 1>>>>[2] = <<t, 1>>
      OBVIOUS
    <3> QED BY <1>1, <3>1, <3>2, <3>3
  <2> QED BY <2>1
<1>17. Hit(net[ah], QuestionOf(src, id)) /\ ~Hit(net[dh], FindingOf(s, id))
  <2>1. Hit(net[ah], QuestionOf(src, id))
    BY <1>2, <1>5, <1>7, <1>15, <1>16, PollHits, <1>10
  <2> QED BY <1>1, <1>7, <1>16, <2>1 DEF Poll, OneWord
<1>18. ASSUME NEW t \in Servers, NEW j \in Nat, NEW T, T \subseteq QuestionOf(t, j), NEW ch \in Channels
       PROVE  /\ Single(net'[ch], T)
              /\ Hit(net'[ch], T) <=> Hit(net[ch], T) /\ (ch # ah \/ m \notin T)
  <2>1. y \notin T
    BY <1>9, <1>14, <1>18, Sorts
  <2>2. \A b2 \in Boxes : ~Hit(mail[b2], T)
    BY <1>10, <2>1
  <2>3. /\ Hit(net'[ch], T) <=> \/ Hit(net[ch], T) /\ (ch # <<src, b>> \/ First(src, b) \notin T)
                                \/ ch[1] = b[1] /\ Hit(mail[ch[2]], T)
        /\ (ch[1] = b[1] => /\ Single(mail[ch[2]], T)
                            /\ Hit(net[ch], T) /\ Hit(mail[ch[2]], T) => ch = <<src, b>> /\ First(src, b) \in T)
           => Single(net'[ch], T)
    BY <1>5, <1>10, <1>18, PollHits
  <2> QED BY <1>2, <1>10, <1>16, <2>2, <2>3, BoxFacts
<1>19. ASSUME NEW t \in Servers, NEW j \in Nat, NEW T, T \subseteq FindingOf(t, j), NEW ch \in Channels
       PROVE  /\ Single(net'[ch], T)
              /\ Hit(net'[ch], T) <=> Hit(net[ch], T) \/ (ch = dh /\ y \in T)
  <2>1. m \notin T
    BY <1>6, <1>14, <1>19, Sorts
  <2>2. ch[1] = b[1] /\ Hit(mail[ch[2]], T) <=> ch = dh /\ y \in T
    <3>1. ch[2] \in Boxes /\ ch = <<ch[1], ch[2]>>
      BY BoxFacts
    <3>2. Hit(mail[ch[2]], T) <=> (ch[2] = <<src, 1>> /\ y \in T)
      BY <1>9, <1>10, <3>1
    <3> QED BY <1>1, <1>16, <3>1, <3>2
  <2>3. ch = dh /\ y \in T => ~Hit(net[ch], T)
    BY <1>15, <1>17, <1>19 DEF Hit
  <2>4. /\ Hit(net'[ch], T) <=> \/ Hit(net[ch], T) /\ (ch # <<src, b>> \/ First(src, b) \notin T)
                                \/ ch[1] = b[1] /\ Hit(mail[ch[2]], T)
        /\ (ch[1] = b[1] => /\ Single(mail[ch[2]], T)
                            /\ Hit(net[ch], T) /\ Hit(mail[ch[2]], T) => ch = <<src, b>> /\ First(src, b) \in T)
           => Single(net'[ch], T)
    BY <1>5, <1>10, <1>19, PollHits
  <2> QED BY <1>2, <1>10, <2>1, <2>2, <2>3, <2>4, BoxFacts
<1>20. OneWord'
  <2> SUFFICES ASSUME NEW t \in Servers, NEW j \in Nat
               PROVE  /\ \A ch \in Channels : Single(net'[ch], QuestionOf(t, j)) /\ Single(net'[ch], FindingOf(t, j))
                      /\ \A u \in Servers : ~( /\ Hit(net'[<<t, <<u, 1>>>>], QuestionOf(t, j))
                                               /\ Hit(net'[<<u, <<t, 1>>>>], FindingOf(u, j)) )
    BY DEF OneWord, QuestionOf, FindingOf
  <2>1. \A ch \in Channels : Single(net'[ch], QuestionOf(t, j)) /\ Single(net'[ch], FindingOf(t, j))
    BY <1>18, <1>19
  <2>2. ASSUME NEW u \in Servers, Hit(net'[<<t, <<u, 1>>>>], QuestionOf(t, j)), Hit(net'[<<u, <<t, 1>>>>], FindingOf(u, j))
        PROVE  FALSE
    <3>1. PICK ch, ch2 \in Channels : ch = <<t, <<u, 1>>>> /\ ch2 = <<u, <<t, 1>>>>
      BY Between
    <3>2. Hit(net[ch], QuestionOf(t, j)) /\ (ch # ah \/ m \notin QuestionOf(t, j))
      BY <1>18, <2>2, <3>1
    <3>3. Hit(net[ch2], FindingOf(u, j)) \/ (ch2 = dh /\ y \in FindingOf(u, j))
      BY <1>19, <2>2, <3>1
    <3>4. ~Hit(net[ch2], FindingOf(u, j))
      BY <3>1, <3>2 DEF Poll, OneWord
    <3>5. u = s /\ j = id /\ t = src
      BY <1>15, <1>16, <3>1, <3>3, <3>4
    <3> QED BY <1>1, <1>15, <1>16, <3>1, <3>2, <3>5
  <2> QED BY <2>1, <2>2
<1>21. ASSUME NEW t \in Servers, NEW i \in DOMAIN queryQueue[t], NEW q, q = queryQueue[t][i]
       PROVE  Polled(t, q)'
  <2>1. q \in Queries /\ q.id \in Nat /\ q.data.obj \in Existing(KindOf(q.data.type)) /\ Polled(t, q)
    BY <1>21, QueryFacts DEF Poll, Polls
  <2>2. ASSUME NEW u \in Servers \ {t}
        PROVE  /\ Outstanding(t, u, q.id)' <=> Outstanding(t, u, q.id)
               /\ HasIt(u, q) /\ Hit(net'[<<u, <<t, 1>>>>], DenialOf(u, q.id)) => Hit(net[<<u, <<t, 1>>>>], DenialOf(u, q.id))
               /\ Hit(net'[<<t, <<u, 1>>>>], Misquoted(t, q)) => Hit(net[<<t, <<u, 1>>>>], Misquoted(t, q))
    <3>1. PICK ch, ch2 \in Channels : ch = <<t, <<u, 1>>>> /\ ch2 = <<u, <<t, 1>>>>
      BY Between
    <3>2. /\ Hit(net'[ch], QuestionOf(t, q.id)) <=> Hit(net[ch], QuestionOf(t, q.id)) /\ (ch # ah \/ m \notin QuestionOf(t, q.id))
          /\ Hit(net'[ch2], FindingOf(u, q.id)) <=> Hit(net[ch2], FindingOf(u, q.id)) \/ (ch2 = dh /\ y \in FindingOf(u, q.id))
      BY <1>18, <1>19, <2>1
    <3>3. (ch = ah /\ m \in QuestionOf(t, q.id)) <=> (ch2 = dh /\ y \in FindingOf(u, q.id))
      BY <1>1, <1>15, <1>16, <2>1, <3>1
    <3>4. ch = ah /\ m \in QuestionOf(t, q.id) => Hit(net[ch], QuestionOf(t, q.id))
      BY <1>15, <1>17, <2>1
    <3>5. Outstanding(t, u, q.id)' <=> Outstanding(t, u, q.id)
      <4>1. Outstanding(t, u, q.id) <=> Hit(net[ch], QuestionOf(t, q.id)) \/ Hit(net[ch2], FindingOf(u, q.id))
        BY <3>1 DEF Outstanding
      <4>2. Outstanding(t, u, q.id)' <=> Hit(net'[ch], QuestionOf(t, q.id)) \/ Hit(net'[ch2], FindingOf(u, q.id))
        BY <3>1 DEF Outstanding, QuestionOf, FindingOf
      <4> QED BY <3>2, <3>3, <3>4, <4>1, <4>2
    <3>6. Misquoted(t, q) \subseteq QuestionOf(t, q.id) /\ DenialOf(u, q.id) \subseteq FindingOf(u, q.id)
      BY <1>14, <2>1
    <3>7. Hit(net'[ch], Misquoted(t, q)) => Hit(net[ch], Misquoted(t, q))
      BY <1>18, <2>1, <3>6
    <3>8. Hit(net'[ch2], DenialOf(u, q.id)) <=> Hit(net[ch2], DenialOf(u, q.id)) \/ (ch2 = dh /\ y \in DenialOf(u, q.id))
      BY <1>19, <2>1, <3>6
    <3>9. ASSUME HasIt(u, q), ch2 = dh, y \in DenialOf(u, q.id) PROVE FALSE
      <4>1. u = s /\ t = src /\ q.id = id /\ y.type = "DO_NOT_HAVE"
        BY <1>9, <1>15, <2>1, <3>6, <3>1, <1>16, <3>9 DEF DenialOf
      <4>2. ~Hit(net[ah], Misquoted(src, q))
        BY <1>1, <1>7, <1>16, <2>1, <4>1 DEF Polled
      <4>3. m \notin Misquoted(src, q)
        <5>1. Misquoted(src, q) \subseteq QuestionOf(src, id)
          BY <1>7, <1>14, <4>1
        <5>2. Hit(net[<<src, b>>], Misquoted(src, q)) \/ First(src, b) \notin Misquoted(src, q)
          BY <1>5, <1>7, <1>10, <5>1, PollHits
        <5> QED BY <1>2, <1>16, <4>2, <5>2
      <4>4. m.kind = KindOf(q.data.type) /\ m.obj = q.data.obj
        BY <1>5, <1>6, <1>7, <1>8, <4>1, <4>3 DEF Misquoted
      <4>5. Have(s, m)
        BY <3>9, <4>1, <4>4 DEF HasIt, Have
      <4> QED BY <1>9, <4>1, <4>5
    <3> QED BY <3>1, <3>5, <3>7, <3>8, <3>9
  <2>3. SameWord(t, q)
    BY <2>2 DEF SameWord
  <2> QED BY <1>11, <2>1, <2>3, PolledStays DEF Counted
<1>22. Polls'
  <2> SUFFICES ASSUME NEW t \in Servers, NEW i \in DOMAIN queryQueue[t]
               PROVE  Polled(t, queryQueue[t][i])'
    BY <1>11 DEF Polls
  <2>1. PICK q : q = queryQueue[t][i]
    OBVIOUS
  <2>2. Polled(t, q)'
    BY <1>21, <2>1
  <2>3. Polled(t, queryQueue[t][i])' <=> Polled(t, q)'
    BY <1>11, <2>1 DEF Polled
  <2> QED BY <2>2, <2>3
<1> QED BY <1>12, <1>13, <1>20, <1>22 DEF Poll

(* Server s handles what src found in query m.id, with dull mail.           *)
Finding(s, src, m, mail) ==
    /\ net[<<src, <<s, 1>>>>] # <<>> /\ m = First(src, <<s, 1>>) /\ m.type \in {"HAVE", "DO_NOT_HAVE"}
    /\ Dull(mail) /\ Handle(src, <<s, 1>>, mail) /\ nextQueryID' = nextQueryID

(* It was under way, and all else that is said stays.                       *)
LEMMA FindingTaken ==
    ASSUME Inv, Poll, NEW s \in Servers, NEW src \in Machines, NEW m, NEW mail, Finding(s, src, m, mail)
    PROVE  /\ src \in Servers \ {s} /\ m.id \in Nat /\ m.from = src
           /\ Words' /\ OneWord'
           /\ \A t \in Servers : \A q : q.id \in Nat /\ ~(t = s /\ q.id = m.id) => SameWord(t, q)
           /\ \A q : q.id = m.id /\ m.type = "DO_NOT_HAVE" /\ Polled(s, q)
                 => SameWord(s, q) /\ Outstanding(s, src, q.id) /\ ~Outstanding(s, src, q.id)'
<1>1. PICK b \in Boxes : b = <<s, 1>> /\ b[1] = s /\ b[2] = 1
  BY BoxFacts
<1>2. /\ net[<<src, b>>] # <<>> /\ m = First(src, b) /\ m.type \in {"HAVE", "DO_NOT_HAVE"}
      /\ Dull(mail) /\ Handle(src, b, mail) /\ nextQueryID' = nextQueryID /\ mail \in Mails
  BY <1>1 DEF Finding, Dull
<1>3. m \in Messages /\ m \in Findings /\ m \in PollMail
  BY <1>2, Handled, Types, Sorts
<1>4. m.from = src /\ src \in Servers \ {s} /\ m.id \in Nat
  <2>1. GoodWord(m, <<src, b>>)
    BY <1>2, FirstWord
  <2>2. m.from \in Servers /\ m.id \in Nat
    BY <1>3 DEF Findings
  <2> QED BY <1>1, <1>3, <2>1, <2>2 DEF GoodWord
<1>5. PICK id \in Nat : id = m.id
  BY <1>4
<1>6. Words'
  <2>1. IDsGrow
    BY <1>2, SameIDs
  <2>2. Sent(b[1], mail)'
    <3> SUFFICES ASSUME NEW b2 \in Boxes, NEW k \in DOMAIN mail[b2], NEW y, y = mail[b2][k]
                 PROVE  GoodWord(y, <<b[1], b2>>)'
      BY DEF Sent
    <3>1. y \notin PollMail /\ (y \in Requests /\ b2[2] = 1 => ~Mine(b2[1], y.obj))
      BY <1>2 DEF Dull
    <3> QED BY <3>1 DEF GoodWord, PollMail, Mine
  <2> QED BY <1>2, <2>1, <2>2, WordsStep DEF Poll
<1>7. \A t \in Servers : \A j \in Nat :
         /\ QuestionOf(t, j) \subseteq Questions /\ FindingOf(t, j) \subseteq Findings
         /\ DenialOf(t, j) \subseteq FindingOf(t, j)
         /\ \A q : q.id = j => Misquoted(t, q) \subseteq QuestionOf(t, j)
  BY PollSets DEF Poll
<1>8. /\ m \in FindingOf(src, id) /\ \A t \in Servers : \A j \in Nat : m \in FindingOf(t, j) => t = src /\ j = id
      /\ m.type = "DO_NOT_HAVE" => m \in DenialOf(src, id)
  BY <1>2, <1>3, <1>4, <1>5 DEF FindingOf, DenialOf
<1>9. PICK ah \in Channels : ah = <<src, b>>
  BY DEF Channels
<1>10. ASSUME NEW t \in Servers, NEW j \in Nat, NEW T, T \subseteq QuestionOf(t, j) \/ T \subseteq FindingOf(t, j)
       PROVE  /\ \A ch \in Channels : Single(net'[ch], T) /\ (Hit(net'[ch], T) <=> Hit(net[ch], T) /\ (ch # ah \/ m \notin T))
              /\ Hit(net[ah], T) \/ m \notin T
  <2>1. T \subseteq PollMail
    BY <1>7, <1>10 DEF PollMail
  <2>2. /\ \A ch \in Channels : Single(net[ch], T)
        /\ Hit(net[<<src, b>>], T) \/ First(src, b) \notin T
    BY <1>2, <1>10, PollHits
  <2>3. \A ch \in Channels :
           /\ Single(net'[ch], T)
           /\ Hit(net'[ch], T) <=> (Hit(net[ch], T) /\ (ch # <<src, b>> \/ First(src, b) \notin T))
    BY <1>2, <2>1, <2>2, DullHits
  <2> QED BY <1>2, <1>9, <2>2, <2>3
<1>11. ASSUME NEW t \in Servers, NEW j \in Nat, NEW T, T \subseteq QuestionOf(t, j), NEW ch \in Channels
       PROVE  Single(net'[ch], T) /\ (Hit(net'[ch], T) <=> Hit(net[ch], T))
  <2>1. m \notin T
    BY <1>3, <1>7, <1>11, Sorts
  <2> QED BY <1>10, <1>11, <2>1
<1>12. ASSUME NEW t \in Servers, NEW j \in Nat, NEW T, T \subseteq FindingOf(t, j), NEW ch \in Channels
       PROVE  /\ Single(net'[ch], T)
              /\ Hit(net'[ch], T) <=> Hit(net[ch], T) /\ (ch # ah \/ m \notin T)
  BY <1>10, <1>12
<1>13. OneWord'
  <2> SUFFICES ASSUME NEW t \in Servers, NEW j \in Nat
               PROVE  /\ \A ch \in Channels : Single(net'[ch], QuestionOf(t, j)) /\ Single(net'[ch], FindingOf(t, j))
                      /\ \A u \in Servers : ~( /\ Hit(net'[<<t, <<u, 1>>>>], QuestionOf(t, j))
                                               /\ Hit(net'[<<u, <<t, 1>>>>], FindingOf(u, j)) )
    BY DEF OneWord, QuestionOf, FindingOf
  <2>1. \A ch \in Channels : Single(net'[ch], QuestionOf(t, j)) /\ Single(net'[ch], FindingOf(t, j))
    BY <1>11, <1>12
  <2>2. ASSUME NEW u \in Servers, Hit(net'[<<t, <<u, 1>>>>], QuestionOf(t, j)), Hit(net'[<<u, <<t, 1>>>>], FindingOf(u, j))
        PROVE  FALSE
    <3>1. PICK ch, ch2 \in Channels : ch = <<t, <<u, 1>>>> /\ ch2 = <<u, <<t, 1>>>>
      BY Between
    <3>2. Hit(net[ch], QuestionOf(t, j)) /\ Hit(net[ch2], FindingOf(u, j))
      BY <1>11, <1>12, <2>2, <3>1
    <3> QED BY <3>1, <3>2 DEF Poll, OneWord
  <2> QED BY <2>1, <2>2
<1>14. ASSUME NEW t \in Servers, NEW q, q.id \in Nat, NEW u \in Servers, ~(t = s /\ u = src /\ q.id = id)
       PROVE  /\ Outstanding(t, u, q.id)' <=> Outstanding(t, u, q.id)
              /\ Hit(net'[<<u, <<t, 1>>>>], DenialOf(u, q.id)) <=> Hit(net[<<u, <<t, 1>>>>], DenialOf(u, q.id))
              /\ Hit(net'[<<t, <<u, 1>>>>], Misquoted(t, q)) <=> Hit(net[<<t, <<u, 1>>>>], Misquoted(t, q))
  <2>1. PICK ch, ch2 \in Channels : ch = <<t, <<u, 1>>>> /\ ch2 = <<u, <<t, 1>>>>
    BY Between
  <2>2. ch2 # ah \/ m \notin FindingOf(u, q.id)
    BY <1>1, <1>8, <1>9, <1>14, <2>1
  <2>3. Misquoted(t, q) \subseteq QuestionOf(t, q.id) /\ DenialOf(u, q.id) \subseteq FindingOf(u, q.id)
    BY <1>7, <1>14
  <2>4. Hit(net'[ch], QuestionOf(t, q.id)) <=> Hit(net[ch], QuestionOf(t, q.id))
    BY <1>11, <1>14
  <2>5. Hit(net'[ch2], FindingOf(u, q.id)) <=> Hit(net[ch2], FindingOf(u, q.id))
    BY <1>12, <1>14, <2>2
  <2>6. Outstanding(t, u, q.id)' <=> Outstanding(t, u, q.id)
    BY <2>1, <2>4, <2>5 DEF Outstanding, QuestionOf, FindingOf
  <2>7. Hit(net'[ch], Misquoted(t, q)) <=> Hit(net[ch], Misquoted(t, q))
    BY <1>11, <1>14, <2>3
  <2>8. Hit(net'[ch2], DenialOf(u, q.id)) <=> Hit(net[ch2], DenialOf(u, q.id))
    <3>1. ch2 # ah \/ m \notin DenialOf(u, q.id)
      BY <2>2, <2>3
    <3> QED BY <1>12, <1>14, <2>3, <3>1
  <2> QED BY <2>1, <2>6, <2>7, <2>8
<1>15. ASSUME NEW t \in Servers, NEW q, q.id \in Nat, ~(t = s /\ q.id = m.id) PROVE SameWord(t, q)
  BY <1>5, <1>14, <1>15 DEF SameWord
<1>16. ASSUME NEW q, q.id = m.id, m.type = "DO_NOT_HAVE", Polled(s, q)
       PROVE  SameWord(s, q) /\ Outstanding(s, src, q.id) /\ ~Outstanding(s, src, q.id)'
  <2>1. q.id = id /\ q.id \in Nat
    BY <1>5, <1>16
  <2>2. PICK ch \in Channels : ch = <<s, <<src, 1>>>>
    BY <1>4, Between
  <2>3. Hit(net[ah], FindingOf(src, id)) /\ Hit(net[ah], DenialOf(src, id))
    <3>1. DenialOf(src, id) \subseteq FindingOf(src, id)
      BY <1>4, <1>7
    <3> QED BY <1>4, <1>8, <1>10, <1>16, <3>1
  <2>4. ~Hit(net'[ah], FindingOf(src, id))
    BY <1>4, <1>8, <1>12
  <2>5. ~Hit(net[ch], QuestionOf(s, id))
    BY <1>1, <1>4, <1>9, <2>2, <2>3 DEF Poll, OneWord
  <2>6. ~Hit(net'[ch], QuestionOf(s, id))
    BY <1>11, <2>5
  <2>7. Outstanding(s, src, q.id)
    BY <1>1, <1>9, <2>1, <2>3 DEF Outstanding
  <2>8. ~Outstanding(s, src, q.id)'
    BY <1>1, <1>9, <2>1, <2>2, <2>4, <2>6 DEF Outstanding, QuestionOf, FindingOf
  <2>9. ~HasIt(src, q)
    BY <1>1, <1>4, <1>9, <1>16, <2>1, <2>3 DEF Polled
  <2>10. Hit(net'[ch], Misquoted(s, q)) => Hit(net[ch], Misquoted(s, q))
    <3>1. Misquoted(s, q) \subseteq QuestionOf(s, q.id)
      BY <1>7, <2>1
    <3> QED BY <1>11, <2>1, <3>1
  <2>11. ASSUME NEW u \in Servers \ {s}
         PROVE  /\ Outstanding(s, u, q.id)' => Outstanding(s, u, q.id)
                /\ HasIt(u, q) /\ Outstanding(s, u, q.id) => Outstanding(s, u, q.id)'
                /\ HasIt(u, q) /\ Hit(net'[<<u, <<s, 1>>>>], DenialOf(u, q.id)) => Hit(net[<<u, <<s, 1>>>>], DenialOf(u, q.id))
                /\ Hit(net'[<<s, <<u, 1>>>>], Misquoted(s, q)) => Hit(net[<<s, <<u, 1>>>>], Misquoted(s, q))
    <3>1. CASE u = src
      BY <2>2, <2>8, <2>9, <2>10, <3>1
    <3>2. CASE u # src
      BY <1>14, <2>1, <3>2
    <3> QED BY <3>1, <3>2
  <2>12. SameWord(s, q)
    BY <2>11 DEF SameWord
  <2> QED BY <2>7, <2>8, <2>12
<1> QED BY <1>4, <1>6, <1>13, <1>15, <1>16

(* What is left of a sequence without its i-th element.                     *)
LEMMA WithoutAt ==
    ASSUME NEW X, NEW r \in Seq(X), NEW i \in 1 .. Len(r), NEW w, w = Without(r, i)
    PROVE  DOMAIN w = 1 .. Len(r) - 1 /\ \A j \in 1 .. Len(r) - 1 : w[j] = IF j < i THEN r[j] ELSE r[j + 1]
<1>1. PICK T : T = {}
  OBVIOUS
<1>2. Single(r, T)
  BY <1>1 DEF Single
<1>3. /\ Without(r, i) \in Seq(X)
      /\ Len(Without(r, i)) = Len(r) - 1
      /\ \A j \in 1 .. Len(r) - 1 : Without(r, i)[j] = IF j < i THEN r[j] ELSE r[j + 1]
      /\ Single(Without(r, i), T)
      /\ Hit(Without(r, i), T) <=> (Hit(r, T) /\ r[i] \notin T)
  BY <1>2, WithoutKeeps
<1> QED BY <1>3

(* The query is over, and its request goes to the server that has the
   object; the others go on.                                                *)
LEMMA FoundPoll == ASSUME Inv, Poll, NEW s \in Servers, NEW src \in Machines, Found(s, src) PROVE Poll'
<1>1. PICK b \in Boxes : b = <<s, 1>>
  BY BoxFacts
<1>2. PICK m : m = First(src, b)
  OBVIOUS
<1>3. PICK Q, S : Q = queryQueue[s] /\ S = QueryAt(s, m.id)
  OBVIOUS
<1>4. PICK i : i = Lowest(S)
  OBVIOUS
<1>5. PICK mail : mail = IF S = {} THEN Nothing ELSE Only([Q[i].data EXCEPT !.to = <<m.from, 0>>])
  OBVIOUS
<1>6. /\ net[<<src, b>>] # <<>> /\ m.type = "HAVE"
      /\ queryQueue' = [queryQueue EXCEPT ![s] = IF S = {} THEN @ ELSE Without(@, i)]
      /\ Handle(src, b, mail)
      /\ UNCHANGED <<tableVars, nextQueryID, cvLockTrackerList, down, clientVars>>
  BY <1>1, <1>2, <1>3, <1>4, <1>5 DEF Found, At1, Arrived
<1>7. /\ queryQueue \in [Servers -> Seq(Queries)] /\ Q \in Seq(Queries)
      /\ DOMAIN Q = 1 .. Len(Q) /\ Len(Q) \in Nat
  BY <1>3 DEF Inv, StateOK
<1>8. S # {} => i \in 1 .. Len(Q)
  <2>1. S \in SUBSET Nat /\ S \subseteq 1 .. Len(Q)
    BY <1>3, <1>7 DEF QueryAt
  <2>2. S # {} => Lowest(S) \in S
    BY <2>1, LowestIn
  <2> QED BY <1>4, <2>1, <2>2
<1>9. S # {} => Q[i].id = m.id
  <2>1. S \in SUBSET Nat /\ \A j \in S : Q[j].id = m.id
    BY <1>3, <1>7 DEF QueryAt
  <2>2. S # {} => Lowest(S) \in S
    BY <2>1, LowestIn
  <2> QED BY <1>4, <2>1, <2>2
<1>10. S = {} => \A j \in DOMAIN Q : Q[j].id # m.id
  BY <1>3, <1>7 DEF QueryAt
<1>11. Dull(mail)
  <2>1. CASE S = {}
    BY <1>5, <2>1, NothingMail DEF Dull
  <2>2. CASE S # {}
    <3>1. PICK x : x = Q[i].data
      OBVIOUS
    <3>2. x \in Requests /\ x.type \in Ops
      BY <1>3, <1>7, <1>8, <2>2, <3>1, QueryFacts
    <3>3. m \in Messages /\ m \in Findings
      BY <1>2, <1>6, Handled, Types
    <3>4. PICK f \in Servers : f = m.from
      BY <3>3 DEF Findings
    <3>5. PICK y : y = [x EXCEPT !.to = <<f, 0>>]
      OBVIOUS
    <3>6. y \in Requests /\ y \in Messages /\ y.to = <<f, 0>> /\ <<f, 0>> \in Boxes /\ <<f, 0>>[2] = 0
      BY <3>2, <3>4, <3>5, BoxFacts DEF Requests, Messages
    <3>7. Only(y) \in Mails /\ \A b2 \in Boxes : \A j \in DOMAIN Only(y)[b2] : b2 = y.to /\ Only(y)[b2][j] = y
      BY <3>6, OnlyMail
    <3>8. mail = Only(y)
      BY <1>5, <2>2, <3>1, <3>4, <3>5
    <3> QED BY <3>6, <3>7, <3>8, Sorts DEF Dull
  <2> QED BY <2>1, <2>2
<1>12. Finding(s, src, m, mail)
  BY <1>1, <1>2, <1>6, <1>11 DEF Finding
<1>13. /\ src \in Servers \ {s} /\ m.id \in Nat /\ m.from = src
       /\ Words' /\ OneWord'
       /\ \A t \in Servers : \A q : q.id \in Nat /\ ~(t = s /\ q.id = m.id) => SameWord(t, q)
       /\ \A q : q.id = m.id /\ m.type = "DO_NOT_HAVE" /\ Polled(s, q)
             => SameWord(s, q) /\ Outstanding(s, src, q.id) /\ ~Outstanding(s, src, q.id)'
  BY <1>12, FindingTaken
<1>14. LiveLess
  BY <1>6, SameLive DEF tableVars
<1>15. PICK R : R = queryQueue'[s]
  OBVIOUS
<1>16. \A t \in Servers : t # s => queryQueue'[t] = queryQueue[t]
  BY <1>6, <1>7
<1>17. R = IF S = {} THEN Q ELSE Without(Q, i)
  BY <1>3, <1>6, <1>7, <1>15
<1>18. \A h \in DOMAIN R : \E j \in DOMAIN Q : R[h] = Q[j] /\ Q[j].id # m.id
  <2>1. CASE S = {}
    BY <1>10, <1>17, <2>1
  <2>2. CASE S # {}
    <3>4. DOMAIN R = 1 .. Len(Q) - 1 /\ \A j \in 1 .. Len(Q) - 1 : R[j] = IF j < i THEN Q[j] ELSE Q[j + 1]
      BY <1>7, <1>8, <1>17, <2>2, WithoutAt
    <3>5. \A j \in DOMAIN Q : j # i => Q[j].id # m.id
      BY <1>3, <1>7, <1>8, <1>9, <2>2 DEF Poll, QueryIDs
    <3> SUFFICES ASSUME NEW h \in DOMAIN R PROVE \E j \in DOMAIN Q : R[h] = Q[j] /\ Q[j].id # m.id
      OBVIOUS
    <3>6. PICK N \in Nat : N = Len(Q) /\ h \in 1 .. N - 1 /\ i \in 1 .. N
      <4>1. h \in 1 .. Len(Q) - 1
        BY <3>4
      <4>2. i \in 1 .. Len(Q)
        BY <1>8, <2>2
      <4>3. Len(Q) \in Nat
        BY <1>7
      <4> QED BY <4>1, <4>2, <4>3
    <3>7. CASE h < i
      <4>1. h \in DOMAIN Q /\ h # i /\ R[h] = Q[h]
        BY <1>7, <3>4, <3>6, <3>7
      <4> QED BY <3>5, <4>1
    <3>8. CASE ~(h < i)
      <4>1. h + 1 \in 1 .. N /\ h + 1 # i
        BY <3>6, <3>8
      <4>2. h + 1 \in DOMAIN Q /\ R[h] = Q[h + 1]
        BY <1>7, <3>4, <3>6, <3>8, <4>1
      <4> QED BY <3>5, <4>1, <4>2
    <3> QED BY <3>7, <3>8
  <2> QED BY <2>1, <2>2
<1>19. \A g, h \in DOMAIN R : R[g].id = R[h].id => g = h
  <2>1. \A g, h \in DOMAIN Q : Q[g].id = Q[h].id => g = h
    BY <1>3 DEF Poll, QueryIDs
  <2>2. CASE S = {}
    BY <1>17, <2>1, <2>2
  <2>3. CASE S # {}
    <3>4. DOMAIN R = 1 .. Len(Q) - 1 /\ \A j \in 1 .. Len(Q) - 1 : R[j] = IF j < i THEN Q[j] ELSE Q[j + 1]
      BY <1>7, <1>8, <1>17, <2>3, WithoutAt
    <3> SUFFICES ASSUME NEW g \in DOMAIN R, NEW h \in DOMAIN R, R[g].id = R[h].id PROVE g = h
      OBVIOUS
    <3>5. PICK N \in Nat : N = Len(Q) /\ g \in 1 .. N - 1 /\ h \in 1 .. N - 1 /\ i \in 1 .. N
      <4>1. g \in 1 .. Len(Q) - 1 /\ h \in 1 .. Len(Q) - 1
        BY <3>4
      <4>2. i \in 1 .. Len(Q)
        BY <1>8, <2>3
      <4>3. Len(Q) \in Nat
        BY <1>7
      <4> QED BY <4>1, <4>2, <4>3
    <3>6. g \in 1 .. N /\ h \in 1 .. N /\ g + 1 \in 1 .. N /\ h + 1 \in 1 .. N
      BY <3>5
    <3>7. PICK g1, h1 \in 1 .. N : g1 = (IF g < i THEN g ELSE g + 1) /\ h1 = (IF h < i THEN h ELSE h + 1)
      BY <3>6
    <3>8. R[g] = Q[g1] /\ R[h] = Q[h1]
      BY <3>4, <3>5, <3>7
    <3>9. g1 = h1
      BY <1>7, <2>1, <3>5, <3>8
    <3> QED BY <3>5, <3>7, <3>9
  <2> QED BY <2>2, <2>3
<1>20. QueryIDs'
  <2> SUFFICES ASSUME NEW t \in Servers, NEW g \in DOMAIN queryQueue'[t]
               PROVE  /\ queryQueue'[t][g].id < nextQueryID'[t]
                      /\ \A j \in DOMAIN queryQueue'[t] : queryQueue'[t][g].id = queryQueue'[t][j].id => g = j
    BY DEF QueryIDs
  <2>1. nextQueryID' = nextQueryID
    BY <1>6
  <2>2. CASE t # s
    BY <1>16, <2>1, <2>2 DEF Poll, QueryIDs
  <2>3. CASE t = s
    <3>1. PICK j \in DOMAIN Q : R[g] = Q[j]
      BY <1>15, <1>18, <2>3
    <3>2. R[g].id < nextQueryID[s]
      BY <1>3, <3>1 DEF Poll, QueryIDs
    <3> QED BY <1>15, <1>19, <2>1, <2>3, <3>2
  <2> QED BY <2>2, <2>3
<1>21. ASSUME NEW t \in Servers, NEW j \in DOMAIN queryQueue[t], NEW q, q = queryQueue[t][j], ~(t = s /\ q.id = m.id)
       PROVE  Polled(t, q)'
  <2>1. q \in Queries /\ q.id \in Nat /\ q.data.obj \in Existing(KindOf(q.data.type)) /\ Polled(t, q)
    BY <1>21, QueryFacts DEF Poll, Polls
  <2>2. SameWord(t, q)
    BY <1>13, <1>21, <2>1
  <2> QED BY <1>14, <2>1, <2>2, PolledStays DEF Counted
<1>22. Polls'
  <2> SUFFICES ASSUME NEW t \in Servers, NEW g \in DOMAIN queryQueue'[t], NEW q, q = queryQueue'[t][g]
               PROVE  Polled(t, q)'
    BY DEF Polls
  <2>1. CASE t # s
    BY <1>16, <1>21, <2>1
  <2>2. CASE t = s
    <3>1. PICK j \in DOMAIN Q : q = Q[j] /\ q.id # m.id
      BY <1>15, <1>18, <2>2
    <3> QED BY <1>3, <1>21, <2>2, <3>1
  <2> QED BY <2>1, <2>2
<1> QED BY <1>13, <1>20, <1>22 DEF Poll

(* A denial is counted, of a server that was not heard before.              *)
LEMMA NotFoundPoll == ASSUME Inv, Poll, NEW s \in Servers, NEW src \in Machines, NotFound(s, src) PROVE Poll'
<1>1. PICK b \in Boxes : b = <<s, 1>>
  BY BoxFacts
<1>2. PICK m : m = First(src, b)
  OBVIOUS
<1>3. PICK Q, S : Q = queryQueue[s] /\ S = QueryAt(s, m.id)
  OBVIOUS
<1>4. PICK mail : mail = Nothing
  OBVIOUS
<1>5. /\ net[<<src, b>>] # <<>> /\ m.type = "DO_NOT_HAVE"
      /\ queryQueue' = IF 1 \in S THEN [queryQueue EXCEPT ![s][1].numResponsesReceived = @ + 1] ELSE queryQueue
      /\ Handle(src, b, mail)
      /\ UNCHANGED <<tableVars, nextQueryID, cvLockTrackerList, down, clientVars>>
  BY <1>1, <1>2, <1>3, <1>4 DEF NotFound, At1, Arrived
<1>6. /\ queryQueue \in [Servers -> Seq(Queries)] /\ Q \in Seq(Queries)
      /\ DOMAIN Q = 1 .. Len(Q) /\ Len(Q) \in Nat
  BY <1>3 DEF Inv, StateOK
<1>7. Dull(mail)
  BY <1>4, NothingMail DEF Dull
<1>8. Finding(s, src, m, mail)
  BY <1>1, <1>2, <1>5, <1>7 DEF Finding
<1>9. /\ src \in Servers \ {s} /\ m.id \in Nat /\ m.from = src
      /\ Words' /\ OneWord'
      /\ \A t \in Servers : \A q : q.id \in Nat /\ ~(t = s /\ q.id = m.id) => SameWord(t, q)
      /\ \A q : q.id = m.id /\ m.type = "DO_NOT_HAVE" /\ Polled(s, q)
            => SameWord(s, q) /\ Outstanding(s, src, q.id) /\ ~Outstanding(s, src, q.id)'
  BY <1>8, FindingTaken
<1>10. LiveLess
  BY <1>5, SameLive DEF tableVars
<1>11. 1 \in S => 1 \in DOMAIN Q /\ Q[1].id = m.id
  BY <1>3, <1>6 DEF QueryAt
<1>12. PICK e : e = [Q[1] EXCEPT !.numResponsesReceived = @ + 1]
  OBVIOUS
<1>13. 1 \in S => /\ Q[1] \in Queries /\ e \in Queries /\ e.id = Q[1].id /\ e.data = Q[1].data
                  /\ e.numResponsesReceived = Q[1].numResponsesReceived + 1
  <2>1. 1 \in S => Q[1] \in Queries
    BY <1>6, <1>11
  <2> QED BY <1>12, <2>1 DEF Queries
<1>14. \A t \in Servers : DOMAIN queryQueue'[t] = DOMAIN queryQueue[t]
  BY <1>5, <1>6
<1>15. \A t \in Servers : \A j \in DOMAIN queryQueue[t] :
          queryQueue'[t][j] = IF t = s /\ j = 1 /\ 1 \in S THEN e ELSE queryQueue[t][j]
  BY <1>3, <1>5, <1>6, <1>12
<1>16. \A t \in Servers : \A j \in DOMAIN queryQueue[t] : queryQueue'[t][j].id = queryQueue[t][j].id
  BY <1>3, <1>13, <1>15
<1>17. QueryIDs'
  BY <1>5, <1>14, <1>16 DEF Poll, QueryIDs
<1>18. Polls'
  <2> SUFFICES ASSUME NEW t \in Servers, NEW j \in DOMAIN queryQueue[t], NEW r, r = queryQueue'[t][j]
               PROVE  Polled(t, r)'
    BY <1>14 DEF Polls
  <2>1. PICK q : q = queryQueue[t][j]
    OBVIOUS
  <2>2. q \in Queries /\ q.id \in Nat /\ q.data.obj \in Existing(KindOf(q.data.type)) /\ Polled(t, q)
    BY <2>1, QueryFacts DEF Poll, Polls
  <2>3. SameWord(t, q)
    BY <1>5, <1>9, <2>2
  <2>4. Counted(t, q, r)
    <3>1. CASE t = s /\ j = 1 /\ 1 \in S
      <4>1. r = e /\ q = Q[1] /\ q.id = m.id
        BY <1>3, <1>11, <1>15, <2>1, <3>1
      <4>2. Outstanding(s, src, q.id) /\ ~Outstanding(s, src, q.id)'
        BY <1>5, <1>9, <2>2, <3>1, <4>1
      <4> QED BY <1>9, <1>13, <3>1, <4>1, <4>2 DEF Counted
    <3>2. CASE ~(t = s /\ j = 1 /\ 1 \in S)
      <4>1. r = q
        BY <1>15, <2>1, <3>2
      <4> QED BY <2>2, <4>1 DEF Counted
    <3> QED BY <3>1, <3>2
  <2> QED BY <1>10, <2>2, <2>3, <2>4, PolledStays
<1> QED BY <1>9, <1>17, <1>18 DEF Poll

(* At the start nothing is asked.                                           *)
LEMMA InitPoll == ASSUME Init PROVE Poll
<1> USE DEF Init
<1>1. \A ch \in Channels : DOMAIN net[ch] = {}
  OBVIOUS
<1>2. \A s \in Servers : DOMAIN queryQueue[s] = {}
  OBVIOUS
<1>3. Words
  BY <1>1 DEF Words
<1>4. QueryIDs
  BY <1>2 DEF QueryIDs
<1>5. \A ch \in Channels : \A T : ~Hit(net[ch], T) /\ Single(net[ch], T)
  BY <1>1 DEF Hit, Single
<1>6. OneWord
  BY <1>5, Between DEF OneWord
<1>7. Polls
  BY <1>2 DEF Polls
<1> QED BY <1>3, <1>4, <1>6, <1>7 DEF Poll

(* A step that changes nothing keeps it.                                    *)
LEMMA StutterPoll == ASSUME Inv, Poll, UNCHANGED vars PROVE Poll'
<1>1. UNCHANGED <<net, queryQueue, nextQueryID, lock, cond, mv>>
  BY DEF vars, tableVars, serverVars
<1>2. LiveLess
  BY <1>1, SameLive
<1>3. Words'
  BY <1>1 DEF Poll, Words, GoodWord, Mine
<1>4. Untold
  BY <1>1 DEF Untold
<1> QED BY <1>1, <1>2, <1>3, <1>4, UntoldStep

(* Every action keeps what is asked and answered in order.                  *)
LEMMA PollNext == ASSUME Inv, Poll, [Next]_vars PROVE Poll'
<1>1. ASSUME NEW c \in Clients, ClientNext(c) PROVE Poll'
  <2>1. ASSUME NEW op \in Ops, NEW k \in Existing(KindOf(op)), NEW a \in Args(op), NEW s \in Servers,
               Call(c, op, k, a, s)
        PROVE  Poll'
    BY <2>1, CallPoll
  <2>2. ASSUME NEW src \in Servers, Return(c, src) PROVE Poll'
    BY <2>2, ReturnPoll
  <2>3. ASSUME NEW src \in Servers, NEW s \in Servers, Reacquire(c, src, s) PROVE Poll'
    BY <2>3, ReacquirePoll
  <2> QED BY <1>1, <2>1, <2>2, <2>3 DEF ClientNext
<1>2. ASSUME NEW s \in Servers, NEW src \in Machines, ServerNext(s, src) PROVE Poll'
  <2>1. CASE PassOn(s, src) \/ PassOnCV(s, src)
    BY <2>1, PassOnPoll
  <2>2. CASE Acquire(s, src)
    BY <2>2, AcquirePoll
  <2>3. CASE Release(s, src)
    BY <2>3, ReleasePoll
  <2>4. CASE DestroyLock(s, src)
    BY <2>4, DestroyLockPoll
  <2>5. CASE DestroyCV(s, src)
    BY <2>5, DestroyCVPoll
  <2>6. CASE GetMV(s, src)
    BY <2>6, GetMVPoll
  <2>7. CASE SetMV(s, src)
    BY <2>7, SetMVPoll
  <2>8. CASE DestroyMV(s, src)
    BY <2>8, DestroyMVPoll
  <2>9. CASE AskOwner(s, src)
    BY <2>9, AskOwnerPoll
  <2>10. CASE NoSuchLock(s, src)
    BY <2>10, NoSuchLockPoll
  <2>11. CASE WaitHere(s, src)
    BY <2>11, WaitHerePoll
  <2>12. CASE WakeHere(s, src)
    BY <2>12, WakeHerePoll
  <2>13. CASE DoesClientHaveLock(s, src)
    BY <2>13, DoesClientHaveLockPoll
  <2>14. CASE Validated(s, src)
    BY <2>14, ValidatedPoll
  <2>15. CASE NoMessageType(s, src)
    BY <2>15, NoMessageTypePoll
  <2>16. CASE Query(s, src)
    BY <2>16, QueryPoll
  <2>17. CASE Answer(s, src)
    BY <2>17, AnswerPoll
  <2>18. CASE Found(s, src)
    BY <2>18, FoundPoll
  <2>19. CASE NotFound(s, src)
    BY <2>19, NotFoundPoll
  <2> QED BY <1>2, <2>1, <2>2, <2>3, <2>4, <2>5, <2>6, <2>7, <2>8, <2>9, <2>10, <2>11, <2>12,
             <2>13, <2>14, <2>15, <2>16, <2>17, <2>18, <2>19 DEF ServerNext
<1>3. CASE UNCHANGED vars
  BY <1>3, StutterPoll
<1> QED BY <1>1, <1>2, <1>3 DEF Next

-----------------------------------------------------------------------------
(* The theorems                                                            *)

(* What the tables of the servers, the mail and the clients keep between   *)
(* them, whatever handler of server.cc runs: the strengthening that the    *)
(* properties below follow from.                                           *)
THEOREM InvHolds == Spec => []Inv
<1>1. Inv /\ [Next]_vars => Inv'
  BY NextInv
<1>2. Init => Inv
  BY InitInv
<1> QED BY <1>1, <1>2, PTL DEF Spec

(* Type correctness: the tables of every server, the queues of server.cc   *)
(* and what travels between them keep the shape the code gives them.       *)
THEOREM TypesHold == Spec => []TypeOK
<1>1. Inv => TypeOK
  BY InvImplies
<1> QED BY <1>1, InvHolds, PTL

(* Mutual exclusion: a client that was told it has a lock is its owner in  *)
(* the table of the server that keeps the lock, so no two believe to have  *)
(* it (ServerLock::Acquire and Release of synch.cc, reached through any    *)
(* number of servers of server.cc that pass the request on).               *)
THEOREM HoldersOwnHolds == Spec => []HoldersOwn
<1>1. Inv => HoldersOwn
  BY InvImplies
<1> QED BY <1>1, InvHolds, PTL

(* No request is answered twice, and no answer is left over for the next   *)
(* call: whichever way a request goes through the mail, the queryQueue and *)
(* the cvLockTrackerList of server.cc and the queues of locks and          *)
(* conditions, it leaves one trace, and none once its client goes on.      *)
THEOREM NoSecondAnswerHolds == Spec => []NoSecondAnswer
<1>1. Inv => NoSecondAnswer
  BY InvImplies
<1> QED BY <1>1, InvHolds, PTL

(* A client asleep on a condition no longer holds the lock it came with,   *)
(* where one server keeps both: the case WAIT of Server() in server.cc     *)
(* releases the lock as it puts the client to sleep, and nothing gives it  *)
(* back before the client is woken.                                        *)
THEOREM SleepersGaveUpLockHolds == Spec => []SleepersGaveUpLock
<1>1. Inv => SleepersGaveUpLock
  BY InvImplies
<1> QED BY <1>1, InvHolds, PTL

(* The questions and answers between the servers stay in order.             *)
LEMMA PollHolds == Spec => [](Inv /\ Poll)
<1>1. Inv /\ Poll /\ [Next]_vars => Inv' /\ Poll'
  BY NextInv, PollNext
<1>2. Init => Inv /\ Poll
  BY InitInv, InitPoll
<1> QED BY <1>1, <1>2, PTL DEF Spec

(* A query is given up by all only if no server has the object, or denies
   it for its index 0: a server that has it is asked, and the last denial
   does not come before its HAVE (cases QUERY, DO_YOU_HAVE, HAVE and
   DO_NOT_HAVE of Server() in server.cc).                                   *)
THEOREM GivenUpRightlyHolds == Spec => []GivenUpRightly
<1>1. Inv /\ Poll => GivenUpRightly
  <2> SUFFICES ASSUME Inv, Poll, NEW s \in Servers, NEW i \in DOMAIN queryQueue[s], NEW q, q = queryQueue[s][i],
                      Live(KindOf(q.data.type), q.data.obj), decodeIndex(q.data.obj) > 0
               PROVE  q.numResponsesReceived < NumServers - 1
    BY DEF GivenUpRightly
  <2> QED BY PollImplies
<1> QED BY <1>1, PollHolds, PTL

=============================================================================
