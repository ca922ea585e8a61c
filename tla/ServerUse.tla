----------------------------- MODULE ServerUse -----------------------------
(***************************************************************************)
(* The use of locks, conditions and monitor variables of the replicated    *)
(* lock server: the requests of code/network/server.cc other than CREATE,  *)
(* ServerLock and ServerCondition of threads/synch.cc, and the stubs of    *)
(* userprog/exception.cc that send one request and wait for one answer.    *)
(*                                                                         *)
(* An object's number says which server has it, but a client sends its     *)
(* requests to any server.  One that does not have the object asks all     *)
(* others (mailbox 1) and passes the request on to the one that does.  The *)
(* operations on a condition also need a lock, maybe of another server,    *)
(* which is asked first whether the client holds it (cvLockTrackerList).   *)
(*                                                                         *)
(* The objects exist already (ServerCreate).  A handler is one action.     *)
(***************************************************************************)
EXTENDS ServerMail

CONSTANTS
    MaxObjects,          \* MAX_SERVER_LOCKS, MAX_SERVER_CVS, MAX_SERVER_MV_ARRAYS
    LockNums, CVNums, MVNums,   \* the numbers of the objects that were created
    Values,              \* what a monitor variable may hold
    Programs,            \* bound: the system calls each client may make as its n-th
    NoOne                \* NULL

LockOps == {"ACQUIRE", "RELEASE", "DESTROY_LOCK"}
UseOps  == {"WAIT", "SIGNAL", "BROADCAST"}
MVOps   == {"GET_MV", "SET_MV", "DESTROY_MV"}
Ops     == LockOps \cup UseOps \cup {"DESTROY_CV"} \cup MVOps
Numbers == 0 .. NumServers * MaxObjects - 1

ASSUME UseAssumption ==
    /\ MaxObjects \in Nat \ {0}
    /\ LockNums \cup CVNums \cup MVNums \subseteq Numbers
    /\ Values \subseteq Nat /\ 0 \in Values /\ Programs \in [Clients -> Seq(SUBSET Ops)]
    /\ NoOne \notin Machines

VARIABLES
    lock,                \* serverLockTable, by encoded number
    cond,                \* serverConditionTable
    mv,                  \* serverMVTable
    queryQueue, nextQueryID, cvLockTrackerList,
    down,                \* servers that hang
    call, calls,         \* what each client waits for, and its calls so far
    holds,               \* history: locks each client believes it holds
    retired              \* history: objects that a client has destroyed

tableVars  == <<lock, cond, mv>>
serverVars == <<queryQueue, nextQueryID, cvLockTrackerList, down>>
clientVars == <<call, calls, holds, retired>>
vars == <<net, tableVars, serverVars, clientVars>>

(* An operation, the number of its object, and the lock of an operation on a
   condition or the value of SET_MV.                                        *)
Request(b, op, c, k, a) == [to |-> b, type |-> op, from |-> c, obj |-> k, arg |-> a]
Reply(c, v) == [to |-> <<c, 0>>, type |-> "REPLY", value |-> v]
(* One answer -1 to each machine of the sequence q, as often as it is there. *)
Replies(q) ==
    [b \in Boxes |-> IF b[2] = 1 THEN <<>>
                     ELSE [i \in 1 .. Cardinality({j \in 1..Len(q) : q[j] = b[1]}) |->
                              Reply(b[1], -1)]]

Idle == [op |-> "none", obj |-> 0, arg |-> 0]

KindOf(op) == CASE op \in LockOps -> "lock" [] op \in MVOps -> "mv" [] OTHER -> "cv"
Existing(kind) == CASE kind = "lock" -> LockNums [] kind = "cv" -> CVNums [] OTHER -> MVNums
Args(op) == CASE op \in UseOps -> LockNums [] op = "SET_MV" -> Values [] OTHER -> {0}

Without(q, i) == SubSeq(q, 1, i - 1) \o SubSeq(q, i + 1, Len(q))
Elements(q) == {q[i] : i \in 1..Len(q)}
Lowest(S) == CHOOSE i \in S : \A j \in S : i <= j

NewLock == [live |-> TRUE, owner |-> NoOne, queue |-> <<>>, acquireCount |-> 0, isToBeDeleted |-> FALSE]
NewCond == [live |-> TRUE, waitingLock |-> -1, queue |-> <<>>, isToBeDeleted |-> FALSE]

Init ==
    /\ net = [ch \in Channels |-> <<>>]
    /\ lock = [l \in LockNums |-> NewLock]
    /\ cond = [k \in CVNums |-> NewCond]
    /\ mv = [v \in MVNums |-> [live |-> TRUE, value |-> 0]]
    /\ queryQueue = [s \in Servers |-> <<>>]
    /\ nextQueryID = [s \in Servers |-> 0]
    /\ cvLockTrackerList = [s \in Servers |-> <<>>]
    /\ down = {}
    /\ call = [c \in Clients |-> Idle]
    /\ calls = [c \in Clients |-> 0]
    /\ holds = [c \in Clients |-> {}]
    /\ retired = {}

-----------------------------------------------------------------------------
(* The system calls of the clients                                         *)

(* The objects a client's calls are about, as kind and number.              *)
InUseBy(c) ==
    {<<"lock", l>> : l \in holds[c]} \cup
    (IF call[c] = Idle THEN {}
     ELSE {<<KindOf(call[c].op), call[c].obj>>} \cup
          (IF call[c].op \in UseOps THEN {<<"lock", call[c].arg>>} ELSE {}))

(* Programs destroy an object when nobody uses it any more, and do not use
   it afterwards, except that a late Signal or Broadcast may name it.       *)
Sensible(c, op, k, a) ==
    /\ op \notin {"SIGNAL", "BROADCAST"} => <<KindOf(op), k>> \notin retired
    /\ op = "WAIT" => <<"lock", a>> \notin retired
    /\ op \in {"DESTROY_LOCK", "DESTROY_CV", "DESTROY_MV"} =>
           \A d \in Clients : <<KindOf(op), k>> \notin InUseBy(d)

(* One request to a server picked at random; only DestroyMV does not wait for
   an answer.                                                               *)
Call(c, op, k, a, s) ==
    /\ call[c] = Idle /\ calls[c] < Len(Programs[c])
    /\ op \in Programs[c][calls[c] + 1]
    /\ Sensible(c, op, k, a)
    /\ call' = [call EXCEPT ![c] = IF op = "DESTROY_MV" THEN Idle
                                   ELSE [op |-> op, obj |-> k, arg |-> a]]
    /\ calls' = [calls EXCEPT ![c] = @ + 1]
    /\ holds' = [holds EXCEPT ![c] = @ \ CASE op = "RELEASE" -> {k} [] op = "WAIT" -> {a}
                                             [] OTHER -> {}]
    /\ retired' = IF op \in {"DESTROY_LOCK", "DESTROY_CV", "DESTROY_MV"}
                  THEN retired \cup {<<KindOf(op), k>>} ELSE retired
    /\ net' = Posted(net, c, Only(Request(<<s, 0>>, op, c, k, a)))
    /\ UNCHANGED <<tableVars, serverVars>>

(* Any answer in the mailbox ends the call.                                 *)
Return(c, src) ==
    /\ call[c] # Idle /\ call[c].op # "WAIT"
    /\ Arrived(src, <<c, 0>>, {"REPLY"})
    /\ call' = [call EXCEPT ![c] = Idle]
    /\ holds' = [holds EXCEPT ![c] = IF call[c].op = "ACQUIRE" THEN @ \cup {call[c].obj} ELSE @]
    /\ Handle(src, <<c, 0>>, Nothing)
    /\ UNCHANGED <<tableVars, serverVars, calls, retired>>

(* Deviation: Wait returns without the lock's answer.                       *)
ReacquireNot(c, src, s) ==
    /\ call[c].op = "WAIT"
    /\ Arrived(src, <<c, 0>>, {"REPLY"})
    /\ call' = [call EXCEPT ![c] = Idle]
    /\ holds' = [holds EXCEPT ![c] = @ \cup {call[c].arg}]
    /\ Handle(src, <<c, 0>>, Nothing)
    /\ UNCHANGED <<tableVars, serverVars, calls, retired>>

(* Wait goes on to reacquire the lock.                                      *)
Reacquire(c, src, s) ==
    /\ call[c].op = "WAIT"
    /\ Arrived(src, <<c, 0>>, {"REPLY"})
    /\ call' = [call EXCEPT ![c] = [op |-> "ACQUIRE", obj |-> @.arg, arg |-> 0]]
    /\ Handle(src, <<c, 0>>, Only(Request(<<s, 0>>, "ACQUIRE", c, call[c].arg, 0)))
    /\ UNCHANGED <<tableVars, serverVars, calls, holds, retired>>

-----------------------------------------------------------------------------
(* Server(): the thread of mailbox 0, operations on one object             *)

Mine(s, k) == k \div MaxObjects = s
decodeIndex(k) == k % MaxObjects
At(s, src, types) == s \notin down /\ Arrived(src, <<s, 0>>, types)
Message(s, src) == First(src, <<s, 0>>)

(* A request for an object of another server goes to the own mailbox 1.     *)
PassOn(s, src) ==
    /\ At(s, src, Ops \ UseOps)
    /\ ~Mine(s, Message(s, src).obj)
    /\ Handle(src, <<s, 0>>, Only([Message(s, src) EXCEPT !.to = <<s, 1>>]))
    /\ UNCHANGED <<tableVars, serverVars, clientVars>>

Local(s, src, op) == At(s, src, {op}) /\ Mine(s, Message(s, src).obj)

(* Deviation: the holder who asks again is not answered.                    *)
AcquireAnswersOnce(L, c) == IF ~L.live \/ L.owner = NoOne THEN <<c>> ELSE <<>>

(* ServerLock::Acquire: who is answered.                                    *)
AcquireAnswers(L, c) == IF ~L.live \/ L.owner \in {NoOne, c} THEN <<c>> ELSE <<>>

Acquired(L, c) ==
    IF ~L.live THEN L
    ELSE [L EXCEPT !.acquireCount = @ + 1,
                   !.owner = IF @ = NoOne THEN c ELSE @,
                   !.queue = IF L.owner \in {NoOne, c} THEN @ ELSE Append(@, c)]

Acquire(s, src) ==
    LET m == Message(s, src) IN
    /\ Local(s, src, "ACQUIRE")
    /\ lock' = [lock EXCEPT ![m.obj] = Acquired(@, m.from)]
    /\ Handle(src, <<s, 0>>, Replies(AcquireAnswers(lock[m.obj], m.from)))
    /\ UNCHANGED <<cond, mv, serverVars, clientVars>>

Dead(x) == [x EXCEPT !.live = FALSE, !.queue = <<>>]

(* ServerLock::Release: the client that gets the lock now.                  *)
NextOwner(L, c) == IF L.live /\ L.owner = c /\ L.queue # <<>> THEN <<Head(L.queue)>> ELSE <<>>

(* ServerRelease: hand-over, then deletion of a lock marked for it.  The
   count goes down although the caller may not be the owner.                *)
Released(L, c) ==
    LET next == NextOwner(L, c)
        M == [L EXCEPT !.acquireCount = @ - 1,
                       !.owner = IF next # <<>> THEN next[1] ELSE IF @ = c THEN NoOne ELSE @,
                       !.queue = IF next # <<>> THEN Tail(@) ELSE @]
    IN IF ~L.live THEN L
       ELSE IF M.isToBeDeleted /\ M.acquireCount = 0 /\ M.owner = NoOne THEN Dead(M) ELSE M

Release(s, src) ==
    LET m == Message(s, src) IN
    /\ Local(s, src, "RELEASE")
    /\ lock' = [lock EXCEPT ![m.obj] = Released(@, m.from)]
    /\ Handle(src, <<s, 0>>, Replies(<<m.from>> \o NextOwner(lock[m.obj], m.from)))
    /\ UNCHANGED <<cond, mv, serverVars, clientVars>>

(* ServerDestroyLock: nobody is answered.                                   *)
DestroyLock(s, src) ==
    LET m == Message(s, src)
        L == lock[m.obj]
    IN /\ Local(s, src, "DESTROY_LOCK")
       /\ lock' = [lock EXCEPT ![m.obj] =
                      IF ~L.live THEN L
                      ELSE IF L.owner # NoOne /\ L.acquireCount = 0
                           THEN [L EXCEPT !.isToBeDeleted = TRUE] ELSE [Dead(L) EXCEPT !.owner = NoOne]]
       /\ Handle(src, <<s, 0>>, Nothing)
       /\ UNCHANGED <<cond, mv, serverVars, clientVars>>

(* ServerDestroyCV is given the number where it expects the index.          *)
DestroyCV(s, src) ==
    LET m == Message(s, src)
        C == cond[m.obj]
    IN /\ Local(s, src, "DESTROY_CV")
       /\ cond' = [cond EXCEPT ![m.obj] =
                      IF ~C.live \/ m.obj >= MaxObjects THEN C
                      ELSE IF C.queue # <<>> THEN [C EXCEPT !.isToBeDeleted = TRUE] ELSE Dead(C)]
       /\ Handle(src, <<s, 0>>, Nothing)
       /\ UNCHANGED <<lock, mv, serverVars, clientVars>>

GetMV(s, src) ==
    LET m == Message(s, src)
        V == mv[m.obj]
    IN /\ Local(s, src, "GET_MV")
       /\ Handle(src, <<s, 0>>, Only(Reply(m.from, IF V.live THEN V.value ELSE -1)))
       /\ UNCHANGED <<tableVars, serverVars, clientVars>>

SetMV(s, src) ==
    LET m == Message(s, src) IN
    /\ Local(s, src, "SET_MV")
    /\ mv' = [mv EXCEPT ![m.obj].value = IF mv[m.obj].live THEN m.arg ELSE @]
    /\ Handle(src, <<s, 0>>, Replies(<<m.from>>))
    /\ UNCHANGED <<lock, cond, serverVars, clientVars>>

DestroyMV(s, src) ==
    LET m == Message(s, src) IN
    /\ Local(s, src, "DESTROY_MV")
    /\ mv' = [mv EXCEPT ![m.obj].live = FALSE]
    /\ Handle(src, <<s, 0>>, Nothing)
    /\ UNCHANGED <<lock, cond, serverVars, clientVars>>

-----------------------------------------------------------------------------
(* Operations on a condition and a lock                                    *)

(* ServerWait and ServerCondition::Wait: the condition remembers the lock w
   of its first waiter and turns those with another away, unanswered.       *)
Waited(C, w, c) ==
    LET W == IF C.waitingLock = -1 THEN w ELSE C.waitingLock
        D == [C EXCEPT !.waitingLock = W, !.queue = IF w = W THEN Append(@, c) ELSE @]
    IN IF ~C.live THEN C
       ELSE IF D.isToBeDeleted /\ D.queue = <<>> THEN Dead(D) ELSE D

(* ServerSignal, ServerBroadcast: the clients that are answered.            *)
Woken(C, op, w) ==
    IF ~C.live \/ C.queue = <<>> \/ C.waitingLock # w THEN <<>>
    ELSE IF op = "SIGNAL" THEN <<Head(C.queue)>> ELSE C.queue

AfterWake(C, op, w) ==
    LET n == Len(Woken(C, op, w))
        rest == SubSeq(C.queue, n + 1, Len(C.queue))
    IN [C EXCEPT !.queue = rest, !.waitingLock = IF n > 0 /\ rest = <<>> THEN -1 ELSE @]

(* ServerBroadcast repeats Signal until the queue is empty: with a wrong lock
   it never is.                                                             *)
Spins(C, op, w) == op = "BROADCAST" /\ C.live /\ C.queue # <<>> /\ C.waitingLock # w

(* Server s wakes clients of condition k for client c and answers both.     *)
Wake(s, src, c, op, k, w) ==
    /\ cond' = [cond EXCEPT ![k] = AfterWake(@, op, w)]
    /\ down' = IF Spins(cond[k], op, w) THEN down \cup {s} ELSE down
    /\ Handle(src, <<s, 0>>,
              IF Spins(cond[k], op, w) THEN Nothing ELSE Replies(Append(Woken(cond[k], op, w), c)))

CVLockTracker(m) == [client |-> m.from, op |-> m.type, cvNum |-> m.obj, lockNum |-> m.arg]

(* The lock is another server's: it is asked whether the client holds it.   *)
AskOwner(s, src) ==
    LET m == Message(s, src) IN
    /\ At(s, src, UseOps)
    /\ ~Mine(s, m.arg)
    /\ cvLockTrackerList' = [cvLockTrackerList EXCEPT ![s] =
           Append(@, CVLockTracker(m))]
    /\ Handle(src, <<s, 0>>,
              Only([to |-> <<m.arg \div MaxObjects, 0>>, type |-> "DOES_CLIENT_HAVE_LOCK",
                    from |-> s, client |-> m.from, lockNum |-> m.arg]))
    /\ UNCHANGED <<tableVars, queryQueue, nextQueryID, down, clientVars>>

(* The lock is gone: Wait is not even answered.                             *)
NoSuchLock(s, src) ==
    LET m == Message(s, src) IN
    /\ At(s, src, UseOps)
    /\ Mine(s, m.arg) /\ ~lock[m.arg].live
    /\ Handle(src, <<s, 0>>, IF m.type = "WAIT" THEN Nothing ELSE Replies(<<m.from>>))
    /\ UNCHANGED <<tableVars, serverVars, clientVars>>

HasLock(s, src, ops) ==
    /\ At(s, src, ops)
    /\ Mine(s, Message(s, src).arg) /\ lock[Message(s, src).arg].live

PassOnCV(s, src) ==
    /\ HasLock(s, src, UseOps)
    /\ ~Mine(s, Message(s, src).obj)
    /\ Handle(src, <<s, 0>>, Only([Message(s, src) EXCEPT !.to = <<s, 1>>]))
    /\ UNCHANGED <<tableVars, serverVars, clientVars>>

(* Deviation: Wait keeps the lock.                                          *)
WaitHereKeepsLock(s, src) ==
    LET m == Message(s, src) IN
    /\ HasLock(s, src, {"WAIT"}) /\ Mine(s, m.obj)
    /\ cond' = [cond EXCEPT ![m.obj] = Waited(@, decodeIndex(m.arg), m.from)]
    /\ Handle(src, <<s, 0>>, Nothing)
    /\ UNCHANGED <<lock, mv, serverVars, clientVars>>

(* WAIT with both objects here: join the condition, release the lock.       *)
WaitHere(s, src) ==
    LET m == Message(s, src) IN
    /\ HasLock(s, src, {"WAIT"}) /\ Mine(s, m.obj)
    /\ cond' = [cond EXCEPT ![m.obj] = Waited(@, decodeIndex(m.arg), m.from)]
    /\ lock' = [lock EXCEPT ![m.arg] = Released(@, m.from)]
    /\ Handle(src, <<s, 0>>, Replies(NextOwner(lock[m.arg], m.from)))
    /\ UNCHANGED <<mv, serverVars, clientVars>>

(* SIGNAL, BROADCAST with both objects here; the holder is not checked.     *)
WakeHere(s, src) ==
    LET m == Message(s, src) IN
    /\ HasLock(s, src, {"SIGNAL", "BROADCAST"}) /\ Mine(s, m.obj)
    /\ Wake(s, src, m.from, m.type, m.obj, decodeIndex(m.arg))
    /\ UNCHANGED <<lock, mv, queryQueue, nextQueryID, cvLockTrackerList, clientVars>>

(* DOES_CLIENT_HAVE_LOCK: no answer if the lock is gone.                    *)
DoesClientHaveLock(s, src) ==
    LET m == Message(s, src)
        L == lock[m.lockNum]
    IN /\ At(s, src, {"DOES_CLIENT_HAVE_LOCK"})
       /\ Handle(src, <<s, 0>>,
                 IF L.live THEN Only([to |-> <<m.from, 0>>, type |-> "CV_LOCK_TRACKER_RESPONSE",
                                      client |-> m.client, lockNum |-> m.lockNum,
                                      held |-> L.owner = m.client])
                 ELSE Nothing)
       /\ UNCHANGED <<tableVars, serverVars, clientVars>>

Tracked(s, m) ==
    Lowest({i \in 1..Len(cvLockTrackerList[s]) :
               /\ cvLockTrackerList[s][i].client = m.client
               /\ cvLockTrackerList[s][i].lockNum = m.lockNum})

(* CV_LOCK_TRACKER_RESPONSE: refuse, pass on to the server of the condition,
   or perform the operation that was put off.  For a Wait the server releases
   the lock in its own name.                                                *)
Validated(s, src) ==
    LET m == Message(s, src)
        e == cvLockTrackerList[s][Tracked(s, m)]
        here == Mine(s, e.cvNum)
    IN /\ At(s, src, {"CV_LOCK_TRACKER_RESPONSE"})
       /\ cvLockTrackerList' = [cvLockTrackerList EXCEPT ![s] = Without(@, Tracked(s, m))]
       /\ \/ /\ ~m.held
             /\ Handle(src, <<s, 0>>, Replies(<<m.client>>))
             /\ UNCHANGED <<cond, down>>
          \/ /\ m.held /\ ~here
             /\ Handle(src, <<s, 0>>, Only(Request(<<s, 1>>, e.op, m.client, e.cvNum, e.lockNum)))
             /\ UNCHANGED <<cond, down>>
          \/ /\ m.held /\ here /\ e.op = "WAIT"
             /\ cond' = [cond EXCEPT ![e.cvNum] = Waited(@, e.lockNum, m.client)]
             /\ Handle(src, <<s, 0>>,
                       Only(Request(<<e.lockNum \div MaxObjects, 0>>, "RELEASE", s, e.lockNum, 0)))
             /\ UNCHANGED down
          \/ /\ m.held /\ here /\ e.op # "WAIT"
             /\ Wake(s, src, m.client, e.op, e.cvNum, e.lockNum)
       /\ UNCHANGED <<lock, mv, queryQueue, nextQueryID, clientVars>>

(* The answer to a server's own RELEASE is no message it knows.             *)
NoMessageType(s, src) ==
    /\ At(s, src, {"REPLY"})
    /\ Handle(src, <<s, 0>>, Nothing)
    /\ UNCHANGED <<tableVars, serverVars, clientVars>>

-----------------------------------------------------------------------------
(* ServerToServerMessageHandler(): the thread of mailbox 1                 *)

At1(s, src, types) == s \notin down /\ Arrived(src, <<s, 1>>, types)

(* Query_All_Servers; the query and the QueryStatus take an ID each.        *)
Query(s, src) ==
    LET m == First(src, <<s, 1>>)
    IN /\ At1(s, src, Ops)
       /\ queryQueue' = [queryQueue EXCEPT ![s] =
             Append(@, [id |-> nextQueryID[s], numResponsesReceived |-> 0, data |-> m])]
       /\ nextQueryID' = [nextQueryID EXCEPT ![s] = @ + 2]
       /\ Handle(src, <<s, 1>>,
                 [b \in Boxes |->
                     IF b \in (Servers \ {s}) \X {1}
                     THEN <<[to |-> b, type |-> "DO_YOU_HAVE", from |-> s, id |-> nextQueryID[s],
                             kind |-> KindOf(m.type), obj |-> m.obj]>>
                     ELSE <<>>])
       /\ UNCHANGED <<tableVars, cvLockTrackerList, down, clientVars>>

Live(kind, k) ==
    CASE kind = "lock" -> lock[k].live [] kind = "cv" -> cond[k].live [] OTHER -> mv[k].live

(* Deviation: the indices start one later.                                  *)
HaveFromTwo(s, m) == Mine(s, m.obj) /\ decodeIndex(m.obj) > 1 /\ Live(m.kind, m.obj)

(* A server denies that it has the object with index 0.                     *)
Have(s, m) == Mine(s, m.obj) /\ decodeIndex(m.obj) > 0 /\ Live(m.kind, m.obj)

Answer(s, src) ==
    LET m == First(src, <<s, 1>>) IN
    /\ At1(s, src, {"DO_YOU_HAVE"})
    /\ Handle(src, <<s, 1>>,
              Only([to |-> <<m.from, 1>>, type |-> IF Have(s, m) THEN "HAVE" ELSE "DO_NOT_HAVE",
                    from |-> s, id |-> m.id]))
    /\ UNCHANGED <<tableVars, serverVars, clientVars>>

QueryAt(s, id) == {i \in 1..Len(queryQueue[s]) : queryQueue[s][i].id = id}

(* HAVE: the request goes to mailbox 0 of the server that has the object.   *)
Found(s, src) ==
    LET m == First(src, <<s, 1>>)
        Q == QueryAt(s, m.id)
    IN /\ At1(s, src, {"HAVE"})
       /\ queryQueue' = [queryQueue EXCEPT ![s] = IF Q = {} THEN @ ELSE Without(@, Lowest(Q))]
       /\ Handle(src, <<s, 1>>,
                 IF Q = {} THEN Nothing
                 ELSE Only([queryQueue[s][Lowest(Q)].data EXCEPT !.to = <<m.from, 0>>]))
       /\ UNCHANGED <<tableVars, nextQueryID, cvLockTrackerList, down, clientVars>>

(* DO_NOT_HAVE: counted for the oldest query only, and the last one changes
   nothing else.                                                            *)
NotFound(s, src) ==
    LET m == First(src, <<s, 1>>) IN
    /\ At1(s, src, {"DO_NOT_HAVE"})
    /\ queryQueue' = IF 1 \in QueryAt(s, m.id)
                     THEN [queryQueue EXCEPT ![s][1].numResponsesReceived = @ + 1]
                     ELSE queryQueue
    /\ Handle(src, <<s, 1>>, Nothing)
    /\ UNCHANGED <<tableVars, nextQueryID, cvLockTrackerList, down, clientVars>>

-----------------------------------------------------------------------------
ServerNext(s, src) ==
    \/ PassOn(s, src) \/ Acquire(s, src) \/ Release(s, src) \/ DestroyLock(s, src)
    \/ DestroyCV(s, src) \/ GetMV(s, src) \/ SetMV(s, src) \/ DestroyMV(s, src)
    \/ AskOwner(s, src) \/ NoSuchLock(s, src) \/ PassOnCV(s, src) \/ WaitHere(s, src)
    \/ WakeHere(s, src) \/ DoesClientHaveLock(s, src) \/ Validated(s, src)
    \/ NoMessageType(s, src)
    \/ Query(s, src) \/ Answer(s, src) \/ Found(s, src) \/ NotFound(s, src)

ClientNext(c) ==
    \/ \E op \in Ops : \E k \in Existing(KindOf(op)), a \in Args(op), s \in Servers :
           Call(c, op, k, a, s)
    \/ \E src \in Servers : Return(c, src)
    \/ \E src, s \in Servers : Reacquire(c, src, s)

Next ==
    \/ \E c \in Clients : ClientNext(c)
    \/ \E s \in Servers, src \in Machines : ServerNext(s, src)

Spec == Init /\ [][Next]_vars

-----------------------------------------------------------------------------
Trackers == [client : Clients, op : UseOps, cvNum : CVNums, lockNum : LockNums]

TypeOK ==
    /\ lock \in [LockNums -> [live : BOOLEAN, owner : Machines \cup {NoOne}, queue : Seq(Clients),
                              acquireCount : Int, isToBeDeleted : BOOLEAN]]
    /\ cond \in [CVNums -> [live : BOOLEAN, waitingLock : Numbers \cup {-1}, queue : Seq(Clients),
                            isToBeDeleted : BOOLEAN]]
    /\ mv \in [MVNums -> [live : BOOLEAN, value : Values]]
    /\ cvLockTrackerList \in [Servers -> Seq(Trackers)]
    /\ nextQueryID \in [Servers -> Nat] /\ down \subseteq Servers
    /\ DOMAIN net = Channels /\ DOMAIN queryQueue = Servers
    /\ calls \in [Clients -> Nat] /\ holds \in [Clients -> SUBSET LockNums]

(* A client that believes to hold a lock is the one owner its server knows,
   whichever servers the requests went through; so no two clients hold it.  *)
HoldersOwn ==
    \A c \in Clients : \A l \in holds[c] : lock[l].live /\ lock[l].owner = c

Destroying(c) == call[c].op \in {"DESTROY_LOCK", "DESTROY_CV"}

(* Messages that are the request of client c or the answer to it.           *)
IsAbout(x, c) ==
    \/ x.type \in Ops \ {"DESTROY_MV"} /\ x.from = c
    \/ x.type = "REPLY" /\ x.to = <<c, 0>>

(* The places where they are: in the mail, with the requests a server asks
   the others about, with the operations put off, and in the queues.        *)
InNet(c) ==
    UNION {{<<"net", ch, j>> : j \in {i \in DOMAIN net[ch] : IsAbout(net[ch][i], c)}} : ch \in Channels}
InQueries(c) ==
    UNION {{<<"query", s, j>> : j \in {i \in DOMAIN queryQueue[s] :
                IsAbout(queryQueue[s][i].data, c)}} : s \in Servers}
InTrackers(c) ==
    UNION {{<<"tracker", s, j>> : j \in {i \in DOMAIN cvLockTrackerList[s] :
                cvLockTrackerList[s][i].client = c}} : s \in Servers}
InLocks(c) ==
    UNION {{<<"lock", l, j>> : j \in {i \in DOMAIN lock[l].queue : lock[l].queue[i] = c}} : l \in LockNums}
InConds(c) ==
    UNION {{<<"cv", k, j>> : j \in {i \in DOMAIN cond[k].queue : cond[k].queue[i] = c}} : k \in CVNums}
Traces(c) == InNet(c) \cup InQueries(c) \cup InTrackers(c) \cup InLocks(c) \cup InConds(c)

(* Nothing is left of the request of a client that does not wait, and of one
   that does there is one trace at most: no answer comes twice, and none is
   left over for the next call.                                             *)
NoSecondAnswer ==
    \A c \in Clients : /\ call[c] = Idle => Traces(c) = {}
                       /\ \A x, y \in Traces(c) : x = y

(* Nor is any lost: the request of a client that waits is in exactly one
   place.  Destroying an object is not answered.                            *)
OneAnswerPerRequest ==
    NoSecondAnswer /\ \A c \in Clients : call[c] = Idle \/ Destroying(c) \/ Traces(c) # {}

(* A server that heard "a no from all servers" (server.cc:1316) gives the request
   up, since "the object didn't exist on any server!": only if that is so or
   the object has index 0, which its own server denies.  No denial is counted
   twice, for another query, or from the server that has the object.         *)
GivenUpRightly ==
    \A s \in Servers : \A i \in DOMAIN queryQueue[s] : \A q \in {queryQueue[s][i]} :
        \/ q.numResponsesReceived < NumServers - 1
        \/ ~Live(KindOf(q.data.type), q.data.obj)
        \/ ~(decodeIndex(q.data.obj) > 0)

(* A client asleep on a condition has given up the lock, so that somebody can
   come and signal, if one server has both.                                 *)
SleepersGaveUpLock ==
    \A c \in Clients, k \in CVNums :
        c \in Elements(cond[k].queue) /\ k \div MaxObjects = call[c].arg \div MaxObjects
        => lock[call[c].arg].owner # c
=============================================================================
