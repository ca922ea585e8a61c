-------------------------- MODULE SyncSafetyProofs --------------------------
(***************************************************************************)
(* Proofs about SyncSyscalls for programs that never destroy a lock or a   *)
(* condition, and for those that keep all the rules of good use: no freed  *)
(* object is used, nobody is left asleep on one, and a condition marked    *)
(* for deletion is deleted.                                                *)
(*                                                                         *)
(* None of the three is inductive alone.  A freed object is not used       *)
(* because the entries a good program may name are sound (Kept) and a      *)
(* sleeper's objects outlive its sleep (Sleeping).  The second needs the   *)
(* queues to be exactly the sleeping threads (Queues, Owned), so that      *)
(* DestroyLock and DestroyCondition see them, and a marked condition to    *)
(* have one thread left in Wait (Marks), which deletes it last.            *)
(***************************************************************************)
EXTENDS SyncSyscallsProofs

-----------------------------------------------------------------------------
(* The invariant                                                            *)

(* u sleeps in the queue of object a, or would if the threads were at p.    *)
InQueueAt(p, u, a) ==
    \/ p[u] = "Acquire" /\ The("lock", loc[u].index) = a
    \/ p[u] = "relock" /\ loc[u].lock = a
    \/ p[u] = "Wait" /\ The("cond", loc[u].index) = a

(* The queues hold exactly the sleeping threads, once each.                 *)
Queues ==
    \A a \in Addrs :
        /\ \A u \in Threads : u \in Elements(obj[a].queue) <=> InQueueAt(pc, u, a)
        /\ Distinct(obj[a].queue)

(* Nobody sleeps for a lock that nobody holds.                              *)
Owned ==
    \A i \in Indices :
        Live(The("lock", i)) /\ obj[The("lock", i)].queue # <<>> =>
            obj[The("lock", i)].owner # NoThread

(* The entry is of a process that has not destroyed anything, or one of its
   process's handles: good programs use no other.                           *)
Protected(k, i) ==
    /\ table[k][i].space \in Spaces
    /\ table[k][i].space \notin destroyers \/ i \in handles[k][table[k][i].space]
Kept ==
    \A k \in Kinds, i \in Indices : Protected(k, i) =>
        Live(The(k, i)) /\ i \in inUse[k] /\ ~table[k][i].isToBeDeleted

(* A clear bit means no object, and an index being filled in has none yet
   and is one thread's.                                                     *)
Pending(t, k, i) == pc[t] = "init" /\ loc[t].kind = k /\ loc[t].index = i
Fresh ==
    \A k \in Kinds, i \in Indices :
        /\ i \notin inUse[k] => ~Live(The(k, i))
        /\ \A t \in Threads : Pending(t, k, i) => i \in inUse[k] /\ ~Live(The(k, i))
        /\ \A t, u \in Threads : Pending(t, k, i) /\ Pending(u, k, i) => t = u

(* A sleeping thread's objects are live and its process's.                  *)
Sound(t, k, i) == Valid(t, k, i) /\ Live(The(k, i))
HasLock(a) == \E i \in Indices : The("lock", i) = a /\ Live(a)
Sleeping ==
    \A t \in Threads :
        /\ pc[t] = "Acquire" => Sound(t, "lock", loc[t].index)
        /\ InWait(t) => Sound(t, "cond", loc[t].index) /\ HasLock(loc[t].lock)

(* A marked condition has one thread in Wait; no lock is marked.            *)
Sole(u, c) ==
    /\ InWait(u) /\ loc[u].index = c
    /\ \A w \in Threads : InWait(w) /\ loc[w].index = c => w = u
Marks ==
    /\ \A i \in Indices : ~table["lock"][i].isToBeDeleted
    /\ \A c \in Indices : table["cond"][c].isToBeDeleted /\ Live(The("cond", c)) =>
          \E u \in Threads : Sole(u, c)

(* The last thread of a process ends it alone, and cleanly.                 *)
InExit(t) == pc[t] \in {"exitLocks", "exitConds"}
Exiting ==
    \A t \in Threads : InExit(t) =>
        /\ Space[t] \notin destroyers
        /\ \A u \in Threads : Space[u] = Space[t] /\ u # t => pc[u] = "exited"

Calm == "Destroy" \notin style.calls => destroyers = {}

(* What does not depend on the queues.                                      *)
Rooms == Kept /\ Fresh /\ Sleeping /\ Marks /\ Exiting /\ Calm

Inv == IsoInv /\ Queues /\ Owned /\ Rooms /\ ~freedUse

-----------------------------------------------------------------------------
(* Steps that fill no entry                                                 *)

(* The step frees what the entries in G point to; it fills no entry.        *)
RoomStep(G) ==
    /\ \A m \in Kinds, j \in Indices :
          /\ table'[m][j].obj = table[m][j].obj
          /\ <<m, j>> \notin G => table'[m][j].space = table[m][j].space
          /\ <<m, j>> \in G => Live(table[m][j].obj)
          /\ j \in inUse[m] /\ <<m, j>> \notin G => j \in inUse'[m]
          /\ Protected(m, j)' => Protected(m, j) /\ <<m, j>> \notin G
          /\ obj'[table[m][j].obj].status = "live" <=> Live(table[m][j].obj) /\ <<m, j>> \notin G
          /\ table'[m][j].isToBeDeleted =>
                \/ table[m][j].isToBeDeleted
                \/ m = "cond" /\ ~Protected(m, j)' /\ \E u \in Threads : Sole(u, j)'
    /\ \A u \in Threads, m \in Kinds, j \in Indices : Pending(u, m, j)' =>
          \/ Pending(u, m, j) /\ <<m, j>> \notin G
          \/ /\ j \notin inUse[m] /\ j \in inUse'[m]
             /\ \A w \in Threads : Pending(w, m, j)' => w = u

(* Where the threads go in such a step.                                     *)
RoomMoves(G) ==
    /\ \A u \in Threads :
          /\ pc'[u] = "Acquire" =>
                \/ /\ pc[u] = "Acquire" /\ loc'[u].index = loc[u].index
                   /\ <<"lock", loc[u].index>> \notin G
                \/ Sound(u, "lock", loc'[u].index) /\ G = {}
          /\ InWait(u)' =>
                \/ /\ InWait(u) /\ loc'[u].index = loc[u].index /\ loc'[u].lock = loc[u].lock
                   /\ <<"cond", loc[u].index>> \notin G
                   /\ \A i \in Indices : The("lock", i) = loc[u].lock => <<"lock", i>> \notin G
                \/ /\ Sound(u, "cond", loc'[u].index) /\ HasLock(loc'[u].lock) /\ G = {}
                   /\ ~table'["cond"][loc'[u].index].isToBeDeleted
          /\ InWait(u) => \/ InWait(u)' /\ loc'[u].index = loc[u].index
                          \/ <<"cond", loc[u].index>> \in G
                          \/ ~table'["cond"][loc[u].index].isToBeDeleted
          /\ InExit(u)' => \/ InExit(u)
                           \/ /\ Space[u] \notin destroyers
                              /\ \A w \in Threads : Space[w] = Space[u] /\ w # u => pc[w] = "exited"
          /\ pc[u] = "exited" => pc'[u] = "exited"
    /\ style' = style
    /\ \/ destroyers' = destroyers
       \/ /\ "Destroy" \in style.calls /\ pc' = pc
          /\ \E t \in Threads : pc[t] = "user" /\ destroyers' = destroyers \cup {Space[t]}

(* Such a step keeps what does not depend on the queues.                    *)
LEMMA RoomKeep ==
    ASSUME Inv, TypeOK', NEW G, RoomStep(G), RoomMoves(G)
    PROVE  Rooms'
<1>0. TypeOK /\ Kept /\ Fresh /\ Sleeping /\ Marks /\ Exiting /\ Calm
  BY DEF Inv, IsoInv, Rooms
<1>1. \A u \in Threads : /\ loc[u].index \in Indices /\ loc[u].kind \in Kinds
                         /\ loc'[u].index \in Indices /\ loc'[u].kind \in Kinds
  <2>1. loc \in [Threads -> Locals] /\ loc' \in [Threads -> Locals]
    BY <1>0 DEF TypeOK
  <2> QED BY <2>1 DEF Locals
<1>2. "lock" \in Kinds /\ "cond" \in Kinds
  BY DEF Kinds
<1>3. Kept'
  <2>1. ASSUME NEW m \in Kinds, NEW j \in Indices, Protected(m, j)'
        PROVE  /\ obj'[table'[m][j].obj].status = "live" /\ j \in inUse'[m]
               /\ ~table'[m][j].isToBeDeleted
    <3>1. Protected(m, j) /\ <<m, j>> \notin G
      BY <2>1 DEF RoomStep
    <3>2. Live(table[m][j].obj) /\ j \in inUse[m] /\ ~table[m][j].isToBeDeleted
      BY <1>0, <3>1 DEF Kept, The
    <3> QED BY <2>1, <3>1, <3>2 DEF RoomStep
  <2> QED BY <2>1 DEF Kept, Live, The
<1>4. Fresh'
  <2>1. ASSUME NEW m \in Kinds, NEW j \in Indices, j \notin inUse'[m]
        PROVE  obj'[table'[m][j].obj].status # "live"
    <3>1. j \notin inUse[m] \/ <<m, j>> \in G
      BY <2>1 DEF RoomStep
    <3>2. j \notin inUse[m] => ~Live(table[m][j].obj)
      BY <1>0 DEF Fresh, The
    <3> QED BY <3>1, <3>2 DEF RoomStep
  <2>2. ASSUME NEW m \in Kinds, NEW j \in Indices, NEW u \in Threads, Pending(u, m, j)'
        PROVE  j \in inUse'[m] /\ obj'[table'[m][j].obj].status # "live"
    <3>1. \/ Pending(u, m, j) /\ <<m, j>> \notin G
          \/ j \notin inUse[m] /\ j \in inUse'[m]
      BY <2>2 DEF RoomStep
    <3>2. /\ Pending(u, m, j) => j \in inUse[m] /\ ~Live(table[m][j].obj)
          /\ j \notin inUse[m] => ~Live(table[m][j].obj)
      BY <1>0 DEF Fresh, The
    <3> QED BY <3>1, <3>2 DEF RoomStep
  <2>3. ASSUME NEW m \in Kinds, NEW j \in Indices, NEW u \in Threads, NEW w \in Threads,
               Pending(u, m, j)', Pending(w, m, j)'
        PROVE  u = w
    <3>1. u = w \/ (Pending(u, m, j) /\ Pending(w, m, j))
      BY <2>3 DEF RoomStep
    <3> QED BY <1>0, <3>1 DEF Fresh
  <2> QED BY <2>1, <2>2, <2>3 DEF Fresh, Live, The
<1>5. ASSUME NEW u \in Threads, NEW m \in Kinds, NEW j \in Indices, Sound(u, m, j), <<m, j>> \notin G
      PROVE  Sound(u, m, j)'
  BY <1>5 DEF Sound, Valid, Live, The, RoomStep
<1>6. ASSUME NEW a, HasLock(a), \A i \in Indices : The("lock", i) = a => <<"lock", i>> \notin G
      PROVE  HasLock(a)'
  <2>1. PICK i \in Indices : The("lock", i) = a /\ Live(a)
    BY <1>6 DEF HasLock
  <2>2. table'["lock"][i].obj = a /\ obj'[a].status = "live"
    <3>1. table["lock"][i].obj = a /\ Live(table["lock"][i].obj) /\ <<"lock", i>> \notin G
      BY <1>6, <2>1 DEF The
    <3>2. table'["lock"][i].obj = table["lock"][i].obj /\ obj'[table["lock"][i].obj].status = "live"
      BY <1>2, <3>1 DEF RoomStep
    <3> QED BY <3>1, <3>2
  <2> QED BY <2>2 DEF HasLock, The, Live
<1>7. Sleeping'
  <2>1. ASSUME NEW u \in Threads, pc'[u] = "Acquire"
        PROVE  Sound(u, "lock", loc[u].index)'
    <3>1. PICK i \in Indices : i = loc'[u].index
      BY <1>1
    <3>2. Sound(u, "lock", i) /\ <<"lock", i>> \notin G
      BY <1>0, <2>1, <3>1 DEF RoomMoves, Sleeping
    <3>3. Sound(u, "lock", i)'
      BY <1>2, <1>5, <3>2
    <3> QED BY <3>1, <3>3 DEF Sound, Valid, Live, The
  <2>2. ASSUME NEW u \in Threads, InWait(u)'
        PROVE  Sound(u, "cond", loc[u].index)' /\ HasLock(loc[u].lock)'
    <3>1. PICK i \in Indices, a \in {loc'[u].lock} : i = loc'[u].index
      BY <1>1
    <3>2. Sound(u, "cond", i) /\ <<"cond", i>> \notin G
      BY <1>0, <2>2, <3>1 DEF RoomMoves, Sleeping
    <3>3. HasLock(a) /\ \A j \in Indices : The("lock", j) = a => <<"lock", j>> \notin G
      BY <1>0, <2>2, <3>1 DEF RoomMoves, Sleeping
    <3>4. Sound(u, "cond", i)' /\ HasLock(a)'
      BY <1>2, <1>5, <1>6, <3>2, <3>3
    <3> QED BY <3>1, <3>4 DEF Sound, Valid, Live, The, HasLock
  <2> QED BY <2>1, <2>2 DEF Sleeping
<1>8. Marks'
  <2>1. ASSUME NEW i \in Indices PROVE ~table'["lock"][i].isToBeDeleted
    BY <1>0, <1>2 DEF Marks, RoomStep
  <2>2. ASSUME NEW c \in Indices, table'["cond"][c].isToBeDeleted,
               obj'[table'["cond"][c].obj].status = "live"
        PROVE  \E u \in Threads : Sole(u, c)'
    <3>1. CASE \E u \in Threads : Sole(u, c)'
      BY <3>1
    <3>2. CASE table["cond"][c].isToBeDeleted
      <4>1. Live(table["cond"][c].obj) /\ <<"cond", c>> \notin G
        BY <1>2, <2>2 DEF RoomStep
      <4>2. PICK u \in Threads : Sole(u, c)
        BY <1>0, <3>2, <4>1 DEF Marks, The
      <4>3. InWait(u)' /\ loc'[u].index = c
        BY <2>2, <4>1, <4>2 DEF RoomMoves, Sole
      <4>4. ASSUME NEW w \in Threads, InWait(w)', loc'[w].index = c PROVE w = u
        <5>1. InWait(w) /\ loc[w].index = c
          BY <2>2, <4>4 DEF RoomMoves
        <5> QED BY <4>2, <5>1 DEF Sole
      <4> QED BY <4>3, <4>4 DEF Sole, InWait
    <3> QED BY <1>2, <2>2, <3>1, <3>2 DEF RoomStep
  <2> QED BY <2>1, <2>2 DEF Marks, Live, The
<1>9. Exiting'
  <2>1. ASSUME NEW u \in Threads, InExit(u)'
        PROVE  /\ Space[u] \notin destroyers
               /\ \A w \in Threads : Space[w] = Space[u] /\ w # u => pc[w] = "exited"
    BY <1>0, <2>1 DEF RoomMoves, Exiting
  <2>2. ASSUME NEW u \in Threads, InExit(u)'
        PROVE  Space[u] \notin destroyers'
    <3>1. CASE destroyers' = destroyers
      BY <2>1, <2>2, <3>1
    <3>2. CASE destroyers' # destroyers
      <4>1. PICK t \in Threads : pc' = pc /\ pc[t] = "user" /\ destroyers' = destroyers \cup {Space[t]}
        BY <3>2 DEF RoomMoves
      <4>2. Space[t] # Space[u]
        BY <2>1, <2>2, <4>1 DEF InExit
      <4> QED BY <2>1, <2>2, <4>1, <4>2
    <3> QED BY <3>1, <3>2
  <2>3. \A u \in Threads : pc[u] = "exited" => pc'[u] = "exited"
    BY DEF RoomMoves
  <2> QED BY <2>1, <2>2, <2>3 DEF Exiting, InExit
<1>10. Calm'
  BY <1>0 DEF Calm, RoomMoves
<1> QED BY <1>3, <1>4, <1>7, <1>8, <1>9, <1>10 DEF Rooms

(* A step that changes no entry, no bit and no status.                      *)
LEMMA StillRoom ==
    ASSUME Inv, SameEntries, \A b \in Pointers : obj'[b].status = obj[b].status,
           UNCHANGED <<inUse, handles, destroyers>>,
           \A u \in Threads, m \in Kinds, j \in Indices : Pending(u, m, j)' => Pending(u, m, j)
    PROVE  RoomStep({})
<1>0. TypeOK
  BY DEF Inv, IsoInv
<1>1. ASSUME NEW m \in Kinds, NEW j \in Indices
      PROVE  /\ table'[m][j].obj = table[m][j].obj
             /\ table'[m][j].space = table[m][j].space
             /\ inUse'[m] = inUse[m]
             /\ Protected(m, j)' <=> Protected(m, j)
             /\ obj'[table[m][j].obj].status = "live" <=> Live(table[m][j].obj)
             /\ table'[m][j].isToBeDeleted => table[m][j].isToBeDeleted
  <2>1. table[m][j].obj \in Pointers
    BY <1>0, EntryFacts
  <2> QED BY <2>1 DEF SameEntries, Protected, Live
<1> QED BY <1>1 DEF RoomStep

(* The queues, when nobody enters or leaves one.                            *)
LEMMA QueuesKeep ==
    ASSUME Inv, TypeOK',
           \A m \in Kinds, j \in Indices : table'[m][j].obj = table[m][j].obj,
           \A b \in Addrs : obj'[b].queue = obj[b].queue,
           \A u \in Threads :
              \/ pc'[u] = pc[u] /\ loc'[u] = loc[u]
              \/ /\ pc[u] \notin {"Acquire", "relock", "Wait"}
                 /\ pc'[u] \notin {"Acquire", "relock", "Wait"}
    PROVE  Queues'
<1>0. TypeOK /\ Queues
  BY DEF Inv, IsoInv
<1>1. ASSUME NEW a \in Addrs, NEW u \in Threads
      PROVE  InQueueAt(pc, u, a)' <=> InQueueAt(pc, u, a)
  <2>1. loc[u].index \in Indices /\ "lock" \in Kinds /\ "cond" \in Kinds
    BY <1>0, LocStep DEF Kinds
  <2> QED BY <2>1 DEF InQueueAt, The
<1> QED BY <1>0, <1>1 DEF Queues

(* The owners of the locks, when the queues and owners are the same.        *)
LEMMA OwnedKeep ==
    ASSUME Inv,
           \A m \in Kinds, j \in Indices : table'[m][j].obj = table[m][j].obj,
           \A b \in Pointers : /\ obj'[b].queue = obj[b].queue /\ obj'[b].owner = obj[b].owner
                               /\ obj'[b].status = "live" => obj[b].status = "live"
    PROVE  Owned'
<1>1. \A j \in Indices : table'["lock"][j].obj = table["lock"][j].obj /\ table["lock"][j].obj \in Pointers
  BY EntryFacts DEF Kinds, Inv, IsoInv
<1> QED BY <1>1 DEF Inv, Owned, Live, The

-----------------------------------------------------------------------------
(* What the invariant says of the objects a step uses                       *)

(* A live object is not NULL.                                               *)
LEMMA LiveAddr ==
    ASSUME Inv, NEW a \in Pointers, Live(a)
    PROVE  a \in Addrs
BY DEF Inv, IsoInv, Created, Pointers

(* Good programs name sound entries.                                        *)
LEMMA GoodUse ==
    ASSUME Inv, GoodStyles, NEW t \in Threads, NEW k \in Kinds, NEW i \in Indices, Refers(t, k, i)
    PROVE  /\ Valid(t, k, i) /\ Live(The(k, i)) /\ i \in inUse[k] /\ ~table[k][i].isToBeDeleted
           /\ table[k][i].space = Space[t] /\ Space[t] \in Spaces /\ The(k, i) \in Addrs
           /\ Sound(t, k, i)
<1>0. TypeOK /\ Kept /\ Calm
  BY DEF Inv, IsoInv, Rooms
<1>1. Valid(t, k, i) /\ table[k][i].space = Space[t] /\ Space[t] \in Spaces
  BY SyncAssumption DEF Refers, Valid
<1>2. style \in Styles
  BY <1>0 DEF TypeOK
<1>3. destroyers = {} \/ i \in handles[k][Space[t]]
  BY <1>0, <1>2 DEF GoodStyles, Calm, Refers
<1>4. Protected(k, i)
  BY <1>1, <1>3 DEF Protected
<1>5. The(k, i) \in Pointers
  BY <1>0, EntryFacts
<1>6. Live(The(k, i)) /\ i \in inUse[k] /\ ~table[k][i].isToBeDeleted
  BY <1>0, <1>4 DEF Kept
<1> QED BY <1>1, <1>5, <1>6, LiveAddr DEF Sound

(* Who sleeps in a lock.                                                    *)
LEMMA LockQueue ==
    ASSUME Inv, NEW i \in Indices, Live(The("lock", i)), NEW u \in Elements(obj[The("lock", i)].queue)
    PROVE  /\ u \in Threads
           /\ \/ pc[u] = "Acquire" /\ loc[u].index = i
              \/ pc[u] = "relock" /\ loc[u].lock = The("lock", i)
<1>0. TypeOK /\ Unique /\ Queues /\ "lock" \in Kinds /\ "cond" \in Kinds
  BY DEF Inv, IsoInv, Kinds
<1>1. The("lock", i) \in Pointers
  BY <1>0, EntryFacts
<1>2. The("lock", i) \in Addrs /\ obj[The("lock", i)] \in Objects
  BY <1>0, <1>1, LiveAddr DEF TypeOK, Pointers
<1>3. obj[The("lock", i)].queue \in Seq(Threads)
  BY <1>2, FieldFacts
<1>4. u \in Threads
  BY <1>3, NonEmpty
<1>5. InQueueAt(pc, u, The("lock", i))
  BY <1>0, <1>2, <1>4 DEF Queues
<1>6. loc[u].index \in Indices
  BY <1>0, <1>4, LocStep
<1>7. The("cond", loc[u].index) # The("lock", i)
  BY <1>0, <1>6 DEF Unique
<1>8. The("lock", loc[u].index) = The("lock", i) => loc[u].index = i
  BY <1>0, <1>6 DEF Unique
<1> QED BY <1>4, <1>5, <1>7, <1>8 DEF InQueueAt

(* Who sleeps in a condition.                                               *)
LEMMA CondQueue ==
    ASSUME Inv, NEW c \in Indices, Live(The("cond", c)), NEW u \in Elements(obj[The("cond", c)].queue)
    PROVE  u \in Threads /\ pc[u] = "Wait" /\ loc[u].index = c
<1>0. TypeOK /\ Unique /\ Queues /\ Sleeping /\ "lock" \in Kinds /\ "cond" \in Kinds
  BY DEF Inv, IsoInv, Rooms, Kinds
<1>1. The("cond", c) \in Pointers
  BY <1>0, EntryFacts
<1>2. The("cond", c) \in Addrs /\ obj[The("cond", c)] \in Objects
  BY <1>0, <1>1, LiveAddr DEF TypeOK, Pointers
<1>3. obj[The("cond", c)].queue \in Seq(Threads)
  BY <1>2, FieldFacts
<1>4. u \in Threads
  BY <1>3, NonEmpty
<1>5. InQueueAt(pc, u, The("cond", c))
  BY <1>0, <1>2, <1>4 DEF Queues
<1>6. loc[u].index \in Indices
  BY <1>0, <1>4, LocStep
<1>7. The("lock", loc[u].index) # The("cond", c)
  BY <1>0, <1>6 DEF Unique
<1>8. The("cond", loc[u].index) = The("cond", c) => loc[u].index = c
  BY <1>0, <1>6 DEF Unique
<1>9. pc[u] = "relock" => loc[u].lock # The("cond", c)
  <2>1. SUFFICES ASSUME pc[u] = "relock" PROVE loc[u].lock # The("cond", c)
    OBVIOUS
  <2>2. HasLock(loc[u].lock)
    BY <1>0, <1>4, <2>1 DEF Sleeping, InWait
  <2>3. PICK i \in Indices : The("lock", i) = loc[u].lock /\ Live(loc[u].lock)
    BY <2>2 DEF HasLock
  <2> QED BY <1>0, <2>3 DEF Unique
<1> QED BY <1>4, <1>5, <1>7, <1>8, <1>9 DEF InQueueAt

(* A thread in Wait: its condition and its lock are two live objects.       *)
LEMMA WaiterFacts ==
    ASSUME Inv, NEW u \in Threads, InWait(u)
    PROVE  /\ loc[u].index \in Indices /\ Sound(u, "cond", loc[u].index)
           /\ table["cond"][loc[u].index].space = Space[u]
           /\ The("cond", loc[u].index) \in Addrs /\ loc[u].lock \in Addrs
           /\ Live(loc[u].lock) /\ loc[u].lock # The("cond", loc[u].index)
           /\ \E i \in Indices : The("lock", i) = loc[u].lock
<1>0. TypeOK /\ Unique /\ Sleeping /\ "lock" \in Kinds /\ "cond" \in Kinds
  BY DEF Inv, IsoInv, Rooms, Kinds
<1>1. loc[u].index \in Indices /\ loc[u].lock \in Pointers
  BY <1>0, LocStep
<1>2. Sound(u, "cond", loc[u].index) /\ HasLock(loc[u].lock)
  BY <1>0 DEF Sleeping
<1>3. PICK i \in Indices : The("lock", i) = loc[u].lock /\ Live(loc[u].lock)
  BY <1>2 DEF HasLock
<1>4. loc[u].lock # The("cond", loc[u].index)
  BY <1>0, <1>1, <1>3 DEF Unique
<1>5. The("cond", loc[u].index) \in Pointers
  BY <1>0, <1>1, EntryFacts
<1>6. Live(The("cond", loc[u].index)) /\ table["cond"][loc[u].index].space = Space[u]
  BY <1>2 DEF Sound, Valid
<1> QED BY <1>1, <1>2, <1>3, <1>4, <1>5, <1>6, LiveAddr

(* A thread goes to sleep in a live lock that somebody holds.               *)
LEMMA QueueUp ==
    ASSUME Inv, NEW t \in Threads, NEW a \in Addrs, obj[a].owner # NoThread, obj' = Take(obj, a, t),
           \A m \in Kinds, j \in Indices : table'[m][j].obj = table[m][j].obj,
           \A u \in Threads : u # t => pc'[u] = pc[u] /\ loc'[u] = loc[u],
           \A b \in Addrs : ~InQueueAt(pc, t, b),
           \A b \in Addrs : InQueueAt(pc, t, b)' <=> b = a
    PROVE  Queues' /\ Owned'
<1>0. TypeOK /\ Queues /\ Owned /\ "lock" \in Kinds /\ "cond" \in Kinds
  BY DEF Inv, IsoInv, Kinds
<1>1. obj \in [Pointers -> Objects] /\ a \in Pointers /\ \A b \in Addrs : b \in Pointers
  BY <1>0 DEF TypeOK, Pointers
<1>2. obj[a].queue \in Seq(Threads)
  BY <1>1, FieldFacts
<1>3. t \notin Elements(obj[a].queue)
  BY <1>0 DEF Queues
<1>4. /\ \A b \in Pointers : b # a => obj'[b] = obj[b]
      /\ obj'[a].status = obj[a].status /\ obj'[a].owner = obj[a].owner
      /\ obj'[a].queue = Append(obj[a].queue, t)
  BY <1>1, TakeFacts
<1>5. /\ Elements(obj'[a].queue) = Elements(obj[a].queue) \cup {t}
      /\ Distinct(obj[a].queue) => Distinct(obj'[a].queue)
  BY <1>2, <1>3, <1>4, AppendFacts
<1>6. Queues'
  <2>1. ASSUME NEW b \in Addrs, NEW u \in Threads
        PROVE  u \in Elements(obj'[b].queue) <=> InQueueAt(pc, u, b)'
    <3>1. u \in Elements(obj[b].queue) <=> InQueueAt(pc, u, b)
      BY <1>0 DEF Queues
    <3>2. CASE u # t
      <4>1. loc[u].index \in Indices
        BY <1>0, LocStep
      <4>2. InQueueAt(pc, u, b)' <=> InQueueAt(pc, u, b)
        BY <1>0, <3>2, <4>1 DEF InQueueAt, The
      <4>3. u \in Elements(obj'[b].queue) <=> u \in Elements(obj[b].queue)
        BY <1>1, <1>4, <1>5, <3>2
      <4> QED BY <3>1, <4>2, <4>3
    <3>3. CASE u = t
      BY <1>1, <1>4, <1>5, <3>1, <3>3
    <3> QED BY <3>2, <3>3
  <2>2. \A b \in Addrs : Distinct(obj'[b].queue)
    BY <1>0, <1>1, <1>4, <1>5 DEF Queues
  <2> QED BY <2>1, <2>2 DEF Queues
<1>7. Owned'
  <2>1. ASSUME NEW j \in Indices, obj'[table["lock"][j].obj].status = "live",
               obj'[table["lock"][j].obj].queue # <<>>
        PROVE  obj'[table["lock"][j].obj].owner # NoThread
    <3>1. table["lock"][j].obj \in Pointers
      BY <1>0, EntryFacts
    <3>2. CASE table["lock"][j].obj = a
      BY <1>4, <3>2
    <3>3. CASE table["lock"][j].obj # a
      BY <1>0, <1>4, <2>1, <3>1, <3>3 DEF Owned, Live, The
    <3> QED BY <3>2, <3>3
  <2> QED BY <1>0, <2>1 DEF Owned, Live, The
<1> QED BY <1>6, <1>7

(* What passing on a live lock does to the queues and the threads.          *)
LEMMA PassOnQueues ==
    ASSUME Inv, NEW i \in Indices, NEW l, l = The("lock", i), Live(l)
    PROVE  /\ \A u \in Threads : /\ PassOnPc(l)[u] \in Places
                                 /\ \/ PassOnPc(l)[u] = pc[u]
                                    \/ pc[u] = "Acquire" /\ PassOnPc(l)[u] = "user"
                                    \/ pc[u] = "relock" /\ PassOnPc(l)[u] = "postlude"
           /\ \A b \in Addrs :
                 /\ \A u \in Threads : u \in Elements(PassOn(obj, l)[b].queue) <=> InQueueAt(PassOnPc(l), u, b)
                 /\ Distinct(PassOn(obj, l)[b].queue) /\ PassOn(obj, l)[b].queue \in Seq(Threads)
           /\ \A j \in Indices :
                 Live(The("lock", j)) /\ PassOn(obj, l)[The("lock", j)].queue # <<>> =>
                    PassOn(obj, l)[The("lock", j)].owner # NoThread
<1>0. TypeOK /\ Unique /\ Queues /\ Owned /\ "lock" \in Kinds /\ "cond" \in Kinds
  BY DEF Inv, IsoInv, Kinds
<1>1. l \in Pointers /\ obj \in [Pointers -> Objects] /\ pc \in [Threads -> Places]
  BY <1>0, EntryFacts DEF TypeOK, Pointers
<1>2. l \in Addrs /\ obj[l] \in Objects /\ \A b \in Addrs : b \in Pointers
  BY <1>1, LiveAddr DEF Pointers
<1>3. obj[l].queue \in Seq(Threads)
  BY <1>2, FieldFacts
<1>4. /\ \A b \in Pointers : b # l => PassOn(obj, l)[b] = obj[b]
      /\ IF obj[l].queue = <<>>
         THEN PassOn(obj, l)[l].owner = NoThread /\ PassOn(obj, l)[l].queue = <<>>
         ELSE /\ PassOn(obj, l)[l].owner = Head(obj[l].queue)
              /\ PassOn(obj, l)[l].queue = Tail(obj[l].queue)
  BY <1>1, PassOnFacts
<1>5. \A b \in Addrs : PassOn(obj, l)[b].queue \in Seq(Threads)
  BY <1>0, <1>1, <1>2, PassOnUsers
<1>6. /\ PassOnPc(l) \in [Threads -> Places]
      /\ obj[l].queue = <<>> => PassOnPc(l) = pc
      /\ obj[l].queue # <<>> => \A u \in Threads : PassOnPc(l)[u] =
            IF u # Head(obj[l].queue) THEN pc[u]
            ELSE IF pc[u] = "Acquire" THEN "user" ELSE "postlude"
  BY <1>0, <1>1, PassOnPcFacts
<1>7. CASE obj[l].queue = <<>>
  <2>1. \A b \in Pointers : PassOn(obj, l)[b].queue = obj[b].queue
    BY <1>4, <1>7
  <2>2. \A j \in Indices :
           Live(The("lock", j)) /\ PassOn(obj, l)[The("lock", j)].queue # <<>> =>
              PassOn(obj, l)[The("lock", j)].owner # NoThread
    <3>1. \A j \in Indices : The("lock", j) \in Pointers
      BY <1>0, EntryFacts
    <3> QED BY <1>0, <1>4, <1>7, <3>1 DEF Owned
  <2>3. PassOnPc(l) = pc
    BY <1>6, <1>7
  <2>4. \A b \in Addrs :
           /\ \A u \in Threads : u \in Elements(PassOn(obj, l)[b].queue) <=> InQueueAt(PassOnPc(l), u, b)
           /\ Distinct(PassOn(obj, l)[b].queue) /\ PassOn(obj, l)[b].queue \in Seq(Threads)
    BY <1>0, <1>2, <1>5, <2>1, <2>3 DEF Queues
  <2> QED BY <1>1, <2>2, <2>3, <2>4
<1>8. CASE obj[l].queue # <<>>
  <2>1. PICK h \in Threads : h = Head(obj[l].queue)
    BY <1>3, <1>8, TailFacts
  <2>2. /\ h \in Elements(obj[l].queue) /\ Distinct(Tail(obj[l].queue))
        /\ Elements(Tail(obj[l].queue)) = Elements(obj[l].queue) \ {h}
    BY <1>0, <1>2, <1>3, <1>8, <2>1, TailFacts DEF Queues
  <2>3. \/ pc[h] = "Acquire" /\ loc[h].index = i
        \/ pc[h] = "relock" /\ loc[h].lock = l
    BY <2>2, LockQueue
  <2>4. \A u \in Threads : u # h => PassOnPc(l)[u] = pc[u]
    BY <1>6, <1>8, <2>1
  <2>5. PassOnPc(l)[h] = IF pc[h] = "Acquire" THEN "user" ELSE "postlude"
    BY <1>6, <1>8, <2>1
  <2>6. ASSUME NEW b \in Addrs, NEW u \in Threads
        PROVE  u \in Elements(PassOn(obj, l)[b].queue) <=> InQueueAt(PassOnPc(l), u, b)
    <3>1. u \in Elements(obj[b].queue) <=> InQueueAt(pc, u, b)
      BY <1>0 DEF Queues
    <3>2. CASE u # h
      <4>1. InQueueAt(PassOnPc(l), u, b) <=> InQueueAt(pc, u, b)
        BY <2>4, <3>2 DEF InQueueAt
      <4>2. u \in Elements(PassOn(obj, l)[b].queue) <=> u \in Elements(obj[b].queue)
        BY <1>2, <1>4, <1>8, <2>2, <3>2
      <4> QED BY <3>1, <4>1, <4>2
    <3>3. CASE u = h
      <4>1. ~InQueueAt(PassOnPc(l), u, b)
        BY <2>3, <2>5, <3>3 DEF InQueueAt
      <4>2. b # l => ~InQueueAt(pc, u, b)
        BY <2>3, <3>3 DEF InQueueAt
      <4>3. u \notin Elements(PassOn(obj, l)[b].queue)
        BY <1>2, <1>4, <1>8, <2>2, <3>1, <3>3, <4>2
      <4> QED BY <4>1, <4>3
    <3> QED BY <3>2, <3>3
  <2>7. \A b \in Addrs : Distinct(PassOn(obj, l)[b].queue)
    BY <1>0, <1>2, <1>4, <1>8, <2>2 DEF Queues
  <2>8. ASSUME NEW j \in Indices, Live(The("lock", j)), PassOn(obj, l)[The("lock", j)].queue # <<>>
        PROVE  PassOn(obj, l)[The("lock", j)].owner # NoThread
    <3>1. The("lock", j) \in Pointers
      BY <1>0, EntryFacts
    <3>2. CASE The("lock", j) = l
      BY <1>4, <1>8, <2>1, <3>2, SyncAssumption
    <3>3. CASE The("lock", j) # l
      BY <1>0, <1>4, <2>8, <3>1, <3>3 DEF Owned
    <3> QED BY <3>2, <3>3
  <2>9. \A u \in Threads : /\ PassOnPc(l)[u] \in Places
                           /\ \/ PassOnPc(l)[u] = pc[u]
                              \/ pc[u] = "Acquire" /\ PassOnPc(l)[u] = "user"
                              \/ pc[u] = "relock" /\ PassOnPc(l)[u] = "postlude"
    BY <1>6, <2>3, <2>4, <2>5
  <2> QED BY <1>5, <2>6, <2>7, <2>8, <2>9
<1> QED BY <1>7, <1>8

-----------------------------------------------------------------------------
(* One lemma per action                                                     *)

Busy == {"Acquire", "Wait", "woken", "relock", "postlude", "exitLocks", "exitConds"}

(* Threads that neither enter nor leave a sleep or an Exit.                 *)
LEMMA QuietMoves ==
    ASSUME Inv, UNCHANGED <<destroyers, style>>,
           \A u \in Threads :
              \/ pc'[u] = pc[u] /\ loc'[u] = loc[u]
              \/ pc[u] \notin Busy /\ pc[u] # "exited" /\ pc'[u] \notin Busy
    PROVE  RoomMoves({})
<1>1. ASSUME NEW u \in Threads, pc'[u] = pc[u], loc'[u] = loc[u]
      PROVE  /\ pc'[u] = "Acquire" => pc[u] = "Acquire" /\ loc'[u].index = loc[u].index
             /\ InWait(u)' => InWait(u) /\ loc'[u].index = loc[u].index /\ loc'[u].lock = loc[u].lock
             /\ InWait(u) => InWait(u)' /\ loc'[u].index = loc[u].index
             /\ InExit(u)' => InExit(u)
             /\ pc[u] = "exited" => pc'[u] = "exited"
  BY <1>1 DEF InWait, InExit
<1>2. ASSUME NEW u \in Threads, pc[u] \notin Busy, pc[u] # "exited", pc'[u] \notin Busy
      PROVE  pc'[u] # "Acquire" /\ ~InWait(u)' /\ ~InWait(u) /\ ~InExit(u)'
  BY <1>2 DEF InWait, InExit, Busy
<1> QED BY <1>1, <1>2 DEF RoomMoves

(* Create, the table's lock.                                                *)
LEMMA SafeCreate ==
    ASSUME Inv, NEW t \in Threads, NEW k \in Kinds, Create(t, k)
    PROVE  Queues' /\ Owned' /\ Rooms' /\ ~freedUse'
<1>0. TypeOK /\ ~freedUse
  BY DEF Inv, IsoInv
<1>1. /\ TypeOK' /\ OnlyPc(t, "find") /\ pc[t] = "user"
      /\ \A u \in Threads : u # t => loc'[u] = loc[u]
      /\ UNCHANGED <<inUse, table, obj, freedUse, handles, destroyers, style>>
  BY <1>0, CreateFacts
<1>2. \A u \in Threads : \/ pc'[u] = pc[u] /\ loc'[u] = loc[u]
                         \/ pc[u] = "user" /\ pc'[u] = "find"
  BY <1>0, <1>1 DEF OnlyPc, TypeOK
<1>3. Queues'
  BY <1>1, <1>2, QueuesKeep
<1>4. Owned'
  BY <1>1, OwnedKeep
<1>5. RoomStep({})
  <2>1. \A u \in Threads, m \in Kinds, j \in Indices : Pending(u, m, j)' => Pending(u, m, j)
    BY <1>2 DEF Pending
  <2> QED BY <1>1, <2>1, StillRoom DEF SameEntries
<1>6. RoomMoves({})
  BY <1>1, <1>2, QuietMoves DEF Busy
<1>7. Rooms'
  BY <1>1, <1>5, <1>6, RoomKeep
<1> QED BY <1>0, <1>1, <1>3, <1>4, <1>7

(* Create, the index.                                                       *)
LEMMA SafeFind ==
    ASSUME Inv, NEW t \in Threads, Find(t)
    PROVE  Queues' /\ Owned' /\ Rooms' /\ ~freedUse'
<1>0. TypeOK /\ ~freedUse /\ Fresh
  BY DEF Inv, IsoInv, Rooms
<1>1. /\ TypeOK' /\ pc[t] = "find"
      /\ UNCHANGED <<table, obj, freedUse, handles, destroyers, style>>
  BY <1>0, FindFacts
<1>2. CASE UNCHANGED <<inUse, pc, loc>>
  <2>1. Queues'
    BY <1>1, <1>2, QueuesKeep
  <2>2. Owned'
    BY <1>1, OwnedKeep
  <2>3. RoomStep({})
    BY <1>1, <1>2, StillRoom DEF SameEntries, Pending
  <2>4. RoomMoves({})
    BY <1>1, <1>2, QuietMoves
  <2> QED BY <1>0, <1>1, <2>1, <2>2, <2>3, <2>4, RoomKeep
<1>3. CASE ~UNCHANGED <<inUse, pc, loc>>
  <2>1. PICK k \in Kinds, i \in Indices : k = loc[t].kind /\ i = loc'[t].index
    <3>1. loc[t].kind \in Kinds /\ loc'[t].index \in Indices
      BY <1>0, <1>3, FindFacts, LocStep
    <3> QED BY <3>1
  <2>2. /\ i \notin inUse[k] /\ loc'[t].kind = k /\ OnlyPc(t, "init")
        /\ \A u \in Threads : u # t => loc'[u] = loc[u]
        /\ inUse' = [inUse EXCEPT ![k] = inUse[k] \cup {i}]
    BY <1>0, <1>3, <2>1, FindFacts
  <2>3. \A u \in Threads : \/ u # t /\ pc'[u] = pc[u] /\ loc'[u] = loc[u]
                           \/ u = t /\ pc[u] = "find" /\ pc'[u] = "init"
    BY <1>0, <1>1, <2>2 DEF OnlyPc, TypeOK
  <2>4. Queues'
    BY <1>1, <2>3, QueuesKeep
  <2>5. Owned'
    BY <1>1, OwnedKeep
  <2>6. inUse \in [Kinds -> SUBSET Indices]
    BY <1>0 DEF TypeOK
  <2>7. /\ i \in inUse'[k] /\ \A m \in Kinds, j \in Indices : j \in inUse[m] => j \in inUse'[m]
    BY <2>2, <2>6
  <2>8. ASSUME NEW u \in Threads, NEW m \in Kinds, NEW j \in Indices, Pending(u, m, j)'
        PROVE  \/ Pending(u, m, j)
               \/ /\ j \notin inUse[m] /\ j \in inUse'[m]
                  /\ \A w \in Threads : Pending(w, m, j)' => w = u
    <3>1. CASE u # t
      BY <2>3, <2>8, <3>1 DEF Pending
    <3>2. CASE u = t
      <4>1. m = k /\ j = i
        BY <2>1, <2>2, <2>8, <3>2 DEF Pending
      <4>2. ASSUME NEW w \in Threads, Pending(w, m, j)', w # t PROVE FALSE
        <5>1. Pending(w, k, i)
          BY <2>3, <4>1, <4>2 DEF Pending
        <5> QED BY <1>0, <2>2, <5>1 DEF Fresh
      <4> QED BY <2>2, <2>7, <3>2, <4>1, <4>2
    <3> QED BY <3>1, <3>2
  <2>9. ASSUME NEW m \in Kinds, NEW j \in Indices
        PROVE  /\ table'[m][j] = table[m][j]
               /\ Protected(m, j)' <=> Protected(m, j)
               /\ obj'[table[m][j].obj].status = "live" <=> Live(table[m][j].obj)
    BY <1>1 DEF Protected, Live
  <2>10. RoomStep({})
    BY <2>7, <2>8, <2>9 DEF RoomStep
  <2>11. RoomMoves({})
    BY <1>1, <2>3, QuietMoves DEF Busy
  <2> QED BY <1>0, <1>1, <2>4, <2>5, <2>10, <2>11, RoomKeep
<1> QED BY <1>2, <1>3

(* Exit, up to the loops.                                                   *)
LEMMA SafeExit ==
    ASSUME Inv, GoodStyles, NEW t \in Threads, Exit(t)
    PROVE  Queues' /\ Owned' /\ Rooms' /\ ~freedUse'
<1>0. TypeOK /\ ~freedUse /\ Calm
  BY DEF Inv, IsoInv, Rooms
<1>1. /\ TypeOK' /\ pc[t] = "user"
      /\ UNCHANGED <<inUse, table, obj, loc, freedUse, handles, destroyers, style>>
      /\ "exitAfterDestroy" \in style.waived \/ Space[t] \notin destroyers
      /\ pc' = pc \/ OnlyPc(t, "exited") \/ (LastThread(t) /\ OnlyPc(t, "exitLocks"))
  BY <1>0, ExitFacts
<1>2. \A u \in Threads : pc'[u] = pc[u] \/ (u = t /\ pc'[u] \in {"exited", "exitLocks"})
  BY <1>0, <1>1 DEF OnlyPc, TypeOK
<1>3. Queues'
  BY <1>1, <1>2, QueuesKeep
<1>4. Owned'
  BY <1>1, OwnedKeep
<1>5. RoomStep({})
  <2>1. \A u \in Threads, m \in Kinds, j \in Indices : Pending(u, m, j)' => Pending(u, m, j)
    BY <1>1, <1>2 DEF Pending
  <2> QED BY <1>1, <2>1, StillRoom DEF SameEntries
<1>6. Space[t] \notin destroyers
  <2>1. style \in Styles
    BY <1>0 DEF TypeOK
  <2> QED BY <1>0, <1>1, <2>1 DEF GoodStyles, Calm
<1>7. LastThread(t) => \A w \in Threads : Space[w] = Space[t] /\ w # t => pc[w] = "exited"
  BY DEF LastThread, Alive
<1>8. \A u \in Threads : InExit(u)' => InExit(u) \/ (u = t /\ LastThread(t))
  BY <1>0, <1>1 DEF InExit, OnlyPc, TypeOK
<1>9. \A u \in Threads : /\ pc'[u] = "Acquire" => pc[u] = "Acquire"
                         /\ InWait(u)' => InWait(u)
                         /\ InWait(u) => InWait(u)'
                         /\ pc[u] = "exited" => pc'[u] = "exited"
  BY <1>1, <1>2 DEF InWait
<1>10. RoomMoves({})
  BY <1>1, <1>6, <1>7, <1>8, <1>9 DEF RoomMoves
<1>11. Rooms'
  BY <1>1, <1>5, <1>10, RoomKeep
<1> QED BY <1>0, <1>1, <1>3, <1>4, <1>11

(* Acquire: the lock is live, and the thread owns it or sleeps in it.       *)
LEMMA SafeAcquire ==
    ASSUME Inv, GoodStyles, NEW t \in Threads, NEW i \in Indices, Acquire(t, i)
    PROVE  Queues' /\ Owned' /\ Rooms' /\ ~freedUse'
<1>0. TypeOK /\ Queues /\ Owned /\ "lock" \in Kinds /\ "cond" \in Kinds
  BY DEF Inv, IsoInv, Kinds
<1>1. PICK a \in Pointers : a = The("lock", i)
  BY <1>0, EntryFacts
<1>2. /\ TypeOK' /\ SameEntries /\ pc[t] = "user" /\ Refers(t, "lock", i) /\ freedUse' = ~Live(a)
      /\ UNCHANGED <<inUse, handles, destroyers, style>>
  BY <1>0, <1>1, AcquireFacts
<1>3. Live(a) /\ a \in Addrs /\ Sound(t, "lock", i)
  BY <1>0, <1>1, <1>2, GoodUse
<1>4. /\ obj \in [Pointers -> Objects] /\ pc \in [Threads -> Places]
      /\ \A b \in Addrs : b \in Pointers
  BY <1>0 DEF TypeOK, Pointers
<1>5. \A m \in Kinds, j \in Indices : table'[m][j].obj = table[m][j].obj
  BY <1>2 DEF SameEntries
<1>6. /\ \A b \in Pointers : b # a => Take(obj, a, t)[b] = obj[b]
      /\ Take(obj, a, t)[a].status = obj[a].status
      /\ IF obj[a].owner = NoThread
         THEN Take(obj, a, t)[a].owner = t /\ Take(obj, a, t)[a].queue = obj[a].queue
         ELSE /\ Take(obj, a, t)[a].owner = obj[a].owner
              /\ Take(obj, a, t)[a].queue = Append(obj[a].queue, t)
  BY <1>4, TakeFacts
<1>7. CASE pc' = pc /\ loc' = loc /\ (obj' = obj \/ (obj[a].owner = NoThread /\ obj' = Take(obj, a, t)))
  <2>1. \A b \in Pointers : /\ obj'[b].queue = obj[b].queue /\ obj'[b].status = obj[b].status
                            /\ obj'[b].owner = obj[b].owner \/ obj'[b].owner = t
    BY <1>6, <1>7
  <2>2. Queues'
    BY <1>2, <1>4, <1>5, <1>7, <2>1, QueuesKeep
  <2>3. Owned'
    <3>1. ASSUME NEW j \in Indices, obj'[table["lock"][j].obj].status = "live",
                 obj'[table["lock"][j].obj].queue # <<>>
          PROVE  obj'[table["lock"][j].obj].owner # NoThread
      <4>1. table["lock"][j].obj \in Pointers
        BY <1>0, EntryFacts
      <4> QED BY <1>0, <2>1, <3>1, <4>1, SyncAssumption DEF Owned, Live, The
    <3> QED BY <1>0, <1>5, <3>1 DEF Owned, Live, The
  <2>4. RoomStep({})
    BY <1>2, <1>7, <2>1, StillRoom DEF Pending
  <2>5. RoomMoves({})
    BY <1>2, <1>7, QuietMoves
  <2> QED BY <1>2, <1>3, <2>2, <2>3, <2>4, <2>5, RoomKeep
<1>8. CASE /\ obj[a].owner \notin {t, NoThread} /\ obj' = Take(obj, a, t) /\ OnlyPc(t, "Acquire")
           /\ loc'[t].index = i /\ \A u \in Threads : u # t => loc'[u] = loc[u]
  <2>1. pc'[t] = "Acquire" /\ \A u \in Threads : u # t => pc'[u] = pc[u]
    BY <1>4, <1>8 DEF OnlyPc
  <2>2. \A b \in Addrs : InQueueAt(pc, t, b)' <=> b = a
    BY <1>0, <1>1, <1>5, <1>8, <2>1 DEF InQueueAt, The
  <2>3. \A b \in Addrs : ~InQueueAt(pc, t, b)
    BY <1>2 DEF InQueueAt
  <2>4. \A b \in Pointers : obj'[b].status = obj[b].status
    BY <1>6, <1>8
  <2>5. \A u \in Threads : u # t => pc'[u] = pc[u] /\ loc'[u] = loc[u]
    BY <1>8, <2>1
  <2>6. Queues' /\ Owned'
    BY <1>3, <1>5, <1>8, <2>2, <2>3, <2>5, QueueUp
  <2>7. RoomStep({})
    <3>1. \A u \in Threads, m \in Kinds, j \in Indices : Pending(u, m, j)' => Pending(u, m, j)
      BY <2>1, <2>5 DEF Pending
    <3> QED BY <1>2, <2>4, <3>1, StillRoom
  <2>8. RoomMoves({})
    <3>1. ASSUME NEW u \in Threads, u # t
          PROVE  /\ pc'[u] = "Acquire" => pc[u] = "Acquire" /\ loc'[u].index = loc[u].index
                 /\ InWait(u)' => InWait(u) /\ loc'[u].index = loc[u].index /\ loc'[u].lock = loc[u].lock
                 /\ InWait(u) => InWait(u)' /\ loc'[u].index = loc[u].index
                 /\ InExit(u)' => InExit(u)
                 /\ pc[u] = "exited" => pc'[u] = "exited"
      BY <2>5, <3>1 DEF InWait, InExit
    <3>2. /\ ~InWait(t)' /\ ~InWait(t) /\ ~InExit(t)' /\ pc[t] # "exited"
          /\ Sound(t, "lock", loc'[t].index)
      BY <1>2, <1>3, <1>8, <2>1 DEF InWait, InExit
    <3> QED BY <1>2, <3>1, <3>2 DEF RoomMoves
  <2> QED BY <1>2, <1>3, <2>6, <2>7, <2>8, RoomKeep
<1>9. QED
  <2>1. \/ UNCHANGED <<obj, pc, loc>>
        \/ /\ obj[a].owner = NoThread /\ obj' = Take(obj, a, t) /\ UNCHANGED <<pc, loc>>
        \/ /\ obj[a].owner \notin {t, NoThread} /\ obj' = Take(obj, a, t) /\ OnlyPc(t, "Acquire")
           /\ loc'[t].index = i /\ \A u \in Threads : u # t => loc'[u] = loc[u]
    BY <1>0, <1>1, AcquireFacts
  <2> QED BY <1>7, <1>8, <2>1

(* Release: the lock is live and unmarked; only its new owner moves.        *)
LEMMA SafeRelease ==
    ASSUME Inv, GoodStyles, NEW t \in Threads, NEW i \in Indices, Release(t, i)
    PROVE  Queues' /\ Owned' /\ Rooms' /\ ~freedUse'
<1>0. TypeOK /\ Queues /\ Owned /\ "lock" \in Kinds /\ "cond" \in Kinds
  BY DEF Inv, IsoInv, Kinds
<1>1. PICK a \in Pointers : a = The("lock", i)
  BY <1>0, EntryFacts
<1>2. /\ TypeOK' /\ SameEntries /\ pc[t] = "user" /\ Refers(t, "lock", i) /\ freedUse' = ~Live(a)
      /\ UNCHANGED <<loc, handles, destroyers, style>>
  BY <1>0, <1>1, ReleaseFacts
<1>3. Live(a) /\ a \in Addrs /\ ~table["lock"][i].isToBeDeleted
  BY <1>0, <1>1, <1>2, GoodUse
<1>4. /\ inUse' = inUse /\ \A b \in Pointers : obj'[b].status = obj[b].status
      /\ IF Owns(t, i)
         THEN pc' = PassOnPc(a) /\ \A b \in Pointers : SameInside(obj', PassOn(obj, a), b)
         ELSE pc' = pc /\ \A b \in Pointers : SameInside(obj', obj, b)
  BY <1>0, <1>1, <1>3, ReleaseFacts
<1>5. /\ \A m \in Kinds, j \in Indices : table'[m][j].obj = table[m][j].obj
      /\ \A j \in Indices : table["lock"][j].obj \in Pointers
      /\ \A b \in Addrs : b \in Pointers
  BY <1>0, <1>2, EntryFacts DEF SameEntries, Pointers
<1>6. CASE ~Owns(t, i)
  <2>1. \A b \in Pointers : obj'[b].queue = obj[b].queue /\ obj'[b].owner = obj[b].owner
    BY <1>4, <1>6 DEF SameInside
  <2>2. Queues'
    BY <1>2, <1>4, <1>5, <1>6, <2>1, QueuesKeep
  <2>3. Owned'
    BY <1>4, <1>5, <2>1, OwnedKeep
  <2>4. RoomStep({})
    BY <1>2, <1>4, <1>6, StillRoom DEF Pending
  <2>5. RoomMoves({})
    BY <1>2, <1>4, <1>6, QuietMoves
  <2> QED BY <1>2, <1>3, <2>2, <2>3, <2>4, <2>5, RoomKeep
<1>7. CASE Owns(t, i)
  <2>0. pc' = PassOnPc(a)
    BY <1>4, <1>7
  <2>1. \A u \in Threads :
           \/ pc'[u] = pc[u]
           \/ pc[u] = "Acquire" /\ pc'[u] = "user"
           \/ pc[u] = "relock" /\ pc'[u] = "postlude"
    BY <1>1, <1>3, <2>0, PassOnQueues
  <2>2. \A b \in Addrs :
           /\ \A u \in Threads : u \in Elements(PassOn(obj, a)[b].queue) <=> InQueueAt(PassOnPc(a), u, b)
           /\ Distinct(PassOn(obj, a)[b].queue)
    BY <1>1, <1>3, PassOnQueues
  <2>3. \A j \in Indices :
           Live(The("lock", j)) /\ PassOn(obj, a)[The("lock", j)].queue # <<>> =>
              PassOn(obj, a)[The("lock", j)].owner # NoThread
    BY <1>1, <1>3, PassOnQueues
  <2>4. \A b \in Pointers : obj'[b].queue = PassOn(obj, a)[b].queue /\ obj'[b].owner = PassOn(obj, a)[b].owner
    BY <1>4, <1>7 DEF SameInside
  <2>5. Queues'
    <3>1. ASSUME NEW b \in Addrs, NEW u \in Threads
          PROVE  u \in Elements(obj'[b].queue) <=> InQueueAt(pc, u, b)'
      <4>1. u \in Elements(obj'[b].queue) <=> InQueueAt(PassOnPc(a), u, b)
        BY <1>5, <2>2, <2>4
      <4>2. loc[u].index \in Indices
        BY <1>0, LocStep
      <4>3. InQueueAt(pc, u, b)' <=> InQueueAt(PassOnPc(a), u, b)
        BY <1>0, <1>2, <1>5, <2>0, <4>2 DEF InQueueAt, The
      <4> QED BY <4>1, <4>3
    <3>2. \A b \in Addrs : Distinct(obj'[b].queue)
      BY <1>5, <2>2, <2>4
    <3> QED BY <3>1, <3>2 DEF Queues
  <2>6. Owned'
    BY <1>0, <1>4, <1>5, <2>3, <2>4 DEF Owned, Live, The
  <2>7. RoomStep({})
    <3>1. \A u \in Threads, m \in Kinds, j \in Indices : Pending(u, m, j)' => Pending(u, m, j)
      BY <1>2, <2>1 DEF Pending
    <3> QED BY <1>2, <1>4, <3>1, StillRoom
  <2>8. RoomMoves({})
    <3>1. ASSUME NEW u \in Threads
          PROVE  /\ pc'[u] = "Acquire" => pc[u] = "Acquire"
                 /\ InWait(u)' => InWait(u)
                 /\ InWait(u) => InWait(u)'
                 /\ InExit(u)' => InExit(u)
                 /\ pc[u] = "exited" => pc'[u] = "exited"
      BY <2>1 DEF InWait, InExit
    <3> QED BY <1>2, <3>1 DEF RoomMoves
  <2> QED BY <1>2, <1>3, <2>5, <2>6, <2>7, <2>8, RoomKeep
<1> QED BY <1>6, <1>7

(* Wait: refused, or asleep in a live, unmarked condition.                  *)
LEMMA SafeWait ==
    ASSUME Inv, GoodStyles, NEW t \in Threads, NEW c \in Indices, NEW i \in Indices, Wait(t, c, i)
    PROVE  Queues' /\ Owned' /\ Rooms' /\ ~freedUse'
<1>0. TypeOK /\ Queues /\ Owned /\ Unique /\ "lock" \in Kinds /\ "cond" \in Kinds
  BY DEF Inv, IsoInv, Kinds
<1>1. PICK l \in Pointers, v \in Pointers : l = The("lock", i) /\ v = The("cond", c)
  BY <1>0, EntryFacts
<1>2. /\ TypeOK' /\ pc[t] = "user" /\ Refers(t, "cond", c) /\ Refers(t, "lock", i)
      /\ WaitRefused(c, v, l) \/ WaitAsleep(t, c, i, v, l)
      /\ UNCHANGED <<table, handles, destroyers, style>>
  BY <1>0, <1>1, WaitFacts
<1>3. /\ Live(l) /\ l \in Addrs /\ Live(v) /\ v \in Addrs /\ Sound(t, "cond", c)
      /\ ~table["cond"][c].isToBeDeleted
  BY <1>0, <1>1, <1>2, GoodUse
<1>4. SameEntries /\ \A b \in Addrs : b \in Pointers
  BY <1>2 DEF SameEntries, Pointers
<1>5. \A j \in Indices : The("lock", j) \in Pointers /\ The("lock", j) # v
  BY <1>0, <1>1, <1>3, EntryFacts DEF Unique
<1>6. CASE WaitRefused(c, v, l)
  <2>1. /\ \A b \in Pointers : /\ obj'[b].owner = obj[b].owner /\ obj'[b].queue = obj[b].queue
                               /\ obj'[b].status = obj[b].status
        /\ UNCHANGED <<inUse, pc, loc>> /\ ~freedUse'
    BY <1>3, <1>6 DEF WaitRefused
  <2>2. Queues'
    BY <1>2, <1>4, <2>1, QueuesKeep
  <2>3. Owned'
    BY <1>2, <2>1, OwnedKeep
  <2>4. RoomStep({})
    BY <1>2, <1>4, <2>1, StillRoom DEF Pending
  <2>5. RoomMoves({})
    BY <1>2, <2>1, QuietMoves
  <2> QED BY <1>2, <2>1, <2>2, <2>3, <2>4, <2>5, RoomKeep
<1>7. CASE WaitAsleep(t, c, i, v, l)
  <2>1. /\ inUse' = inUse /\ ~freedUse'
        /\ \A b \in Pointers : obj'[b].status = obj[b].status /\ obj'[b].owner = PassOn(obj, l)[b].owner
        /\ \A b \in Pointers : b # v => obj'[b].queue = PassOn(obj, l)[b].queue
        /\ obj'[v].queue = Append(PassOn(obj, l)[v].queue, t)
        /\ pc' = [PassOnPc(l) EXCEPT ![t] = "Wait"]
        /\ loc'[t].index = c /\ loc'[t].lock = l
        /\ \A u \in Threads : u # t => loc'[u] = loc[u]
    BY <1>3, <1>7 DEF WaitAsleep
  <2>2. \A u \in Threads :
           \/ PassOnPc(l)[u] = pc[u]
           \/ pc[u] = "Acquire" /\ PassOnPc(l)[u] = "user"
           \/ pc[u] = "relock" /\ PassOnPc(l)[u] = "postlude"
    BY <1>1, <1>3, PassOnQueues
  <2>3. \A b \in Addrs :
           /\ \A u \in Threads : u \in Elements(PassOn(obj, l)[b].queue) <=> InQueueAt(PassOnPc(l), u, b)
           /\ Distinct(PassOn(obj, l)[b].queue) /\ PassOn(obj, l)[b].queue \in Seq(Threads)
    BY <1>1, <1>3, PassOnQueues
  <2>4. \A j \in Indices :
           Live(The("lock", j)) /\ PassOn(obj, l)[The("lock", j)].queue # <<>> =>
              PassOn(obj, l)[The("lock", j)].owner # NoThread
    BY <1>1, <1>3, PassOnQueues
  <2>5. PassOnPc(l) \in [Threads -> Places]
    BY <1>0, PassOnPcFacts
  <2>6. pc'[t] = "Wait" /\ \A u \in Threads : u # t => pc'[u] = PassOnPc(l)[u]
    BY <2>1, <2>5
  <2>7. \A b \in Addrs : t \notin Elements(PassOn(obj, l)[b].queue)
    BY <1>2, <2>2, <2>3 DEF InQueueAt
  <2>8. /\ Elements(obj'[v].queue) = Elements(PassOn(obj, l)[v].queue) \cup {t}
        /\ Distinct(obj'[v].queue)
    BY <1>3, <2>1, <2>3, <2>7, AppendFacts
  <2>9. Queues'
    <3>1. ASSUME NEW b \in Addrs, NEW u \in Threads
          PROVE  u \in Elements(obj'[b].queue) <=> InQueueAt(pc, u, b)'
      <4>1. u \in Elements(PassOn(obj, l)[b].queue) <=> InQueueAt(PassOnPc(l), u, b)
        BY <2>3
      <4>2. CASE u # t
        <5>1. InQueueAt(pc, u, b)' <=> InQueueAt(PassOnPc(l), u, b)
          BY <1>2, <2>1, <2>6, <4>2 DEF InQueueAt, The
        <5>2. u \in Elements(obj'[b].queue) <=> u \in Elements(PassOn(obj, l)[b].queue)
          BY <1>4, <2>1, <2>8, <4>2
        <5> QED BY <4>1, <5>1, <5>2
      <4>3. CASE u = t
        <5>1. InQueueAt(pc, u, b)' <=> b = v
          BY <1>1, <1>2, <2>1, <2>6, <4>3 DEF InQueueAt, The
        <5>2. u \in Elements(obj'[b].queue) <=> b = v
          BY <1>4, <2>1, <2>7, <2>8, <4>3
        <5> QED BY <5>1, <5>2
      <4> QED BY <4>2, <4>3
    <3>2. \A b \in Addrs : Distinct(obj'[b].queue)
      BY <1>4, <2>1, <2>3, <2>8
    <3> QED BY <3>1, <3>2 DEF Queues
  <2>10. Owned'
    BY <1>0, <1>2, <1>5, <2>1, <2>4 DEF Owned, Live, The
  <2>11. RoomStep({})
    <3>1. \A u \in Threads, m \in Kinds, j \in Indices : Pending(u, m, j)' => Pending(u, m, j)
      BY <2>1, <2>2, <2>6 DEF Pending
    <3> QED BY <1>2, <1>4, <2>1, <3>1, StillRoom
  <2>12. RoomMoves({})
    <3>1. ASSUME NEW u \in Threads, u # t
          PROVE  /\ pc'[u] = "Acquire" => pc[u] = "Acquire" /\ loc'[u].index = loc[u].index
                 /\ InWait(u)' => InWait(u) /\ loc'[u].index = loc[u].index /\ loc'[u].lock = loc[u].lock
                 /\ InWait(u) => InWait(u)' /\ loc'[u].index = loc[u].index
                 /\ InExit(u)' => InExit(u)
                 /\ pc[u] = "exited" => pc'[u] = "exited"
      BY <2>1, <2>2, <2>6, <3>1 DEF InWait, InExit
    <3>2. HasLock(l)
      BY <1>1, <1>3 DEF HasLock
    <3>3. /\ pc'[t] # "Acquire" /\ ~InWait(t) /\ ~InExit(t)' /\ pc[t] # "exited"
          /\ Sound(t, "cond", loc'[t].index) /\ HasLock(loc'[t].lock)
          /\ ~table'["cond"][loc'[t].index].isToBeDeleted
      BY <1>2, <1>3, <2>1, <2>6, <3>2 DEF InWait, InExit
    <3> QED BY <1>2, <3>1, <3>3 DEF RoomMoves
  <2> QED BY <1>2, <2>1, <2>9, <2>10, <2>11, <2>12, RoomKeep
<1> QED BY <1>2, <1>6, <1>7

(* Signal and Broadcast: the condition is live; its sleepers wake.          *)
LEMMA SafeWake ==
    ASSUME Inv, GoodStyles, NEW t \in Threads, NEW c \in Indices, NEW i \in Indices,
           NEW all \in BOOLEAN, Wake(t, c, i, all)
    PROVE  Queues' /\ Owned' /\ Rooms' /\ ~freedUse'
<1>0. TypeOK /\ Queues /\ Owned /\ Unique /\ "lock" \in Kinds /\ "cond" \in Kinds
  BY DEF Inv, IsoInv, Kinds
<1>1. PICK l \in Pointers, v \in Pointers : l = The("lock", i) /\ v = The("cond", c)
  BY <1>0, EntryFacts
<1>2. /\ TypeOK' /\ pc[t] = "user" /\ Valid(t, "cond", c) /\ Refers(t, "lock", i)
      /\ \/ "staleId" \in style.waived
         \/ c \in handles["cond"][Space[t]]
         \/ Waiters(Space[t], c) # {}
      /\ freedUse' = (~Live(v) \/ ~Live(l))
      /\ \A b \in Pointers : obj'[b].status = obj[b].status /\ obj'[b].owner = obj[b].owner
      /\ \A b \in Pointers : b # v => obj'[b].queue = obj[b].queue
      /\ UNCHANGED <<inUse, table, loc, handles, destroyers, style>>
  BY <1>0, <1>1, WakeFacts
<1>3. Live(l)
  BY <1>0, <1>1, <1>2, GoodUse
<1>4. Live(v)
  <2>1. CASE Waiters(Space[t], c) # {}
    <3>1. PICK u \in Threads : InWait(u) /\ loc[u].index = c
      BY <2>1 DEF Waiters
    <3>2. Sound(u, "cond", c)
      BY <3>1, WaiterFacts
    <3> QED BY <1>1, <3>2 DEF Sound
  <2>2. CASE Waiters(Space[t], c) = {}
    <3>1. Refers(t, "cond", c)
      BY <1>2, <2>2 DEF Refers
    <3> QED BY <1>0, <1>1, <3>1, GoodUse
  <2> QED BY <2>1, <2>2
<1>5. v \in Addrs /\ SameEntries /\ \A b \in Addrs : b \in Pointers
  BY <1>2, <1>4, LiveAddr DEF SameEntries, Pointers
<1>6. WakesSome(v)
  BY <1>0, <1>1, WakeFacts
<1>7. PICK W \in SUBSET Elements(obj[v].queue) :
         /\ Elements(obj'[v].queue) \subseteq Elements(obj[v].queue)
         /\ Distinct(obj[v].queue) => /\ Elements(obj'[v].queue) = Elements(obj[v].queue) \ W
                                      /\ Distinct(obj'[v].queue)
         /\ pc' = [u \in Threads |-> IF u \in W THEN "woken" ELSE pc[u]]
  BY <1>6 DEF WakesSome
<1>8. Elements(obj'[v].queue) = Elements(obj[v].queue) \ W /\ Distinct(obj'[v].queue)
  BY <1>0, <1>5, <1>7 DEF Queues
<1>9. \A u \in Threads : u \in W => pc[u] = "Wait" /\ loc[u].index = c /\ pc'[u] = "woken"
  BY <1>1, <1>4, <1>7, CondQueue
<1>10. \A u \in Threads : u \notin W => pc'[u] = pc[u]
  BY <1>7
<1>11. Queues'
  <2>1. ASSUME NEW b \in Addrs, NEW u \in Threads
        PROVE  u \in Elements(obj'[b].queue) <=> InQueueAt(pc, u, b)'
    <3>1. u \in Elements(obj[b].queue) <=> InQueueAt(pc, u, b)
      BY <1>0 DEF Queues
    <3>2. CASE u \notin W
      <4>1. InQueueAt(pc, u, b)' <=> InQueueAt(pc, u, b)
        BY <1>2, <1>10, <3>2 DEF InQueueAt, The
      <4>2. u \in Elements(obj'[b].queue) <=> u \in Elements(obj[b].queue)
        BY <1>2, <1>5, <1>8, <3>2
      <4> QED BY <3>1, <4>1, <4>2
    <3>3. CASE u \in W
      <4>1. ~InQueueAt(pc, u, b)'
        BY <1>9, <3>3 DEF InQueueAt
      <4>2. b # v => ~InQueueAt(pc, u, b)
        BY <1>1, <1>9, <3>3 DEF InQueueAt
      <4>3. u \notin Elements(obj'[b].queue)
        BY <1>2, <1>5, <1>8, <3>1, <3>3, <4>2
      <4> QED BY <4>1, <4>3
    <3> QED BY <3>2, <3>3
  <2>2. \A b \in Addrs : Distinct(obj'[b].queue)
    BY <1>0, <1>2, <1>5, <1>8 DEF Queues
  <2> QED BY <2>1, <2>2 DEF Queues
<1>12. Owned'
  <2>1. \A j \in Indices : The("lock", j) \in Pointers /\ The("lock", j) # v
    BY <1>0, <1>1, <1>4, EntryFacts DEF Unique
  <2> QED BY <1>0, <1>2, <2>1 DEF Owned, Live, The
<1>13. RoomStep({})
  <2>1. \A u \in Threads, m \in Kinds, j \in Indices : Pending(u, m, j)' => Pending(u, m, j)
    BY <1>2, <1>9, <1>10 DEF Pending
  <2> QED BY <1>2, <1>5, <2>1, StillRoom
<1>14. RoomMoves({})
  <2>1. ASSUME NEW u \in Threads
        PROVE  /\ pc'[u] = "Acquire" => pc[u] = "Acquire"
               /\ InWait(u)' => InWait(u)
               /\ InWait(u) => InWait(u)'
               /\ InExit(u)' => InExit(u)
               /\ pc[u] = "exited" => pc'[u] = "exited"
    BY <1>9, <1>10 DEF InWait, InExit
  <2> QED BY <1>2, <2>1 DEF RoomMoves
<1> QED BY <1>2, <1>3, <1>4, <1>11, <1>12, <1>13, <1>14, RoomKeep
-----------------------------------------------------------------------------
(* Signal and Broadcast that wake nobody: the objects they read are live.   *)
LEMMA SafeWakeNobody ==
    ASSUME Inv, GoodStyles, NEW t \in Threads, NEW c \in Indices, NEW i \in Indices, WakeNobody(t, c, i)
    PROVE  Queues' /\ Owned' /\ Rooms' /\ ~freedUse'
<1>0. TypeOK
  BY DEF Inv, IsoInv
<1>1. PICK l, v : l = The("lock", i) /\ v = The("cond", c)
  OBVIOUS
<1>2. /\ Valid(t, "cond", c) /\ Refers(t, "lock", i)
      /\ \/ "staleId" \in style.waived
         \/ c \in handles["cond"][Space[t]]
         \/ Waiters(Space[t], c) # {}
      /\ Live(v) /\ Live(l) => ~freedUse'
      /\ UNCHANGED <<objVars, tableLock, pc, loc, processIDLock, halted, progVars>>
  BY <1>0, <1>1, WakeNobodyFacts
<1>3. Live(l)
  BY <1>1, <1>2, GoodUse DEF Kinds
<1>4. Live(v)
  <2>1. CASE Waiters(Space[t], c) # {}
    <3>1. PICK u \in Threads : InWait(u) /\ loc[u].index = c
      BY <2>1 DEF Waiters
    <3>2. Sound(u, "cond", c)
      BY <3>1, WaiterFacts
    <3> QED BY <1>1, <3>2 DEF Sound
  <2>2. CASE Waiters(Space[t], c) = {}
    <3>1. Refers(t, "cond", c)
      BY <1>2, <2>2 DEF Refers
    <3> QED BY <1>1, <3>1, GoodUse DEF Kinds
  <2> QED BY <2>1, <2>2
<1>5. Queues' /\ Owned' /\ Rooms'
  BY <1>2 DEF Inv, objVars, progVars, Queues, Owned, Rooms, InQueueAt, Kept, Protected,
              Pending, Fresh, Sound, HasLock, Sleeping, Sole, Marks, InExit, Exiting, Calm,
              Live, The, Valid, InWait
<1> QED BY <1>2, <1>3, <1>4, <1>5

(* Steps that free objects                                                  *)

(* One entry's object is deleted and its bit cleared.                       *)
LEMMA FreeRoom ==
    ASSUME Inv, NEW k \in Kinds, NEW i \in Indices, NEW a, a = The(k, i), Live(a), SameEntries,
           obj'[a].status = "freed",
           \A b \in Pointers : b # a => obj'[b].status = obj[b].status,
           inUse' = [inUse EXCEPT ![k] = inUse[k] \ {i}],
           \A u \in Threads, m \in Kinds, j \in Indices : Pending(u, m, j)' => Pending(u, m, j),
           \A m \in Kinds, j \in Indices :
              Protected(m, j)' => Protected(m, j) /\ ~(m = k /\ j = i)
    PROVE  RoomStep({<<k, i>>})
<1>0. TypeOK /\ Unique /\ Fresh
  BY DEF Inv, IsoInv, Rooms
<1>1. inUse \in [Kinds -> SUBSET Indices]
  BY <1>0 DEF TypeOK
<1>2. PICK G : G = {<<k, i>>}
  OBVIOUS
<1>3. \A m \in Kinds, j \in Indices : <<m, j>> \in G <=> m = k /\ j = i
  BY <1>2
<1>4. ASSUME NEW m \in Kinds, NEW j \in Indices
      PROVE  obj'[table[m][j].obj].status = "live" <=> Live(table[m][j].obj) /\ <<m, j>> \notin G
  <2>1. table[m][j].obj \in Pointers
    BY <1>0, EntryFacts
  <2>2. CASE m = k /\ j = i
    BY <1>3, <2>2 DEF The
  <2>3. CASE ~(m = k /\ j = i)
    <3>1. table[m][j].obj # a
      BY <1>0, <2>3 DEF Unique, The
    <3> QED BY <1>3, <2>1, <2>3, <3>1 DEF Live
  <2> QED BY <2>2, <2>3
<1>5. ASSUME NEW m \in Kinds, NEW j \in Indices
      PROVE  /\ table'[m][j].obj = table[m][j].obj
             /\ table'[m][j].space = table[m][j].space
             /\ <<m, j>> \in G => Live(table[m][j].obj)
             /\ Protected(m, j)' => Protected(m, j) /\ <<m, j>> \notin G
             /\ table'[m][j].isToBeDeleted => table[m][j].isToBeDeleted
  BY <1>3 DEF SameEntries, The
<1>6. \A m \in Kinds, j \in Indices : j \in inUse[m] /\ <<m, j>> \notin G => j \in inUse'[m]
  BY <1>1, <1>3
<1>7. \A u \in Threads, m \in Kinds, j \in Indices : Pending(u, m, j)' =>
         Pending(u, m, j) /\ <<m, j>> \notin G
  BY <1>0, <1>3 DEF Fresh
<1>8. RoomStep(G)
  BY <1>4, <1>5, <1>6, <1>7 DEF RoomStep
<1> QED BY <1>2, <1>8

(* Nobody whose objects are freed sleeps.                                   *)
LEMMA FreeMoves ==
    ASSUME Inv, NEW G, loc' = loc, style' = style,
           \A u \in Threads : pc'[u] = pc[u] \/ (InExit(u) /\ pc'[u] \in {"exitConds", "exited"}),
           \/ destroyers' = destroyers
           \/ /\ "Destroy" \in style.calls /\ pc' = pc
              /\ \E t \in Threads : pc[t] = "user" /\ destroyers' = destroyers \cup {Space[t]},
           \A u \in Threads : pc[u] = "Acquire" => <<"lock", loc[u].index>> \notin G,
           \A u \in Threads : InWait(u) =>
              /\ <<"cond", loc[u].index>> \notin G
              /\ \A i \in Indices : The("lock", i) = loc[u].lock => <<"lock", i>> \notin G
    PROVE  RoomMoves(G)
<1>1. ASSUME NEW u \in Threads
      PROVE  /\ pc'[u] = "Acquire" => pc[u] = "Acquire"
             /\ InWait(u)' => InWait(u)
             /\ InWait(u) => InWait(u)'
             /\ InExit(u)' => InExit(u)
             /\ pc[u] = "exited" => pc'[u] = "exited"
  BY DEF InWait, InExit
<1> QED BY <1>1 DEF RoomMoves

(* A Destroy call takes the index from its process.                         *)
LEMMA GivesUp ==
    ASSUME NEW t \in Threads, NEW k \in Kinds, NEW i \in Indices, table[k][i].space = Space[t],
           \A m \in Kinds, j \in Indices : table'[m][j].space = table[m][j].space,
           GivesBack(t, k, i),
           destroyers' = destroyers \cup {Space[t]}
    PROVE  \A m \in Kinds, j \in Indices :
              Protected(m, j)' => Protected(m, j) /\ ~(m = k /\ j = i)
<1>1. SUFFICES ASSUME NEW m \in Kinds, NEW j \in Indices, Protected(m, j)'
               PROVE  Protected(m, j) /\ ~(m = k /\ j = i)
  OBVIOUS
<1>2. PICK s \in Spaces : s = table[m][j].space
  BY <1>1 DEF Protected
<1>3. (s \notin destroyers /\ s # Space[t]) \/ j \in handles'[m][s]
  BY <1>1, <1>2 DEF Protected
<1>4. s \notin destroyers \/ j \in handles[m][s]
  BY <1>3 DEF GivesBack
<1>5. ~(m = k /\ j = i)
  BY <1>2, <1>3 DEF GivesBack
<1> QED BY <1>2, <1>4, <1>5 DEF Protected
(* A thread leaves Wait_Syscall, and deletes the condition if it is marked. *)
LEMMA SafeLeave ==
    ASSUME Inv, TypeOK', NEW t \in Threads, NEW c, c = loc[t].index, pc[t] \in {"woken", "postlude"},
           NEW o, AfterWait(c, o),
           \A b \in Pointers : /\ o[b].status = obj[b].status /\ o[b].queue = obj[b].queue
                               /\ o[b].owner = obj[b].owner \/ o[b].owner = t,
           OnlyPc(t, "user"), loc' = [loc EXCEPT ![t] = NoLocals],
           UNCHANGED <<table, handles, destroyers, style>>
    PROVE  Queues' /\ Owned' /\ Rooms'
<1>0. /\ TypeOK /\ Owned /\ Kept /\ Marks /\ "lock" \in Kinds /\ "cond" \in Kinds
      /\ c \in Indices /\ InWait(t)
  BY LocStep DEF Inv, IsoInv, Rooms, Kinds, InWait
<1>1. PICK v \in Pointers : v = The("cond", c)
  BY <1>0, EntryFacts
<1>2. Live(v) /\ \A b \in Addrs : b \in Pointers
  BY <1>0, <1>1, WaiterFacts DEF Sound, Pointers
<1>3. /\ pc'[t] = "user"
      /\ \A u \in Threads : u # t => pc'[u] = pc[u] /\ loc'[u] = loc[u]
  <2>1. pc \in [Threads -> Places] /\ loc \in [Threads -> Locals]
    BY <1>0 DEF TypeOK
  <2> QED BY <2>1 DEF OnlyPc
<1>4. \A b \in Pointers : /\ obj'[b].queue = obj[b].queue
                          /\ obj'[b].owner = obj[b].owner \/ obj'[b].owner = t
                          /\ obj'[b].status = "live" => obj[b].status = "live"
  BY <1>1 DEF AfterWait
<1>5. Queues'
  BY <1>2, <1>3, <1>4, QueuesKeep
<1>6. Owned'
  <2>1. \A j \in Indices : The("lock", j) \in Pointers
    BY <1>0, EntryFacts
  <2> QED BY <1>0, <1>4, <2>1, SyncAssumption DEF Owned, Live, The
<1>7. \A u \in Threads, m \in Kinds, j \in Indices : Pending(u, m, j)' => Pending(u, m, j)
  BY <1>3 DEF Pending
<1>8. SameEntries /\ \A m \in Kinds, j \in Indices : Protected(m, j)' <=> Protected(m, j)
  BY DEF SameEntries, Protected
<1>9. ASSUME NEW u \in Threads, u # t
      PROVE  /\ pc'[u] = "Acquire" => pc[u] = "Acquire" /\ loc'[u].index = loc[u].index
             /\ InWait(u)' => InWait(u) /\ loc'[u].index = loc[u].index /\ loc'[u].lock = loc[u].lock
             /\ InWait(u) => InWait(u)' /\ loc'[u].index = loc[u].index
             /\ InExit(u)' => InExit(u)
             /\ pc[u] = "exited" => pc'[u] = "exited"
  BY <1>3, <1>9 DEF InWait, InExit
<1>10. pc'[t] # "Acquire" /\ ~InWait(t)' /\ ~InExit(t)' /\ pc[t] # "exited"
  BY <1>3 DEF InWait, InExit
<1>11. CASE ~table["cond"][c].isToBeDeleted
  <2>1. inUse' = inUse /\ \A b \in Pointers : obj'[b].status = obj[b].status
    BY <1>11 DEF AfterWait
  <2>2. RoomStep({})
    BY <1>7, <1>8, <2>1, StillRoom
  <2>3. RoomMoves({})
    BY <1>9, <1>10, <1>11 DEF RoomMoves
  <2> QED BY <1>5, <1>6, <2>2, <2>3, RoomKeep
<1>12. CASE table["cond"][c].isToBeDeleted
  <2>1. \A w \in Threads : InWait(w) /\ loc[w].index = c => w = t
    BY <1>0, <1>1, <1>2, <1>12 DEF Marks, Sole
  <2>2. obj[v].queue = <<>>
    <3>1. obj[v].queue \in Seq(Threads)
      <4>1. obj[v] \in Objects
        BY <1>0 DEF TypeOK, Pointers
      <4> QED BY <4>1, FieldFacts
    <3>2. ASSUME NEW w \in Elements(obj[v].queue) PROVE FALSE
      <4>1. w \in Threads /\ pc[w] = "Wait" /\ loc[w].index = c
        BY <1>0, <1>1, <1>2, CondQueue
      <4> QED BY <2>1, <4>1 DEF InWait
    <3> QED BY <3>1, <3>2, NonEmpty
  <2>3. /\ obj'[v].status = "freed" /\ inUse' = [inUse EXCEPT !["cond"] = inUse["cond"] \ {c}]
        /\ \A b \in Pointers : b # v => obj'[b].status = obj[b].status
    BY <1>1, <1>12, <2>2 DEF AfterWait
  <2>4. ~Protected("cond", c)
    BY <1>0, <1>12 DEF Kept
  <2>5. \A m \in Kinds, j \in Indices : Protected(m, j)' => Protected(m, j) /\ ~(m = "cond" /\ j = c)
    BY <1>8, <2>4
  <2>6. RoomStep({<<"cond", c>>})
    BY <1>0, <1>1, <1>2, <1>7, <1>8, <2>3, <2>5, FreeRoom
  <2>7. PICK G : G = {<<"cond", c>>}
    OBVIOUS
  <2>8. <<"cond", c>> \in G /\ \A j \in Indices : <<"lock", j>> \notin G /\ (j # c => <<"cond", j>> \notin G)
    BY <2>7
  <2>9. \A u \in Threads : loc[u].index \in Indices
    BY <1>0, LocStep
  <2>10. RoomMoves(G)
    BY <1>9, <1>10, <2>1, <2>8, <2>9 DEF RoomMoves
  <2> QED BY <1>5, <1>6, <2>6, <2>7, <2>10, RoomKeep
<1> QED BY <1>11, <1>12

(* The thread that was handed its lock.                                     *)
LEMMA SafeFinish ==
    ASSUME Inv, NEW t \in Threads, FinishWait(t)
    PROVE  Queues' /\ Owned' /\ Rooms' /\ ~freedUse'
<1>0. TypeOK
  BY DEF Inv, IsoInv
<1>1. PICK c : c = loc[t].index
  OBVIOUS
<1>2. /\ TypeOK' /\ pc[t] = "postlude" /\ OnlyPc(t, "user") /\ loc' = [loc EXCEPT ![t] = NoLocals]
      /\ AfterWait(c, obj)
      /\ freedUse' = (table["cond"][c].isToBeDeleted /\ ~Live(The("cond", c)))
      /\ UNCHANGED <<table, handles, destroyers, style>>
  BY <1>0, <1>1, FinishFacts
<1>3. Live(The("cond", c))
  BY <1>1, <1>2, WaiterFacts DEF Sound, InWait
<1>4. Queues' /\ Owned' /\ Rooms'
  BY <1>1, <1>2, SafeLeave
<1> QED BY <1>2, <1>3, <1>4

(* The woken thread: it has its lock, or sleeps in it.                      *)
LEMMA SafeResume ==
    ASSUME Inv, NEW t \in Threads, ResumeWait(t)
    PROVE  Queues' /\ Owned' /\ Rooms' /\ ~freedUse'
<1>0. TypeOK
  BY DEF Inv, IsoInv
<1>1. PICK c, l : c = loc[t].index /\ l = loc[t].lock
  OBVIOUS
<1>2. /\ TypeOK' /\ pc[t] = "woken" /\ UNCHANGED <<table, handles, destroyers, style>>
      /\ \/ /\ obj[l].owner = NoThread
            /\ OnlyPc(t, "user") /\ loc' = [loc EXCEPT ![t] = NoLocals]
            /\ AfterWait(c, Take(obj, l, t))
            /\ freedUse' = \/ ~Live(l)
                           \/ table["cond"][c].isToBeDeleted /\ ~Live(The("cond", c))
         \/ /\ obj[l].owner # NoThread
            /\ OnlyPc(t, "relock") /\ obj' = Take(obj, l, t) /\ freedUse' = ~Live(l)
            /\ UNCHANGED <<inUse, loc>>
  BY <1>0, <1>1, ResumeFacts
<1>3. InWait(t) /\ Live(The("cond", c)) /\ Live(l) /\ l \in Addrs
  BY <1>1, <1>2, WaiterFacts DEF Sound, InWait
<1>4. obj \in [Pointers -> Objects] /\ pc \in [Threads -> Places] /\ \A b \in Addrs : b \in Pointers
  BY <1>0 DEF TypeOK, Pointers
<1>5. /\ \A b \in Pointers : b # l => Take(obj, l, t)[b] = obj[b]
      /\ Take(obj, l, t)[l].status = obj[l].status
      /\ obj[l].owner = NoThread =>
            Take(obj, l, t)[l].owner = t /\ Take(obj, l, t)[l].queue = obj[l].queue
  BY <1>3, <1>4, TakeFacts
<1>6. CASE obj[l].owner = NoThread
  <2>1. \A b \in Pointers : /\ Take(obj, l, t)[b].status = obj[b].status
                            /\ Take(obj, l, t)[b].queue = obj[b].queue
                            /\ Take(obj, l, t)[b].owner = obj[b].owner \/ Take(obj, l, t)[b].owner = t
    BY <1>5, <1>6
  <2>2. Queues' /\ Owned' /\ Rooms'
    BY <1>1, <1>2, <1>6, <2>1, SafeLeave
  <2> QED BY <1>2, <1>3, <1>6, <2>2
<1>7. CASE obj[l].owner # NoThread
  <2>1. /\ OnlyPc(t, "relock") /\ obj' = Take(obj, l, t) /\ ~freedUse' /\ UNCHANGED <<inUse, loc>>
    BY <1>2, <1>3, <1>7
  <2>2. pc'[t] = "relock" /\ \A u \in Threads : u # t => pc'[u] = pc[u]
    BY <1>4, <2>1 DEF OnlyPc
  <2>3. /\ \A b \in Addrs : InQueueAt(pc, t, b)' <=> b = l
        /\ \A b \in Addrs : ~InQueueAt(pc, t, b)
    BY <1>1, <1>2, <2>1, <2>2 DEF InQueueAt
  <2>4. Queues' /\ Owned'
    BY <1>2, <1>3, <1>7, <2>1, <2>2, <2>3, QueueUp
  <2>5. \A u \in Threads, m \in Kinds, j \in Indices : Pending(u, m, j)' => Pending(u, m, j)
    BY <2>1, <2>2 DEF Pending
  <2>6. SameEntries /\ \A b \in Pointers : obj'[b].status = obj[b].status
    BY <1>2, <1>5, <2>1 DEF SameEntries
  <2>7. RoomStep({})
    BY <1>2, <2>1, <2>5, <2>6, StillRoom
  <2>8. ASSUME NEW u \in Threads
        PROVE  /\ pc'[u] = "Acquire" => pc[u] = "Acquire"
               /\ InWait(u)' => InWait(u)
               /\ InWait(u) => InWait(u)'
               /\ InExit(u)' => InExit(u)
               /\ pc[u] = "exited" => pc'[u] = "exited"
    BY <1>2, <2>2 DEF InWait, InExit
  <2>9. RoomMoves({})
    BY <1>2, <2>1, <2>8 DEF RoomMoves
  <2> QED BY <1>2, <2>1, <2>4, <2>7, <2>9, RoomKeep
<1> QED BY <1>6, <1>7
(* Programs that destroy keep every rule.                                   *)
LEMMA Rules ==
    ASSUME Inv, GoodStyles, "Destroy" \in style.calls
    PROVE  style.waived = {}
BY DEF Inv, IsoInv, TypeOK, GoodStyles

(* DestroyLock: nobody holds the lock, sleeps in it or will take it.        *)
LEMMA SafeDestroyLock ==
    ASSUME Inv, GoodStyles, NEW t \in Threads, NEW i \in Indices, DestroyLock(t, i)
    PROVE  Queues' /\ Owned' /\ Rooms' /\ ~freedUse'
<1>0. TypeOK /\ Queues /\ Owned /\ "lock" \in Kinds /\ "cond" \in Kinds
  BY DEF Inv, IsoInv, Kinds
<1>1. PICK a \in Pointers : a = The("lock", i)
  BY <1>0, EntryFacts
<1>2. /\ TypeOK' /\ "Destroy" \in style.calls /\ pc[t] = "user" /\ Refers(t, "lock", i)
      /\ \/ "inUse" \in style.waived
         \/ obj[a].owner = NoThread /\ \A u \in Threads : InWait(u) => loc[u].lock # a
      /\ freedUse' = ~Live(a)
      /\ \A b \in Pointers : SameInside(obj', obj, b)
      /\ GivesBack(t, "lock", i)
      /\ destroyers' = destroyers \cup {Space[t]}
      /\ UNCHANGED <<pc, loc, style>>
  BY <1>0, <1>1, DestroyLockFacts
<1>3. obj[a].owner = NoThread /\ \A u \in Threads : InWait(u) => loc[u].lock # a
  BY <1>2, Rules
<1>4. /\ obj'[a].status = "freed" /\ table' = table
      /\ \A b \in Pointers : b # a => obj'[b].status = obj[b].status
      /\ inUse' = [inUse EXCEPT !["lock"] = inUse["lock"] \ {i}]
  BY <1>0, <1>1, <1>3, DestroyLockFacts
<1>5. Live(a) /\ a \in Addrs /\ table["lock"][i].space = Space[t]
  BY <1>0, <1>1, <1>2, GoodUse
<1>6. \A b \in Pointers : /\ obj'[b].queue = obj[b].queue /\ obj'[b].owner = obj[b].owner
                          /\ obj'[b].status = "live" => obj[b].status = "live"
  BY <1>2, <1>4 DEF SameInside
<1>7. Queues'
  BY <1>2, <1>4, <1>6, QueuesKeep DEF Pointers
<1>8. Owned'
  BY <1>4, <1>6, OwnedKeep
<1>9. SameEntries /\ \A u \in Threads, m \in Kinds, j \in Indices : Pending(u, m, j)' => Pending(u, m, j)
  BY <1>2, <1>4 DEF SameEntries, Pending
<1>10. \A m \in Kinds, j \in Indices : Protected(m, j)' => Protected(m, j) /\ ~(m = "lock" /\ j = i)
  BY <1>0, <1>2, <1>4, <1>5, GivesUp
<1>11. RoomStep({<<"lock", i>>})
  BY <1>0, <1>1, <1>4, <1>5, <1>9, <1>10, FreeRoom
<1>12. PICK G : G = {<<"lock", i>>}
  OBVIOUS
<1>13. \A u \in Threads : pc[u] = "Acquire" => <<"lock", loc[u].index>> \notin G
  <2>1. obj[a].queue = <<>>
    BY <1>0, <1>1, <1>3, <1>5 DEF Owned
  <2>2. ASSUME NEW u \in Threads, pc[u] = "Acquire", loc[u].index = i PROVE FALSE
    <3>1. u \in Elements(obj[a].queue)
      BY <1>0, <1>1, <1>5, <2>2 DEF Queues, InQueueAt
    <3> QED BY <2>1, <3>1, EmptyFacts
  <2> QED BY <1>12, <2>2
<1>14. \A u \in Threads : InWait(u) =>
          /\ <<"cond", loc[u].index>> \notin G
          /\ \A j \in Indices : The("lock", j) = loc[u].lock => <<"lock", j>> \notin G
  BY <1>1, <1>3, <1>12
<1>15. RoomMoves(G)
  BY <1>2, <1>13, <1>14, FreeMoves
<1> QED BY <1>2, <1>5, <1>7, <1>8, <1>11, <1>12, <1>15, RoomKeep

(* DestroyCondition: nobody is in Wait, or one thread that will delete it.  *)
LEMMA SafeDestroyCond ==
    ASSUME Inv, GoodStyles, NEW t \in Threads, NEW c \in Indices, DestroyCondition(t, c)
    PROVE  Queues' /\ Owned' /\ Rooms' /\ ~freedUse'
<1>0. TypeOK /\ Queues /\ Owned /\ Sleeping /\ "lock" \in Kinds /\ "cond" \in Kinds
  BY DEF Inv, IsoInv, Rooms, Kinds
<1>1. PICK v \in Pointers : v = The("cond", c)
  BY <1>0, EntryFacts
<1>2. /\ TypeOK' /\ "Destroy" \in style.calls /\ pc[t] = "user" /\ Refers(t, "cond", c)
      /\ "manyWaiters" \in style.waived \/ Cardinality(Waiters(Space[t], c)) <= 1
      /\ "wokenWaiter" \in style.waived \/ \A u \in Waiters(Space[t], c) : pc[u] = "Wait"
      /\ freedUse' = ~Live(v)
      /\ \A m \in Kinds, j \in Indices :
            table'[m][j].obj = table[m][j].obj /\ table'[m][j].space = table[m][j].space
      /\ \A b \in Pointers : SameInside(obj', obj, b)
      /\ GivesBack(t, "cond", c)
      /\ destroyers' = destroyers \cup {Space[t]}
      /\ UNCHANGED <<pc, loc, style>>
  BY <1>0, <1>1, DestroyCondFacts
<1>3. Cardinality(Waiters(Space[t], c)) <= 1 /\ \A u \in Waiters(Space[t], c) : pc[u] = "Wait"
  BY <1>2, Rules
<1>4. Live(v) /\ v \in Addrs /\ table["cond"][c].space = Space[t]
  BY <1>0, <1>1, <1>2, GoodUse
<1>5. \A u \in Threads : InWait(u) /\ loc[u].index = c => u \in Waiters(Space[t], c)
  BY <1>4, WaiterFacts DEF Waiters
<1>6. \A u, w \in Waiters(Space[t], c) : u = w
  <2>1. Waiters(Space[t], c) \in SUBSET Threads
    BY DEF Waiters
  <2>2. IsFiniteSet(Waiters(Space[t], c))
    BY <2>1, SyncAssumption, FS_Subset
  <2>3. ASSUME NEW u \in Waiters(Space[t], c), NEW w \in Waiters(Space[t], c), u # w PROVE FALSE
    <3>1. PICK S : S = {u}
      OBVIOUS
    <3>2. IsFiniteSet(S) /\ Cardinality(S) = 1 /\ w \notin S
      BY <2>3, <3>1, FS_Singleton
    <3>3. Cardinality(S \cup {w}) = 2 /\ Cardinality(S \cup {w}) <= Cardinality(Waiters(Space[t], c))
      <4>1. Cardinality(S \cup {w}) = Cardinality(S) + 1
        BY <3>2, FS_AddElement
      <4>2. S \cup {w} \in SUBSET Waiters(Space[t], c)
        BY <3>1
      <4> QED BY <2>2, <3>2, <4>1, <4>2, FS_Subset
    <3>4. Cardinality(Waiters(Space[t], c)) \in Nat
      BY <2>2, FS_CardinalityType
    <3> QED BY <1>3, <3>3, <3>4
  <2> QED BY <2>3
<1>7. \A m \in Kinds, j \in Indices : Protected(m, j)' => Protected(m, j) /\ ~(m = "cond" /\ j = c)
  BY <1>0, <1>2, <1>4, GivesUp
<1>8. /\ \A u \in Threads, m \in Kinds, j \in Indices : Pending(u, m, j)' => Pending(u, m, j)
      /\ \A b \in Addrs : b \in Pointers
  BY <1>2 DEF Pending, Pointers
<1>9. \A b \in Pointers : obj'[b].queue = obj[b].queue /\ obj'[b].owner = obj[b].owner
  BY <1>2 DEF SameInside
<1>10. Queues'
  BY <1>2, <1>8, <1>9, QueuesKeep
<1>11. CASE obj[v].queue = <<>>
  <2>1. /\ obj'[v].status = "freed" /\ table' = table
        /\ \A b \in Pointers : b # v => obj'[b].status = obj[b].status
        /\ inUse' = [inUse EXCEPT !["cond"] = inUse["cond"] \ {c}]
    BY <1>0, <1>1, <1>11, DestroyCondFacts
  <2>2. Owned'
    BY <1>2, <1>9, <2>1, OwnedKeep
  <2>3. SameEntries
    BY <2>1 DEF SameEntries
  <2>4. RoomStep({<<"cond", c>>})
    BY <1>0, <1>1, <1>4, <1>7, <1>8, <2>1, <2>3, FreeRoom
  <2>5. PICK G : G = {<<"cond", c>>}
    OBVIOUS
  <2>6. ASSUME NEW u \in Threads, InWait(u), loc[u].index = c PROVE FALSE
    <3>1. pc[u] = "Wait"
      BY <1>3, <1>5, <2>6
    <3>2. u \in Elements(obj[v].queue)
      BY <1>0, <1>1, <1>4, <2>6, <3>1 DEF Queues, InQueueAt
    <3> QED BY <1>11, <3>2, EmptyFacts
  <2>7. /\ \A u \in Threads : pc[u] = "Acquire" => <<"lock", loc[u].index>> \notin G
        /\ \A u \in Threads : InWait(u) =>
              /\ <<"cond", loc[u].index>> \notin G
              /\ \A j \in Indices : The("lock", j) = loc[u].lock => <<"lock", j>> \notin G
    BY <2>5, <2>6
  <2>8. RoomMoves(G)
    BY <1>2, <2>7, FreeMoves
  <2> QED BY <1>2, <1>4, <1>10, <2>2, <2>4, <2>5, <2>8, RoomKeep
<1>12. CASE obj[v].queue # <<>>
  <2>1. /\ UNCHANGED <<obj, inUse>>
        /\ \A m \in Kinds, j \in Indices : m # "cond" \/ j # c =>
              table'[m][j].isToBeDeleted = table[m][j].isToBeDeleted
    BY <1>0, <1>1, <1>12, DestroyCondFacts
  <2>2. Owned'
    BY <1>2, <2>1, OwnedKeep
  <2>3. PICK u \in Elements(obj[v].queue) : TRUE
    <3>1. obj[v] \in Objects
      BY <1>0 DEF TypeOK, Pointers
    <3>2. obj[v].queue \in Seq(Threads)
      BY <3>1, FieldFacts
    <3> QED BY <1>12, <3>2, NonEmpty
  <2>4. u \in Threads /\ pc[u] = "Wait" /\ loc[u].index = c
    BY <1>1, <1>4, CondQueue
  <2>5. Sole(u, c)'
    <3>1. InWait(u) /\ loc[u].index = c
      BY <2>4 DEF InWait
    <3>2. \A w \in Threads : InWait(w) /\ loc[w].index = c => w = u
      BY <1>5, <1>6, <2>4, <3>1
    <3> QED BY <1>2, <3>1, <3>2 DEF Sole, InWait
  <2>6. ASSUME NEW m \in Kinds, NEW j \in Indices, table'[m][j].isToBeDeleted
        PROVE  \/ table[m][j].isToBeDeleted
               \/ m = "cond" /\ ~Protected(m, j)' /\ \E w \in Threads : Sole(w, j)'
    BY <1>7, <2>1, <2>4, <2>5, <2>6
  <2>7. RoomStep({})
    BY <1>2, <1>7, <1>8, <2>1, <2>6 DEF RoomStep, Live
  <2>8. RoomMoves({})
    BY <1>2, FreeMoves
  <2> QED BY <1>2, <1>4, <1>10, <2>2, <2>7, <2>8, RoomKeep
<1> QED BY <1>11, <1>12
(* A loop of Exit: what it frees is live, and its process is gone.          *)
LEMMA SafeFree ==
    ASSUME Inv, TypeOK', NEW t \in Threads, NEW k \in Kinds, InExit(t),
           NEW s \in Spaces, s = Space[t], FreeAll(k, s),
           NEW p \in {"exitConds", "exited"}, OnlyPc(t, p), UNCHANGED <<loc, handles, destroyers, style>>
    PROVE  Queues' /\ Owned' /\ Rooms' /\ ~freedUse'
<1>0. /\ TypeOK /\ Unique /\ WaitsAtHome /\ Kept /\ Fresh /\ Sleeping /\ Exiting
      /\ "lock" \in Kinds /\ "cond" \in Kinds /\ Space[t] \in Spaces
  BY SyncAssumption DEF Inv, IsoInv, Rooms, Kinds
<1>1. TypeOK
  BY <1>0
<1>2. /\ freedUse' = \E i \in Indices : table[k][i].space = s /\ ~Live(The(k, i))
      /\ \A b \in Pointers : SameInside(obj', obj, b)
      /\ \A b \in Pointers : obj'[b].status =
            IF \E i \in Indices : table[k][i].space = s /\ b = The(k, i) THEN "freed"
            ELSE obj[b].status
  BY <1>1, FreeAllFacts
<1>b. \A m \in Kinds, j \in Indices :
         /\ table'[m][j].obj = table[m][j].obj
         /\ IF m = k /\ table[m][j].space = s
            THEN table'[m][j].space = NoSpace /\ ~table'[m][j].isToBeDeleted
            ELSE table'[m][j] = table[m][j]
  BY <1>1, FreeAllFacts
<1>c. \A m \in Kinds, j \in Indices :
         j \in inUse'[m] <=> j \in inUse[m] /\ ~(m = k /\ table[m][j].space = s)
  <2>1. PICK M : M = {j \in Indices : table[k][j].space = s}
    OBVIOUS
  <2>2. inUse' = [inUse EXCEPT ![k] = inUse[k] \ M] /\ inUse \in [Kinds -> SUBSET Indices]
    BY <1>1, <2>1 DEF FreeAll, TypeOK
  <2> QED BY <2>1, <2>2
<1>3. ASSUME NEW m \in Kinds, NEW j \in Indices
      PROVE  /\ table'[m][j].obj = table[m][j].obj
             /\ m = k /\ table[m][j].space = s =>
                   table'[m][j].space = NoSpace /\ ~table'[m][j].isToBeDeleted
             /\ ~(m = k /\ table[m][j].space = s) => table'[m][j] = table[m][j]
             /\ j \in inUse[m] /\ ~(m = k /\ table[m][j].space = s) => j \in inUse'[m]
  BY <1>b, <1>c
<1>4. \A i \in Indices : table[k][i].space = s => Live(The(k, i))
  BY <1>0 DEF Exiting, Kept, Protected
<1>5. \A u \in Threads : Space[u] = s => u = t \/ pc[u] = "exited"
  BY <1>0 DEF Exiting
<1>6. p \notin {"user", "find", "init", "Acquire", "Wait", "woken", "relock", "postlude"}
  OBVIOUS
<1>7. pc'[t] = p /\ \A u \in Threads : u # t => pc'[u] = pc[u]
  <2>1. pc \in [Threads -> Places]
    BY <1>0 DEF TypeOK
  <2> QED BY <2>1 DEF OnlyPc
<1>8. \A b \in Pointers : /\ obj'[b].queue = obj[b].queue /\ obj'[b].owner = obj[b].owner
                          /\ obj'[b].status = "live" => obj[b].status = "live"
  BY <1>2 DEF SameInside
<1>9. Queues'
  <2>1. \A u \in Threads : \/ pc'[u] = pc[u] /\ loc'[u] = loc[u]
                           \/ /\ pc[u] \notin {"Acquire", "relock", "Wait"}
                              /\ pc'[u] \notin {"Acquire", "relock", "Wait"}
    BY <1>6, <1>7 DEF InExit
  <2> QED BY <1>3, <1>8, <2>1, QueuesKeep DEF Pointers
<1>10. Owned'
  BY <1>3, <1>8, OwnedKeep
<1>11. PICK G : G = {<<k, j>> : j \in {x \in Indices : table[k][x].space = s}}
  OBVIOUS
<1>12. ASSUME NEW m \in Kinds, NEW j \in Indices
       PROVE  <<m, j>> \in G <=> m = k /\ table[m][j].space = s
  <2>1. <<m, j>> \in G <=> \E x \in Indices : table[k][x].space = s /\ <<m, j>> = <<k, x>>
    BY <1>11
  <2>2. \A x : <<m, j>> = <<k, x>> <=> m = k /\ j = x
    OBVIOUS
  <2> QED BY <2>1, <2>2
<1>13. RoomStep(G)
  <2>1. ASSUME NEW m \in Kinds, NEW j \in Indices
        PROVE  obj'[table[m][j].obj].status = "live" <=> Live(table[m][j].obj) /\ <<m, j>> \notin G
    <3>1. table[m][j].obj \in Pointers
      BY <1>0, EntryFacts
    <3>2. CASE <<m, j>> \in G
      BY <1>2, <1>12, <3>1, <3>2 DEF The
    <3>3. CASE <<m, j>> \notin G
      <4>1. ~\E i \in Indices : table[k][i].space = s /\ table[m][j].obj = The(k, i)
        BY <1>0, <1>4, <1>12, <3>3 DEF Unique, The
      <4> QED BY <1>2, <3>1, <3>3, <4>1 DEF Live
    <3> QED BY <3>2, <3>3
  <2>2. ASSUME NEW m \in Kinds, NEW j \in Indices
        PROVE  /\ table'[m][j].obj = table[m][j].obj
               /\ <<m, j>> \notin G => table'[m][j].space = table[m][j].space
               /\ <<m, j>> \in G => Live(table[m][j].obj)
               /\ j \in inUse[m] /\ <<m, j>> \notin G => j \in inUse'[m]
               /\ table'[m][j].isToBeDeleted => table[m][j].isToBeDeleted
    BY <1>3, <1>4, <1>12 DEF The
  <2>3. ASSUME NEW m \in Kinds, NEW j \in Indices, Protected(m, j)'
        PROVE  Protected(m, j) /\ <<m, j>> \notin G
    <3>1. <<m, j>> \notin G
      BY <1>3, <1>12, <2>3, SyncAssumption DEF Protected
    <3> QED BY <2>2, <2>3, <3>1 DEF Protected
  <2>4. ASSUME NEW u \in Threads, NEW m \in Kinds, NEW j \in Indices, Pending(u, m, j)'
        PROVE  Pending(u, m, j) /\ <<m, j>> \notin G
    <3>1. Pending(u, m, j)
      BY <1>6, <1>7, <2>4 DEF Pending
    <3> QED BY <1>0, <2>2, <3>1 DEF Fresh, The
  <2> QED BY <2>1, <2>2, <2>3, <2>4 DEF RoomStep
<1>14. RoomMoves(G)
  <2>1. ASSUME NEW u \in Threads, pc[u] = "Acquire" PROVE <<"lock", loc[u].index>> \notin G
    <3>1. loc[u].index \in Indices /\ table["lock"][loc[u].index].space = Space[u]
      BY <1>0, <2>1, LocStep DEF Sleeping, Sound, Valid
    <3> QED BY <1>0, <1>5, <1>12, <2>1, <3>1 DEF InExit
  <2>2. ASSUME NEW u \in Threads, InWait(u)
        PROVE  /\ <<"cond", loc[u].index>> \notin G
               /\ \A i \in Indices : The("lock", i) = loc[u].lock => <<"lock", i>> \notin G
    <3>1. Space[u] # s
      BY <1>5, <2>2 DEF InExit, InWait
    <3>2. loc[u].index \in Indices /\ table["cond"][loc[u].index].space = Space[u]
      BY <2>2, WaiterFacts
    <3>3. ASSUME NEW i \in Indices, The("lock", i) = loc[u].lock, <<"lock", i>> \in G PROVE FALSE
      <4>1. Live(The("lock", i)) /\ table["lock"][i].space = s
        BY <1>0, <1>4, <1>12, <3>3
      <4> QED BY <1>0, <3>1, <3>3, <4>1 DEF WaitsAtHome
    <3> QED BY <1>0, <1>12, <3>1, <3>2, <3>3
  <2>3. \A u \in Threads : pc'[u] = pc[u] \/ (InExit(u) /\ pc'[u] \in {"exitConds", "exited"})
    BY <1>7
  <2> QED BY <2>1, <2>2, <2>3, FreeMoves
<1>15. Rooms'
  BY <1>13, <1>14, RoomKeep
<1> QED BY <1>2, <1>4, <1>9, <1>10, <1>15

(* The two loops.                                                           *)
LEMMA SafeExitLocks ==
    ASSUME Inv, NEW t \in Threads, ExitLocks(t)
    PROVE  Queues' /\ Owned' /\ Rooms' /\ ~freedUse'
<1>1. /\ TypeOK' /\ pc[t] = "exitLocks" /\ FreeAll("lock", Space[t]) /\ OnlyPc(t, "exitConds")
      /\ UNCHANGED <<loc, handles, destroyers, style>>
  BY ExitLocksFacts DEF Inv, IsoInv
<1>2. "lock" \in Kinds /\ InExit(t) /\ Space[t] \in Spaces
  BY <1>1, SyncAssumption DEF Kinds, InExit
<1> QED BY <1>1, <1>2, SafeFree

LEMMA SafeExitConds ==
    ASSUME Inv, NEW t \in Threads, ExitConds(t)
    PROVE  Queues' /\ Owned' /\ Rooms' /\ ~freedUse'
<1>1. /\ TypeOK' /\ pc[t] = "exitConds" /\ FreeAll("cond", Space[t]) /\ OnlyPc(t, "exited")
      /\ UNCHANGED <<loc, handles, destroyers, style>>
  BY ExitCondsFacts DEF Inv, IsoInv
<1>2. "cond" \in Kinds /\ InExit(t) /\ Space[t] \in Spaces
  BY <1>1, SyncAssumption DEF Kinds, InExit
<1> QED BY <1>1, <1>2, SafeFree
-----------------------------------------------------------------------------
(* Create, the new object and its entry: nobody was in either.              *)
LEMMA SafeInit ==
    ASSUME Inv, NEW t \in Threads, InitEntry(t)
    PROVE  Queues' /\ Owned' /\ Rooms' /\ ~freedUse'
<1>0. /\ TypeOK /\ Created /\ Unique /\ Untouched /\ Queues /\ Owned /\ ~freedUse
      /\ Kept /\ Fresh /\ Sleeping /\ Marks /\ Exiting /\ Calm
      /\ "lock" \in Kinds /\ "cond" \in Kinds /\ Space[t] \in Spaces
  BY SyncAssumption DEF Inv, IsoInv, Rooms, Kinds
<1>1. PICK k \in Kinds, i \in Indices : k = loc[t].kind /\ i = loc[t].index
  BY <1>0, LocStep
<1>2. /\ TypeOK' /\ pc[t] = "init"
      /\ table'[k][i].space = Space[t] /\ ~table'[k][i].isToBeDeleted
      /\ \A m \in Kinds, j \in Indices : m # k \/ j # i => table'[m][j] = table[m][j]
      /\ OnlyPc(t, "user") /\ loc' = [loc EXCEPT ![t] = NoLocals]
      /\ UNCHANGED <<inUse, freedUse, destroyers, style>>
  BY <1>0, <1>1, InitFacts
<1>a. \A m \in Kinds, s \in Spaces : handles'[m][s] =
         IF m = loc[t].kind /\ s = Space[t] THEN handles[m][s] \cup {loc[t].index}
         ELSE handles[m][s]
  BY <1>0, InitFacts
<1>3. PICK a \in Addrs :
         /\ obj[a].status = "unused" /\ obj'[a].status = "live" /\ SameInside(obj', obj, a)
         /\ \A b \in Pointers : b # a => obj'[b] = obj[b]
         /\ table'[k][i].obj = a
  BY <1>0, <1>1, InitFacts
<1>4. i \in inUse[k] /\ ~Live(The(k, i)) /\ \A u \in Threads : Pending(u, k, i) => u = t
  BY <1>0, <1>1, <1>2 DEF Fresh, Pending
<1>5. /\ pc'[t] = "user"
      /\ \A u \in Threads : u # t => pc'[u] = pc[u] /\ loc'[u] = loc[u]
  <2>1. pc \in [Threads -> Places] /\ loc \in [Threads -> Locals]
    BY <1>0 DEF TypeOK
  <2> QED BY <1>2, <2>1 DEF OnlyPc
<1>6. \A b \in Addrs : b \in Pointers /\ b # NoAddr
  BY DEF Pointers, Addrs, NoAddr
<1>7. ASSUME NEW m \in Kinds, NEW j \in Indices
      PROVE  table[m][j].obj \in Pointers /\ table[m][j].obj # a
  BY <1>0, <1>3, <1>6, EntryFacts DEF Created, The
<1>8. ASSUME NEW m \in Kinds, NEW j \in Indices, ~(m = k /\ j = i)
      PROVE  table'[m][j] = table[m][j] /\ obj'[table[m][j].obj] = obj[table[m][j].obj]
  BY <1>2, <1>3, <1>7, <1>8
<1>9. \A u \in Threads : loc[u].index \in Indices /\ loc[u].lock \in Pointers
  BY <1>0, LocStep
<1>10. ASSUME NEW u \in Threads, NEW m \in Kinds, NEW j \in Indices, Sound(u, m, j)
       PROVE  ~(m = k /\ j = i) /\ Sound(u, m, j)'
  <2>1. ~(m = k /\ j = i)
    BY <1>4, <1>10 DEF Sound
  <2> QED BY <1>2, <1>8, <1>10, <2>1 DEF Sound, Valid, Live, The
<1>11. \A b \in Addrs : obj'[b].queue = obj[b].queue
  BY <1>3, <1>6 DEF SameInside
<1>12. Queues'
  <2>1. ASSUME NEW b \in Addrs, NEW u \in Threads
        PROVE  InQueueAt(pc, u, b)' <=> InQueueAt(pc, u, b)
    <3>1. CASE u = t
      BY <1>2, <1>5, <3>1 DEF InQueueAt
    <3>2. CASE u # t
      <4>1. /\ pc[u] = "Acquire" => Sound(u, "lock", loc[u].index)
            /\ pc[u] = "Wait" => Sound(u, "cond", loc[u].index)
        BY <1>0 DEF Sleeping, InWait
      <4>2. /\ pc[u] = "Acquire" => table'["lock"][loc[u].index] = table["lock"][loc[u].index]
            /\ pc[u] = "Wait" => table'["cond"][loc[u].index] = table["cond"][loc[u].index]
        BY <1>0, <1>8, <1>9, <1>10, <4>1
      <4> QED BY <1>5, <3>2, <4>2 DEF InQueueAt, The
    <3> QED BY <3>1, <3>2
  <2> QED BY <1>0, <1>11, <2>1 DEF Queues
<1>13. Owned'
  <2>1. ASSUME NEW j \in Indices, obj'[table'["lock"][j].obj].status = "live",
               obj'[table'["lock"][j].obj].queue # <<>>
        PROVE  obj'[table'["lock"][j].obj].owner # NoThread
    <3>1. CASE k = "lock" /\ j = i
      <4>1. obj'[a].queue = <<>>
        BY <1>0, <1>3, <1>11 DEF Untouched
      <4> QED BY <1>3, <2>1, <3>1, <4>1
    <3>2. CASE ~("lock" = k /\ j = i)
      <4>1. table'["lock"][j] = table["lock"][j]
            /\ obj'[table["lock"][j].obj] = obj[table["lock"][j].obj]
        BY <1>0, <1>8, <3>2
      <4> QED BY <1>0, <2>1, <4>1 DEF Owned, Live, The
    <3> QED BY <3>1, <3>2
  <2> QED BY <2>1 DEF Owned, Live, The
<1>14. Kept'
  <2>1. ASSUME NEW m \in Kinds, NEW j \in Indices, Protected(m, j)'
        PROVE  /\ obj'[table'[m][j].obj].status = "live" /\ j \in inUse'[m]
               /\ ~table'[m][j].isToBeDeleted
    <3>1. CASE m = k /\ j = i
      BY <1>2, <1>3, <1>4, <3>1
    <3>2. CASE ~(m = k /\ j = i)
      <4>1. table'[m][j] = table[m][j] /\ obj'[table[m][j].obj] = obj[table[m][j].obj]
        BY <1>8, <3>2
      <4>2. PICK s \in Spaces : s = table[m][j].space
        BY <2>1, <4>1 DEF Protected
      <4>3. j \in handles'[m][s] => j \in handles[m][s]
        <5>1. handles'[m][s] = IF m = k /\ s = Space[t] THEN handles[m][s] \cup {i} ELSE handles[m][s]
          BY <1>1, <1>a
        <5> QED BY <3>2, <5>1
      <4>4. Protected(m, j)
        BY <1>2, <2>1, <4>1, <4>2, <4>3 DEF Protected
      <4> QED BY <1>0, <1>2, <4>1, <4>4 DEF Kept, Live, The
    <3> QED BY <3>1, <3>2
  <2> QED BY <2>1 DEF Kept, Live, The
<1>15. Fresh'
  <2>1. \A u \in Threads, m \in Kinds, j \in Indices : Pending(u, m, j)' =>
           Pending(u, m, j) /\ ~(m = k /\ j = i)
    BY <1>4, <1>5 DEF Pending
  <2>2. ASSUME NEW m \in Kinds, NEW j \in Indices, ~(m = k /\ j = i)
        PROVE  obj'[table'[m][j].obj].status = "live" => Live(The(m, j))
    BY <1>8, <2>2 DEF Live, The
  <2>3. ASSUME NEW m \in Kinds, NEW j \in Indices
        PROVE  /\ j \notin inUse'[m] => obj'[table'[m][j].obj].status # "live"
               /\ \A u \in Threads : Pending(u, m, j)' =>
                     j \in inUse'[m] /\ obj'[table'[m][j].obj].status # "live"
               /\ \A u, w \in Threads : Pending(u, m, j)' /\ Pending(w, m, j)' => u = w
    BY <1>0, <1>2, <1>4, <2>1, <2>2 DEF Fresh
  <2> QED BY <2>3 DEF Fresh, Live, The
<1>16. \A u \in Threads : InWait(u)' <=> InWait(u)
  BY <1>2, <1>5 DEF InWait
<1>17. Sleeping'
  <2>1. ASSUME NEW u \in Threads, pc'[u] = "Acquire"
        PROVE  Sound(u, "lock", loc[u].index)'
    <3>1. pc[u] = "Acquire" /\ loc'[u] = loc[u]
      BY <1>5, <2>1
    <3>2. PICK j \in Indices : j = loc[u].index
      BY <1>9
    <3>3. Sound(u, "lock", j)
      BY <1>0, <3>1, <3>2 DEF Sleeping
    <3>4. Sound(u, "lock", j)'
      BY <1>0, <1>10, <3>3
    <3> QED BY <3>1, <3>2, <3>4 DEF Sound, Valid, Live, The
  <2>2. ASSUME NEW u \in Threads, InWait(u)'
        PROVE  Sound(u, "cond", loc[u].index)' /\ HasLock(loc[u].lock)'
    <3>1. InWait(u) /\ u # t
      BY <1>2, <1>16, <2>2 DEF InWait
    <3>2. PICK j \in Indices, l \in Pointers : j = loc[u].index /\ l = loc[u].lock
      BY <1>9
    <3>3. Sound(u, "cond", j) /\ HasLock(l)
      BY <1>0, <3>1, <3>2 DEF Sleeping
    <3>4. Sound(u, "cond", j)'
      BY <1>0, <1>10, <3>3
    <3>5. PICK n \in Indices : table["lock"][n].obj = l /\ Live(l)
      BY <3>3 DEF HasLock, The
    <3>6. table'["lock"][n].obj = l /\ obj'[l].status = "live"
      BY <1>0, <1>4, <1>8, <3>5 DEF Live, The
    <3>7. HasLock(l)'
      BY <3>6 DEF HasLock, Live, The
    <3>8. loc'[u] = loc[u]
      BY <1>5, <3>1
    <3> QED BY <3>2, <3>4, <3>7, <3>8 DEF Sound, Valid, Live, The, HasLock
  <2> QED BY <2>1, <2>2 DEF Sleeping
<1>18. Marks'
  <2>1. \A j \in Indices : ~table'["lock"][j].isToBeDeleted
    BY <1>0, <1>2 DEF Marks
  <2>2. ASSUME NEW c \in Indices, table'["cond"][c].isToBeDeleted,
               obj'[table'["cond"][c].obj].status = "live"
        PROVE  \E u \in Threads : Sole(u, c)'
    <3>1. ~("cond" = k /\ c = i)
      BY <1>2, <2>2
    <3>2. table["cond"][c].isToBeDeleted /\ Live(The("cond", c))
      BY <1>0, <1>8, <2>2, <3>1 DEF Live, The
    <3>3. PICK u \in Threads : Sole(u, c)
      BY <1>0, <3>2 DEF Marks
    <3>4. \A w \in Threads : InWait(w) => w # t
      BY <1>2 DEF InWait
    <3>5. InWait(u)' /\ loc'[u].index = c
      BY <1>5, <1>16, <3>3, <3>4 DEF Sole
    <3>6. \A w \in Threads : InWait(w)' /\ loc'[w].index = c => w = u
      BY <1>5, <1>16, <3>3, <3>4 DEF Sole
    <3> QED BY <3>5, <3>6 DEF Sole, InWait
  <2> QED BY <2>1, <2>2 DEF Marks, Live, The
<1>19. Exiting' /\ Calm'
  <2>1. \A u \in Threads : /\ InExit(u)' => InExit(u)
                           /\ pc[u] = "exited" => pc'[u] = "exited"
    BY <1>2, <1>5 DEF InExit
  <2> QED BY <1>0, <1>2, <2>1 DEF Exiting, Calm
<1> QED BY <1>0, <1>2, <1>12, <1>13, <1>14, <1>15, <1>17, <1>18, <1>19 DEF Rooms

-----------------------------------------------------------------------------
(* The invariant, and what it implies                                       *)

(* It holds at the start.                                                   *)
LEMMA SafeStart == Init => Inv
<1> SUFFICES ASSUME Init PROVE Inv
  OBVIOUS
<1>1. IsoInv
  BY IsoStart
<1>2. /\ inUse = [k \in Kinds |-> {}] /\ pc = [t \in Threads |-> "user"]
      /\ destroyers = {} /\ freedUse = FALSE
      /\ \A k \in Kinds, i \in Indices : /\ table[k][i].obj = NoAddr /\ table[k][i].space = NoSpace
                                         /\ table[k][i].isToBeDeleted = FALSE
      /\ \A a \in Pointers : obj[a].status = "unused" /\ obj[a].queue = <<>>
  BY DEF Init, Pointers
<1>3. /\ \A t \in Threads : pc[t] = "user"
      /\ \A a \in Addrs : obj[a].queue = <<>>
      /\ obj[NoAddr].status = "unused"
      /\ "lock" \in Kinds /\ "cond" \in Kinds
  BY <1>2 DEF Pointers, Kinds
<1>4. Queues
  BY <1>3, EmptyFacts DEF Queues, InQueueAt
<1>5. \A k \in Kinds, i \in Indices : ~Live(The(k, i)) /\ table[k][i].space \notin Spaces
  BY <1>2, <1>3, SyncAssumption DEF Live, The
<1>6. Owned
  BY <1>3, <1>5 DEF Owned
<1>7. Kept /\ Fresh
  BY <1>3, <1>5 DEF Kept, Protected, Fresh, Pending
<1>8. Sleeping /\ Marks /\ Exiting /\ Calm
  BY <1>2, <1>3, <1>5 DEF Sleeping, Marks, Exiting, Calm, InWait, InExit
<1> QED BY <1>1, <1>2, <1>4, <1>6, <1>7, <1>8 DEF Inv, Rooms

(* Every step keeps it.                                                     *)
LEMMA SafeNext ==
    ASSUME Inv, GoodStyles, NEW t \in Threads, ThreadNext(t)
    PROVE  Inv'
<1>1. IsoInv'
  BY IsoNext DEF Inv
<1>2. CASE \E k \in Kinds : Create(t, k)
  BY <1>1, <1>2, SafeCreate DEF Inv
<1>3. CASE Find(t)
  BY <1>1, <1>3, SafeFind DEF Inv
<1>4. CASE InitEntry(t)
  BY <1>1, <1>4, SafeInit DEF Inv
<1>5. CASE \E i \in Indices : Acquire(t, i)
  BY <1>1, <1>5, SafeAcquire DEF Inv
<1>6. CASE \E i \in Indices : Release(t, i)
  BY <1>1, <1>6, SafeRelease DEF Inv
<1>7. CASE \E i \in Indices : DestroyLock(t, i)
  BY <1>1, <1>7, SafeDestroyLock DEF Inv
<1>8. CASE \E c, i \in Indices : Wait(t, c, i)
  BY <1>1, <1>8, SafeWait DEF Inv
<1>9. CASE \E c, i \in Indices : Signal(t, c, i) \/ Broadcast(t, c, i)
  BY <1>1, <1>9, SafeWake DEF Inv, Signal, Broadcast
<1>16. CASE \E c, i \in Indices : WakeNobody(t, c, i)
  BY <1>1, <1>16, SafeWakeNobody DEF Inv
<1>10. CASE ResumeWait(t)
  BY <1>1, <1>10, SafeResume DEF Inv
<1>11. CASE FinishWait(t)
  BY <1>1, <1>11, SafeFinish DEF Inv
<1>12. CASE \E c \in Indices : DestroyCondition(t, c)
  BY <1>1, <1>12, SafeDestroyCond DEF Inv
<1>13. CASE Exit(t)
  BY <1>1, <1>13, SafeExit DEF Inv
<1>14. CASE ExitLocks(t)
  BY <1>1, <1>14, SafeExitLocks DEF Inv
<1>15. CASE ExitConds(t)
  BY <1>1, <1>15, SafeExitConds DEF Inv
<1> QED BY <1>2, <1>3, <1>4, <1>5, <1>6, <1>7, <1>8, <1>9, <1>10, <1>11, <1>12, <1>13, <1>14, <1>15,
          <1>16 DEF ThreadNext

(* If every program that may destroy keeps the rules of good use, the
   invariant holds for any threads, processes and tables.                   *)
THEOREM InvHolds ==
    ASSUME GoodStyles
    PROVE  Spec => []Inv
<1>1. Init => Inv
  BY SafeStart
<1>2. Inv /\ [Next]_vars => Inv'
  <2>1. ASSUME Inv, Next PROVE Inv'
    BY <2>1, SafeNext DEF Next
  <2>2. ASSUME Inv, UNCHANGED vars PROVE Inv'
    <3>1. IsoInv'
      BY <2>2, IsoStutter DEF Inv
    <3>2. Queues' /\ Owned' /\ Rooms' /\ ~freedUse'
      BY <2>2 DEF Inv, vars, objVars, progVars, Queues, Owned, Rooms, InQueueAt, Kept, Protected,
                  Pending, Fresh, Sound, HasLock, Sleeping, Sole, Marks, InExit, Exiting, Calm,
                  Live, The, Valid, InWait
    <3> QED BY <3>1, <3>2 DEF Inv
  <2> QED BY <2>1, <2>2
<1> QED BY <1>1, <1>2, PTL DEF Spec

(* No system call reaches a Lock or Condition that was deleted, and none is
   deleted twice (exception.cc, all the lock and condition calls and Exit). *)
THEOREM NoFreedObjectUsedHolds ==
    ASSUME GoodStyles
    PROVE  Spec => []NoFreedObjectUsed
<1>1. Inv => NoFreedObjectUsed
  BY DEF Inv, NoFreedObjectUsed
<1> QED BY <1>1, InvHolds, PTL

(* A thread asleep in Acquire_Syscall or Wait_Syscall sleeps in an object that
   exists and that its process can still name.                              *)
THEOREM NobodyStrandedHolds ==
    ASSUME GoodStyles
    PROVE  Spec => []NobodyStranded
<1>1. Inv => NobodyStranded
  <2>1. SUFFICES ASSUME Inv PROVE NobodyStranded
    OBVIOUS
  <2>2. TypeOK /\ Queues /\ Sleeping /\ "lock" \in Kinds /\ "cond" \in Kinds
    BY <2>1 DEF Inv, IsoInv, Rooms, Kinds
  <2>3. ASSUME NEW k \in Kinds, NEW i \in Indices, Live(The(k, i)) PROVE The(k, i) \in Addrs
    BY <2>1, <2>2, <2>3, EntryFacts, LiveAddr
  <2>4. ASSUME NEW t \in Threads, pc[t] = "Acquire"
        PROVE  /\ Valid(t, "lock", loc[t].index)
               /\ t \in Elements(obj[The("lock", loc[t].index)].queue)
    <3>1. Sound(t, "lock", loc[t].index) /\ loc[t].index \in Indices
      BY <2>2, <2>4, LocStep DEF Sleeping
    <3>2. The("lock", loc[t].index) \in Addrs
      BY <2>2, <2>3, <3>1 DEF Sound
    <3> QED BY <2>2, <2>4, <3>1, <3>2 DEF Sound, Queues, InQueueAt
  <2>5. ASSUME NEW t \in Threads, pc[t] = "Wait"
        PROVE  /\ Valid(t, "cond", loc[t].index)
               /\ t \in Elements(obj[The("cond", loc[t].index)].queue)
    <3>1. Sound(t, "cond", loc[t].index) /\ The("cond", loc[t].index) \in Addrs
      BY <2>1, <2>5, WaiterFacts DEF InWait
    <3> QED BY <2>2, <2>5, <3>1 DEF Sound, Queues, InQueueAt
  <2>6. ASSUME NEW t \in Threads, InWait(t) PROVE Live(loc[t].lock)
    BY <2>1, <2>6, WaiterFacts
  <2> QED BY <2>4, <2>5, <2>6 DEF NobodyStranded
<1> QED BY <1>1, InvHolds, PTL

(* A condition that DestroyCondition_Syscall only marked has a thread in
   Wait_Syscall that deletes it.                                            *)
THEOREM MarkedIsDeletedLaterHolds ==
    ASSUME GoodStyles
    PROVE  Spec => []MarkedIsDeletedLater
<1>1. Inv => MarkedIsDeletedLater
  <2>1. SUFFICES ASSUME Inv PROVE MarkedIsDeletedLater
    OBVIOUS
  <2>2. Marks /\ inUse["cond"] \subseteq Indices
    BY <2>1 DEF Inv, IsoInv, TypeOK, Rooms, Kinds
  <2> QED BY <2>2 DEF Marks, Sole, MarkedIsDeletedLater
<1> QED BY <1>1, InvHolds, PTL
=============================================================================
