---------------------------- MODULE SyncSyscalls ----------------------------
(***************************************************************************)
(* The system calls on user-level locks and conditions of                  *)
(* code/userprog/exception.cc, as built without NETWORK: the kernel tables *)
(* lockTable and conditionTable, their bit maps, and the Lock and          *)
(* Condition objects the entries point to.                                 *)
(*                                                                         *)
(* A thread can only lose the CPU in the kernel where a routine turns      *)
(* interrupts on again or sleeps.  The calls that turn them off are        *)
(* therefore one action up to a Sleep(), and another from there on; the    *)
(* Create calls and Exit, which leave them on, have a switch point after   *)
(* each Acquire() and Release() of a kernel lock.  Any runnable thread may *)
(* be the one that runs.                                                   *)
(*                                                                         *)
(* Objects have addresses that are never reused.  Freeing one leaves its   *)
(* contents, so a later access is seen (freedUse) and the behaviour ends   *)
(* there: from then on the kernel's memory is not what it thinks.          *)
(***************************************************************************)
EXTENDS Integers, Sequences, FiniteSets

CONSTANTS
    Threads, Spaces,
    Space,              \* the address space of each thread
    NoThread, NoSpace,  \* NULL
    MaxIndex,           \* MAX_LOCKS_CONDITIONS
    MaxAddr,            \* bound: number of objects created in a behaviour
    MaxCount,           \* bound: no call takes |acquireCount| above this value
    Styles              \* kinds of programs: [calls, waived], see style

ASSUME SyncAssumption ==
    /\ Space \in [Threads -> Spaces]
    /\ IsFiniteSet(Threads) /\ NoThread \notin Threads /\ NoSpace \notin Spaces
    /\ MaxIndex \in Nat \ {0} /\ MaxAddr \in Nat /\ MaxCount \in Nat
    /\ Styles \subseteq [calls : SUBSET {"Destroy", "Exit"},
                         waived : SUBSET {"staleId", "unbalanced", "inUse", "manyWaiters",
                                          "wokenWaiter", "exitAfterDestroy"}]

VARIABLES
    inUse,       \* lockMap and conditionMap: the indices whose bit is set
    table,       \* lockTable and conditionTable
    tableLock,   \* holder of lockTableLock and of conditionTableLock
    obj,         \* the Lock and Condition objects
    pc, loc,     \* where each thread is, and the local variables it needs
    processIDLock, halted, freedUse,
    handles,     \* history: indices a process got from Create and not destroyed
    destroyers,  \* history: processes that called a Destroy
    style        \* which of "Destroy" and "Exit" the programs of this behaviour
                 \* call, and which rules of good use they break

objVars  == <<inUse, table, obj>>
progVars == <<handles, destroyers, style>>
vars     == <<objVars, tableLock, pc, loc, processIDLock, halted, freedUse, progVars>>

Kinds   == {"lock", "cond"}
Indices == 0 .. MaxIndex - 1
Addrs   == 1 .. MaxAddr
NoAddr  == 0

(* LockEntry and ConditionEntry (only locks use acquireCount).              *)
Entries == [obj : Addrs \cup {NoAddr}, space : Spaces \cup {NoSpace},
            isToBeDeleted : BOOLEAN, acquireCount : Int]

(* Lock (owner, queue) and Condition (waitingLock, queue).                  *)
Objects == [status : {"unused", "live", "freed"}, owner : Threads \cup {NoThread},
            waitingLock : Addrs \cup {NoAddr}, queue : Seq(Threads)]

(* "find", "init": in Create; "Acquire": in a lock's queue; "Wait": in a
   condition's queue; "woken": signalled; "relock": in the lock's queue again;
   "postlude": has the lock again; "exitLocks", "exitConds": in Exit.       *)
Places == {"user", "find", "init", "Acquire", "Wait", "woken", "relock", "postlude",
           "exitLocks", "exitConds", "exited"}
NoLocals == [kind |-> "lock", index |-> 0, lock |-> NoAddr]
Locals == [kind : Kinds, index : Indices, lock : Addrs \cup {NoAddr}]

Elements(q) == {q[i] : i \in 1..Len(q)}
Live(a) == obj[a].status = "live"

Init ==
    /\ inUse = [k \in Kinds |-> {}]
    /\ table = [k \in Kinds |-> [i \in Indices |->
                  [obj |-> NoAddr, space |-> NoSpace,
                   isToBeDeleted |-> FALSE, acquireCount |-> 0]]]
    /\ tableLock = [k \in Kinds |-> NoThread]
    /\ obj = [a \in Addrs \cup {NoAddr} |-> [status |-> "unused", owner |-> NoThread,
                                            waitingLock |-> NoAddr, queue |-> <<>>]]
    /\ pc = [t \in Threads |-> "user"]
    /\ loc = [t \in Threads |-> NoLocals]
    /\ processIDLock = NoThread
    /\ halted = FALSE
    /\ freedUse = FALSE
    /\ handles = [k \in Kinds |-> [s \in Spaces |-> {}]]
    /\ destroyers = {}
    /\ style \in Styles

Running == ~halted /\ ~freedUse
InUser(t) == Running /\ pc[t] = "user"

(* The objects in A are accessed.                                           *)
Uses(A) == freedUse' = \E a \in A : ~Live(a)

-----------------------------------------------------------------------------
(* Create                                                                  *)

(* lockTableLock->Acquire(); the switch point is behind it.                 *)
Create(t, k) ==
    /\ InUser(t)
    /\ tableLock[k] = NoThread
    /\ tableLock' = [tableLock EXCEPT ![k] = t]
    /\ pc' = [pc EXCEPT ![t] = "find"]
    /\ loc' = [loc EXCEPT ![t].kind = k]
    /\ UNCHANGED <<objVars, processIDLock, halted, freedUse, progVars>>

Lowest(S) == CHOOSE i \in S : \A j \in S : i <= j

(* BitMap::Find returns the first clear bit and marks it.                   *)
FirstClear(k) == Lowest(Indices \ inUse[k])

Reserve(k) == [inUse EXCEPT ![k] = @ \cup {FirstClear(k)}]

(* A full table halts the machine.                                          *)
Find(t) ==
    LET k == loc[t].kind IN
    /\ Running /\ pc[t] = "find"
    /\ \/ /\ inUse[k] = Indices
          /\ halted' = TRUE
          /\ UNCHANGED <<inUse, tableLock, pc, loc>>
       \/ /\ inUse[k] # Indices
          /\ inUse' = Reserve(k)
          /\ loc' = [loc EXCEPT ![t].index = FirstClear(k)]
          /\ tableLock' = [tableLock EXCEPT ![k] = NoThread]
          /\ pc' = [pc EXCEPT ![t] = "init"]
          /\ UNCHANGED halted
    /\ UNCHANGED <<table, obj, processIDLock, freedUse, progVars>>

(* Deviation: the entry keeps the mark of the condition it held before.     *)
NewEntryKeepsMark(k, i, a, s) ==
    [obj |-> a, space |-> s, isToBeDeleted |-> table[k][i].isToBeDeleted,
     acquireCount |-> 0]

NewEntry(k, i, a, s) ==
    [obj |-> a, space |-> s, isToBeDeleted |-> FALSE, acquireCount |-> 0]

(* The entry is filled in after the table's lock was released.              *)
InitEntry(t) ==
    LET k == loc[t].kind
        i == loc[t].index
    IN /\ Running /\ pc[t] = "init"
       /\ \E a \in Addrs :
             /\ obj[a].status = "unused"
             /\ \A b \in 1 .. a - 1 : obj[b].status # "unused"
             /\ obj' = [obj EXCEPT ![a].status = "live"]
             /\ table' = [table EXCEPT ![k][i] = NewEntry(k, i, a, Space[t])]
       /\ pc' = [pc EXCEPT ![t] = "user"]
       /\ handles' = [handles EXCEPT ![k][Space[t]] = @ \cup {i}]
       /\ loc' = [loc EXCEPT ![t] = NoLocals]
       /\ UNCHANGED <<inUse, tableLock, processIDLock, halted, freedUse, destroyers, style>>

-----------------------------------------------------------------------------
(* Validation, and what well-written programs do                           *)

(* Deviation: the check of the entry's address space is missing.            *)
ValidForAnyone(t, k, i) == i \in inUse[k]

(* The checks every call below starts with; a call that fails them returns. *)
Valid(t, k, i) == i \in inUse[k] /\ table[k][i].space = Space[t]

The(k, i) == table[k][i].obj
Owns(t, i) == obj[The("lock", i)].owner = t

(* t's program calls with an index it got from Create.                      *)
Refers(t, k, i) ==
    /\ Valid(t, k, i)
    /\ "staleId" \in style.waived \/ i \in handles[k][Space[t]]

InWait(u) == pc[u] \in {"Wait", "woken", "relock", "postlude"}
Waiters(s, i) == {u \in Threads : Space[u] = s /\ InWait(u) /\ loc[u].index = i}

-----------------------------------------------------------------------------
(* Lock objects (Lock::Acquire and Lock::Release)                          *)

Take(o, a, t) == IF o[a].owner = NoThread THEN [o EXCEPT ![a].owner = t]
                 ELSE [o EXCEPT ![a].queue = Append(@, t)]

PassOn(o, a) == IF o[a].queue = <<>> THEN [o EXCEPT ![a].owner = NoThread]
                ELSE [o EXCEPT ![a].owner = Head(o[a].queue), ![a].queue = Tail(@)]

(* The new owner of lock a returns from the system call, or goes on in Wait. *)
PassOnPc(a) ==
    IF obj[a].queue = <<>> THEN pc
    ELSE [pc EXCEPT ![Head(obj[a].queue)] = IF @ = "Acquire" THEN "user" ELSE "postlude"]

Freed(o, a) == [o EXCEPT ![a].status = "freed"]

Acquire(t, i) ==
    LET a == The("lock", i) IN
    /\ InUser(t) /\ Refers(t, "lock", i)
    /\ "unbalanced" \in style.waived \/ ~Owns(t, i)
    /\ table["lock"][i].acquireCount < MaxCount
    /\ table' = [table EXCEPT !["lock"][i].acquireCount = @ + 1]
    /\ Uses({a})
    /\ \/ /\ Owns(t, i)
          /\ UNCHANGED <<obj, pc, loc>>
       \/ /\ obj[a].owner = NoThread
          /\ obj' = Take(obj, a, t)
          /\ UNCHANGED <<pc, loc>>
       \/ /\ obj[a].owner \notin {t, NoThread}
          /\ obj' = Take(obj, a, t)
          /\ pc' = [pc EXCEPT ![t] = "Acquire"]
          /\ loc' = [loc EXCEPT ![t].index = i]
    /\ UNCHANGED <<inUse, tableLock, processIDLock, halted, progVars>>

CountAfterRelease(i) == table["lock"][i].acquireCount - 1

(* The count is lowered even if t does not own the lock.                    *)
Release(t, i) ==
    LET a == The("lock", i)
        o == IF Owns(t, i) THEN PassOn(obj, a) ELSE obj
        n == CountAfterRelease(i)
        last == table["lock"][i].isToBeDeleted /\ n = 0 /\ o[a].owner = NoThread
    IN /\ InUser(t) /\ Refers(t, "lock", i)
       /\ "unbalanced" \in style.waived \/ Owns(t, i)
       /\ table["lock"][i].acquireCount > -MaxCount
       /\ Uses({a})
       /\ table' = [table EXCEPT !["lock"][i].acquireCount = n]
       /\ pc' = IF Owns(t, i) THEN PassOnPc(a) ELSE pc
       /\ obj' = IF last THEN Freed(o, a) ELSE o
       /\ inUse' = IF last THEN [inUse EXCEPT !["lock"] = @ \ {i}] ELSE inUse
       /\ UNCHANGED <<tableLock, loc, processIDLock, halted, progVars>>

(* DestroyLock: the lock is deleted unless it is busy with a count of 0.    *)
DestroyLock(t, i) ==
    LET a == The("lock", i) IN
    /\ "Destroy" \in style.calls
    /\ InUser(t) /\ Refers(t, "lock", i)
    /\ \/ "inUse" \in style.waived
       \/ /\ obj[a].owner = NoThread
          /\ \A u \in Threads : InWait(u) => loc[u].lock # a
    /\ Uses({a})
    /\ IF ~(obj[a].owner # NoThread /\ table["lock"][i].acquireCount = 0)
       THEN /\ obj' = Freed(obj, a)
            /\ inUse' = [inUse EXCEPT !["lock"] = @ \ {i}]
            /\ UNCHANGED table
       ELSE /\ table' = [table EXCEPT !["lock"][i].isToBeDeleted = TRUE]
            /\ UNCHANGED <<obj, inUse>>
    /\ handles' = [handles EXCEPT !["lock"][Space[t]] = @ \ {i}]
    /\ destroyers' = destroyers \cup {Space[t]}
    /\ UNCHANGED style
    /\ UNCHANGED <<tableLock, pc, loc, processIDLock, halted>>

-----------------------------------------------------------------------------
(* Condition objects                                                       *)

(* Deviation: a condition marked for deletion is never deleted.             *)
PostludeNever(c, o, A) == obj' = o /\ UNCHANGED inUse /\ Uses(A)

(* The end of Wait_Syscall, with the objects as in o after A was accessed: a
   marked condition is deleted unless somebody is in its queue.             *)
Postlude(c, o, A) ==
    LET e == table["cond"][c] IN
    IF e.isToBeDeleted
    THEN /\ Uses(A \cup {e.obj})
         /\ IF o[e.obj].queue = <<>>
            THEN /\ obj' = Freed(o, e.obj)
                 /\ inUse' = [inUse EXCEPT !["cond"] = @ \ {c}]
            ELSE obj' = o /\ UNCHANGED inUse
    ELSE obj' = o /\ UNCHANGED inUse /\ Uses(A)

Wait(t, c, i) ==
    LET cv == The("cond", c)
        l  == The("lock", i)
        remembered == IF obj[cv].waitingLock = NoAddr THEN l ELSE obj[cv].waitingLock
        o  == [obj EXCEPT ![cv].waitingLock = remembered]
    IN /\ InUser(t) /\ Refers(t, "cond", c) /\ Refers(t, "lock", i)
       /\ "unbalanced" \in style.waived \/ Owns(t, i)
       /\ \/ /\ l # remembered \/ ~Owns(t, i)       \* refused
             /\ Postlude(c, o, {cv, l})
             /\ UNCHANGED <<pc, loc>>
          \/ /\ l = remembered /\ Owns(t, i)
             /\ Uses({cv, l})
             /\ obj' = [PassOn(o, l) EXCEPT ![cv].queue = Append(@, t)]
             /\ pc' = [PassOnPc(l) EXCEPT ![t] = "Wait"]
             /\ loc' = [loc EXCEPT ![t] = [kind |-> "cond", index |-> c, lock |-> l]]
             /\ UNCHANGED inUse
       /\ UNCHANGED <<table, tableLock, processIDLock, halted, progVars>>

(* The woken thread calls conditionLock->Acquire().                         *)
ResumeWait(t) ==
    LET l == loc[t].lock IN
    /\ Running /\ pc[t] = "woken"
    /\ \/ /\ obj[l].owner = NoThread
          /\ pc' = [pc EXCEPT ![t] = "user"]
          /\ loc' = [loc EXCEPT ![t] = NoLocals]
          /\ Postlude(loc[t].index, Take(obj, l, t), {l})
       \/ /\ obj[l].owner # NoThread
          /\ pc' = [pc EXCEPT ![t] = "relock"]
          /\ obj' = Take(obj, l, t)
          /\ Uses({l})
          /\ UNCHANGED <<inUse, loc>>
    /\ UNCHANGED <<table, tableLock, processIDLock, halted, progVars>>

(* The thread was handed the lock it waited for at the end of Wait.         *)
FinishWait(t) ==
    /\ Running /\ pc[t] = "postlude"
    /\ pc' = [pc EXCEPT ![t] = "user"]
    /\ loc' = [loc EXCEPT ![t] = NoLocals]
    /\ Postlude(loc[t].index, obj, {})
    /\ UNCHANGED <<table, tableLock, processIDLock, halted, progVars>>

MayWake(t, c, i) ==
    /\ InUser(t) /\ Valid(t, "cond", c) /\ Refers(t, "lock", i)
    /\ \/ "staleId" \in style.waived
       \/ c \in handles["cond"][Space[t]]
       \/ Waiters(Space[t], c) # {}

(* Signal (all = FALSE) and Broadcast (all = TRUE) that pass every check.   *)
Wake(t, c, i, all) ==
    LET cv == The("cond", c)
        l  == The("lock", i)
        q  == obj[cv].queue
        woken == IF all THEN Elements(q) ELSE {Head(q)}
        rest  == IF all THEN <<>> ELSE Tail(q)
    IN /\ MayWake(t, c, i)
       /\ q # <<>>
       /\ obj[cv].waitingLock = l
       /\ Owns(t, i)
       /\ Uses({cv, l})
       /\ obj' = [obj EXCEPT ![cv].queue = rest,
                             ![cv].waitingLock = IF rest = <<>> THEN NoAddr ELSE @]
       /\ pc' = [u \in Threads |-> IF u \in woken THEN "woken" ELSE pc[u]]
       /\ UNCHANGED <<inUse, table, tableLock, loc, processIDLock, halted, progVars>>

(* The others read the condition, and the owner of the lock it remembers, and
   return without a change.                                                 *)
WakeNobody(t, c, i) ==
    LET cv == The("cond", c)
        l  == The("lock", i)
        looksAtOwner == obj[cv].queue # <<>> /\ obj[cv].waitingLock = l
    IN /\ MayWake(t, c, i)
       /\ ~looksAtOwner \/ ~Owns(t, i)
       /\ Uses(IF looksAtOwner THEN {cv, l} ELSE {cv})
       /\ UNCHANGED <<objVars, tableLock, pc, loc, processIDLock, halted, progVars>>

Signal(t, c, i)    == Wake(t, c, i, FALSE)
Broadcast(t, c, i) == Wake(t, c, i, TRUE)

(* Deviation: the condition is deleted although threads wait on it.         *)
HasWaitingIgnored(cv) == FALSE

HasWaiting(cv) == obj[cv].queue # <<>>

DestroyCondition(t, c) ==
    LET cv == The("cond", c) IN
    /\ "Destroy" \in style.calls
    /\ InUser(t) /\ Refers(t, "cond", c)
    /\ "manyWaiters" \in style.waived \/ Cardinality(Waiters(Space[t], c)) <= 1
    /\ "wokenWaiter" \in style.waived \/ \A u \in Waiters(Space[t], c) : pc[u] = "Wait"
    /\ Uses({cv})
    /\ IF ~HasWaiting(cv)
       THEN /\ obj' = Freed(obj, cv)
            /\ inUse' = [inUse EXCEPT !["cond"] = @ \ {c}]
            /\ UNCHANGED table
       ELSE /\ table' = [table EXCEPT !["cond"][c].isToBeDeleted = TRUE]
            /\ UNCHANGED <<obj, inUse>>
    /\ handles' = [handles EXCEPT !["cond"][Space[t]] = @ \ {c}]
    /\ destroyers' = destroyers \cup {Space[t]}
    /\ UNCHANGED style
    /\ UNCHANGED <<tableLock, pc, loc, processIDLock, halted>>

-----------------------------------------------------------------------------
(* Exit                                                                    *)

Alive(s) == {u \in Threads : Space[u] = s /\ pc[u] # "exited"}
Living   == {s \in Spaces : Alive(s) # {}}

LastThread(t) == Alive(Space[t]) = {t}

(* The three branches on numThreadsAlive and numLivingProcesses.            *)
Exit(t) ==
    /\ "Exit" \in style.calls
    /\ InUser(t)
    /\ processIDLock = NoThread
    /\ "exitAfterDestroy" \in style.waived \/ Space[t] \notin destroyers
    /\ \/ /\ ~LastThread(t)
          /\ pc' = [pc EXCEPT ![t] = "exited"]
          /\ UNCHANGED <<processIDLock, halted>>
       \/ /\ LastThread(t) /\ Living = {Space[t]}
          /\ halted' = TRUE
          /\ UNCHANGED <<processIDLock, pc>>
       \/ /\ LastThread(t) /\ Living # {Space[t]}
          /\ processIDLock' = t
          /\ pc' = [pc EXCEPT ![t] = "exitLocks"]
          /\ UNCHANGED halted
    /\ UNCHANGED <<objVars, tableLock, loc, freedUse, progVars>>

(* The entries of table k without those of space s.                         *)
Forgotten(k, s) ==
    [i \in Indices |-> IF table[k][i].space = s
                       THEN [table[k][i] EXCEPT !.space = NoSpace, !.isToBeDeleted = FALSE]
                       ELSE table[k][i]]

(* One loop of Exit: every entry of the space is freed, whatever its bit.   *)
FreeAll(k, s) ==
    LET mine  == {i \in Indices : table[k][i].space = s}
        gone  == {The(k, i) : i \in mine}
    IN /\ Uses(gone)
       /\ table' = [table EXCEPT ![k] = Forgotten(k, s)]
       /\ obj' = [a \in Addrs \cup {NoAddr} |->
                     IF a \in gone THEN [obj[a] EXCEPT !.status = "freed"] ELSE obj[a]]
       /\ inUse' = [inUse EXCEPT ![k] = @ \ mine]

ExitLocks(t) ==
    /\ Running /\ pc[t] = "exitLocks"
    /\ tableLock["lock"] = NoThread
    /\ FreeAll("lock", Space[t])
    /\ pc' = [pc EXCEPT ![t] = "exitConds"]
    /\ UNCHANGED <<tableLock, loc, processIDLock, halted, progVars>>

ExitConds(t) ==
    /\ Running /\ pc[t] = "exitConds"
    /\ FreeAll("cond", Space[t])
    /\ pc' = [pc EXCEPT ![t] = "exited"]
    /\ processIDLock' = NoThread
    /\ UNCHANGED <<tableLock, loc, halted, progVars>>

-----------------------------------------------------------------------------
ThreadNext(t) ==
    \/ \E k \in Kinds : Create(t, k)
    \/ Find(t) \/ InitEntry(t)
    \/ \E i \in Indices : Acquire(t, i) \/ Release(t, i) \/ DestroyLock(t, i)
    \/ \E c, i \in Indices : Wait(t, c, i) \/ Signal(t, c, i) \/ Broadcast(t, c, i)
                             \/ WakeNobody(t, c, i)
    \/ ResumeWait(t) \/ FinishWait(t)
    \/ \E c \in Indices : DestroyCondition(t, c)
    \/ Exit(t) \/ ExitLocks(t) \/ ExitConds(t)

Next == \E t \in Threads : ThreadNext(t)

Spec == Init /\ [][Next]_vars

-----------------------------------------------------------------------------
(* Properties                                                              *)

TypeOK ==
    /\ inUse \in [Kinds -> SUBSET Indices]
    /\ table \in [Kinds -> [Indices -> Entries]]
    /\ tableLock \in [Kinds -> Threads \cup {NoThread}]
    /\ obj \in [Addrs \cup {NoAddr} -> Objects]
    /\ pc \in [Threads -> Places]
    /\ loc \in [Threads -> Locals]
    /\ processIDLock \in Threads \cup {NoThread}
    /\ halted \in BOOLEAN /\ freedUse \in BOOLEAN
    /\ handles \in [Kinds -> [Spaces -> SUBSET Indices]]
    /\ destroyers \subseteq Spaces
    /\ style \in Styles

(* No system call reaches a Lock or Condition that was deleted, and none is
   deleted twice.                                                          *)
NoFreedObjectUsed == ~freedUse

(* A thread asleep in Acquire or Wait sleeps in an object that still exists
   and that its own process can reach through the table, so a later Release
   or Signal can wake it.                                                  *)
NobodyStranded ==
    \A t \in Threads :
        /\ pc[t] = "Acquire" =>
              /\ Valid(t, "lock", loc[t].index)
              /\ t \in Elements(obj[The("lock", loc[t].index)].queue)
        /\ pc[t] = "Wait" =>
              /\ Valid(t, "cond", loc[t].index)
              /\ t \in Elements(obj[The("cond", loc[t].index)].queue)
        /\ InWait(t) => Live(loc[t].lock)

(* A condition that DestroyCondition only marked still has a thread in Wait,
   which deletes it on its way out: a marked condition does not leak.      *)
MarkedIsDeletedLater ==
    \A c \in inUse["cond"] :
        table["cond"][c].isToBeDeleted /\ Live(The("cond", c)) =>
            \E t \in Threads : InWait(t) /\ loc[t].index = c

(* The threads that hold a lock or sleep in an object belong to the process
   that created it, whatever indices the programs pass.                    *)
Isolation ==
    \A k \in Kinds : \A i \in inUse[k] :
        Live(The(k, i)) =>
            \A t \in Elements(obj[The(k, i)].queue) \cup {obj[The(k, i)].owner} :
                t = NoThread \/ Space[t] = table[k][i].space

=============================================================================
