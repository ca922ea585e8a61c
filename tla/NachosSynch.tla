---------------------------- MODULE NachosSynch ----------------------------
(***************************************************************************)
(* The kernel's threads, scheduler and synchronisation objects:            *)
(* code/threads/thread.cc, scheduler.cc and the Semaphore, Lock and        *)
(* Condition classes of synch.cc.                                          *)
(*                                                                         *)
(* Nachos runs on one CPU and every routine below runs with interrupts     *)
(* off, so a routine is one atomic action up to the point where it calls   *)
(* Thread::Sleep.  There the CPU goes to the next ready thread, and the    *)
(* rest of the routine is an action of its own, taken when the sleeper is  *)
(* dispatched again (kpc says where it sleeps).  Until that action is done *)
(* interrupts are still off, so neither the thread's program nor an        *)
(* interrupt handler can run.                                              *)
(*                                                                         *)
(* The programs the threads run are arbitrary: any thread may call any     *)
(* routine on any object, including calls the routines reject.             *)
(***************************************************************************)
EXTENDS Naturals, Sequences, FiniteSets

CONSTANTS
    Threads, Locks, Conditions, Semaphores,
    Main,              \* the thread Initialize() makes the running one
    NoThread, NoLock,  \* NULL
    InitialValue,      \* the second argument of each Semaphore's constructor
    FreshOwner,        \* what a new Lock's threadWithPossession may hold
    FreshWaitingLock,  \* what a new Condition's waitingLock may hold
    MaxValue           \* bound: no V takes a semaphore above this value

ASSUME SynchAssumption ==
    /\ Main \in Threads
    /\ NoThread \notin Threads
    /\ NoLock \notin Locks
    /\ InitialValue \in [Semaphores -> Nat]
    /\ FreshOwner \subseteq Threads \cup {NoThread}
    /\ FreshWaitingLock \subseteq Locks \cup {NoLock}
    /\ MaxValue \in Nat

VARIABLES
    currentThread,        \* NoThread: Sleep found nobody ready, the CPU idles
    readyList,            \* Scheduler::readyList
    status,               \* Thread::status, and DELETED for a freed Thread
    kpc,                  \* where a thread is inside the kernel
    karg,                 \* the object kpc refers to
    threadToBeDestroyed,
    lockState, threadWithPossession, lockQueue,   \* Lock
    waitingLock, condQueue,                       \* Condition
    value, semQueue,                              \* Semaphore
    holds       \* history: locks each thread's program believes it holds

schedVars == <<currentThread, readyList, status, kpc, karg, threadToBeDestroyed>>
lockVars  == <<lockState, threadWithPossession, lockQueue, holds>>
condVars  == <<waitingLock, condQueue>>
semVars   == <<value, semQueue>>
vars      == <<schedVars, lockVars, condVars, semVars>>

Statuses == {"JUST_CREATED", "RUNNING", "READY", "BLOCKED", "DELETED"}

(* "start": never ran; "user": in its own program; "yield", "P", "Acquire",
   "Wait": inside Run() called from that routine; "finished": in Finish().  *)
KernelPlaces == {"start", "user", "yield", "P", "Acquire", "Wait", "finished"}

Objects == Locks \cup Semaphores \cup {NoLock}

Elements(q) == {q[i] : i \in 1..Len(q)}

-----------------------------------------------------------------------------
(* Scheduler and Thread                                                    *)

Init ==
    /\ currentThread = Main
    /\ readyList = <<>>
    /\ status = [t \in Threads |-> IF t = Main THEN "RUNNING" ELSE "JUST_CREATED"]
    /\ kpc = [t \in Threads |-> IF t = Main THEN "user" ELSE "start"]
    /\ karg = [t \in Threads |-> NoLock]
    /\ threadToBeDestroyed = NoThread
    /\ lockState = [l \in Locks |-> "FREE"]
    /\ threadWithPossession \in [Locks -> FreshOwner]
    /\ lockQueue = [l \in Locks |-> <<>>]
    /\ waitingLock \in [Conditions -> FreshWaitingLock]
    /\ condQueue = [c \in Conditions |-> <<>>]
    /\ value = InitialValue
    /\ semQueue = [s \in Semaphores |-> <<>>]
    /\ holds = [t \in Threads |-> {}]

(* Scheduler::FindNextToRun and Run: the CPU goes to the head of ready list
   rl; when it is empty, Sleep() loops in Interrupt::Idle.  st is the status
   of every thread so far.                                                  *)
Run(rl, st) ==
    IF rl = <<>>
    THEN /\ currentThread' = NoThread
         /\ readyList' = <<>>
         /\ status' = st
    ELSE /\ currentThread' = Head(rl)
         /\ readyList' = Tail(rl)
         /\ status' = [st EXCEPT ![Head(rl)] = "RUNNING"]

(* Thread::Sleep: t blocks inside the kernel at place p, on object x.       *)
Sleep(t, p, x, st) ==
    /\ kpc' = [kpc EXCEPT ![t] = p]
    /\ karg' = [karg EXCEPT ![t] = x]
    /\ Run(readyList, [st EXCEPT ![t] = "BLOCKED"])

(* The routine returns to t's program and t keeps the CPU.                  *)
Return(t, st) ==
    /\ kpc' = [kpc EXCEPT ![t] = "user"]
    /\ karg' = [karg EXCEPT ![t] = NoLock]
    /\ status' = st
    /\ UNCHANGED <<currentThread, readyList>>

(* t runs its own program, with interrupts on: it may call a routine.       *)
InUser(t) == currentThread = t /\ kpc[t] = "user"

(* t was dispatched by Run() and is back in the routine that slept.         *)
Resumes(t, p) == currentThread = t /\ kpc[t] = p

(* The part of Scheduler::Run after SWITCH: the thread that finished last is
   deleted.  A thread that runs for the first time enters ThreadRoot instead
   and does not pass here.                                                  *)
Reaped == IF threadToBeDestroyed = NoThread
          THEN status
          ELSE [status EXCEPT ![threadToBeDestroyed] = "DELETED"]
Reap == threadToBeDestroyed' = NoThread

Fork(t, u) ==
    /\ InUser(t)
    /\ status[u] = "JUST_CREATED"
    /\ status' = [status EXCEPT ![u] = "READY"]
    /\ readyList' = Append(readyList, u)
    /\ UNCHANGED <<currentThread, kpc, karg, threadToBeDestroyed,
                   lockVars, condVars, semVars>>

Finish(t) ==
    /\ InUser(t)
    /\ threadToBeDestroyed' = t
    /\ Sleep(t, "finished", NoLock, status)
    /\ UNCHANGED <<lockVars, condVars, semVars>>

(* Thread::Yield, called by the program or, with -rs, by the timer at the
   end of any tick (Interrupt::OneTick).                                    *)
Yield(t) ==
    /\ InUser(t)
    /\ readyList # <<>>
    /\ kpc' = [kpc EXCEPT ![t] = "yield"]
    /\ Run(Append(readyList, t), [status EXCEPT ![t] = "READY"])
    /\ UNCHANGED <<karg, threadToBeDestroyed, lockVars, condVars, semVars>>

(* ThreadRoot: interrupts go on and the forked procedure starts.            *)
Start(t) ==
    /\ Resumes(t, "start")
    /\ Return(t, status)
    /\ UNCHANGED <<threadToBeDestroyed, lockVars, condVars, semVars>>

ResumeYield(t) ==
    /\ Resumes(t, "yield")
    /\ Return(t, Reaped)
    /\ Reap
    /\ UNCHANGED <<lockVars, condVars, semVars>>

(* The loop of Thread::Sleep after Interrupt::Idle returned.                *)
IdleDispatch ==
    /\ currentThread = NoThread
    /\ readyList # <<>>
    /\ Run(readyList, status)
    /\ UNCHANGED <<kpc, karg, threadToBeDestroyed, lockVars, condVars, semVars>>

-----------------------------------------------------------------------------
(* Semaphore                                                               *)

(* The body of Semaphore::P, from its while test on.                        *)
PBody(t, s, st) ==
    /\ \/ /\ value[s] = 0
          /\ semQueue' = [semQueue EXCEPT ![s] = Append(@, t)]
          /\ Sleep(t, "P", s, st)
          /\ UNCHANGED value
       \/ /\ value[s] > 0
          /\ value' = [value EXCEPT ![s] = @ - 1]
          /\ Return(t, st)
          /\ UNCHANGED semQueue
    /\ UNCHANGED <<lockVars, condVars>>

P(t, s) ==
    /\ InUser(t)
    /\ PBody(t, s, status)
    /\ UNCHANGED threadToBeDestroyed

(* Deviation: P() with if in place of while.                                *)
ResumePWithoutLoop(t) ==
    /\ Resumes(t, "P")
    /\ value' = [value EXCEPT ![karg[t]] = @ - 1]
    /\ Return(t, Reaped)
    /\ Reap
    /\ UNCHANGED <<semQueue, lockVars, condVars>>

(* P()'s loop: the woken thread tests value again.                          *)
ResumeP(t) ==
    /\ Resumes(t, "P")
    /\ PBody(t, karg[t], Reaped)
    /\ Reap

(* Deviation: V() wakes a waiter only when the value was 0.                 *)
VBodyWakesAtZero(s) ==
    /\ value[s] < MaxValue
    /\ value' = [value EXCEPT ![s] = @ + 1]
    /\ \/ /\ semQueue[s] # <<>> /\ value[s] = 0
          /\ semQueue' = [semQueue EXCEPT ![s] = Tail(@)]
          /\ readyList' = Append(readyList, Head(semQueue[s]))
          /\ status' = [status EXCEPT ![Head(semQueue[s])] = "READY"]
       \/ /\ semQueue[s] = <<>> \/ value[s] # 0
          /\ UNCHANGED <<semQueue, readyList, status>>
    /\ UNCHANGED <<currentThread, kpc, karg, threadToBeDestroyed, lockVars, condVars>>

VBody(s) ==
    /\ value[s] < MaxValue
    /\ value' = [value EXCEPT ![s] = @ + 1]
    /\ \/ /\ semQueue[s] # <<>>
          /\ semQueue' = [semQueue EXCEPT ![s] = Tail(@)]
          /\ readyList' = Append(readyList, Head(semQueue[s]))
          /\ status' = [status EXCEPT ![Head(semQueue[s])] = "READY"]
       \/ /\ semQueue[s] = <<>>
          /\ UNCHANGED <<semQueue, readyList, status>>
    /\ UNCHANGED <<currentThread, kpc, karg, threadToBeDestroyed, lockVars, condVars>>

V(t, s) == InUser(t) /\ VBody(s)

(* A device handler (network, disk, console) calls V: interrupts are on only
   in user code and while the CPU idles.                                    *)
InterruptV(s) ==
    /\ \/ currentThread = NoThread
       \/ \E t \in Threads : InUser(t)
    /\ VBody(s)

-----------------------------------------------------------------------------
(* Lock                                                                    *)

AcquireBody(t, l, st) ==
    \/ /\ threadWithPossession[l] = t
       /\ Return(t, st)
       /\ holds' = [holds EXCEPT ![t] = @ \cup {l}]
       /\ UNCHANGED <<lockState, threadWithPossession, lockQueue>>
    \/ /\ threadWithPossession[l] # t
       /\ lockState[l] = "FREE"
       /\ lockState' = [lockState EXCEPT ![l] = "BUSY"]
       /\ threadWithPossession' = [threadWithPossession EXCEPT ![l] = t]
       /\ Return(t, st)
       /\ holds' = [holds EXCEPT ![t] = @ \cup {l}]
       /\ UNCHANGED lockQueue
    \/ /\ threadWithPossession[l] # t
       /\ lockState[l] = "BUSY"
       /\ lockQueue' = [lockQueue EXCEPT ![l] = Append(@, t)]
       /\ Sleep(t, "Acquire", l, st)
       /\ UNCHANGED <<lockState, threadWithPossession, holds>>

Acquire(t, l) ==
    /\ InUser(t)
    /\ AcquireBody(t, l, status)
    /\ UNCHANGED <<threadToBeDestroyed, condVars, semVars>>

(* The sleeper in Acquire() was made the owner by Release().                *)
ResumeAcquire(t) ==
    /\ Resumes(t, "Acquire")
    /\ Return(t, Reaped)
    /\ Reap
    /\ holds' = [holds EXCEPT ![t] = @ \cup {karg[t]}]
    /\ UNCHANGED <<lockState, threadWithPossession, lockQueue, condVars, semVars>>

(* Deviation: the lock is freed although the next waiter is woken.          *)
HandOverFrees(l) ==
    /\ lockState' = [lockState EXCEPT ![l] = "FREE"]
    /\ threadWithPossession' = [threadWithPossession EXCEPT ![l] = NoThread]
    /\ lockQueue' = [lockQueue EXCEPT ![l] = IF @ = <<>> THEN @ ELSE Tail(@)]

(* Release's effect on the lock once t is known to hold it: the next waiter,
   if any, becomes the owner at once.                                       *)
HandOver(l) ==
    IF lockQueue[l] # <<>>
    THEN /\ threadWithPossession' = [threadWithPossession EXCEPT ![l] = Head(lockQueue[l])]
         /\ lockQueue' = [lockQueue EXCEPT ![l] = Tail(@)]
         /\ UNCHANGED lockState
    ELSE /\ lockState' = [lockState EXCEPT ![l] = "FREE"]
         /\ threadWithPossession' = [threadWithPossession EXCEPT ![l] = NoThread]
         /\ UNCHANGED lockQueue

(* Deviation: Release() forgets ReadyToRun for the new owner.               *)
ReadyAfterForgotten(l) == readyList

(* The ready list and the status after HandOver.                            *)
ReadyAfter(l) == IF lockQueue[l] # <<>> THEN Append(readyList, Head(lockQueue[l]))
                 ELSE readyList
StatusAfter(l) == IF lockQueue[l] # <<>>
                  THEN [status EXCEPT ![Head(lockQueue[l])] = "READY"]
                  ELSE status

Release(t, l) ==
    /\ InUser(t)
    /\ threadWithPossession[l] = t
    /\ HandOver(l)
    /\ readyList' = ReadyAfter(l)
    /\ status' = StatusAfter(l)
    /\ holds' = [holds EXCEPT ![t] = @ \ {l}]
    /\ UNCHANGED <<currentThread, kpc, karg, threadToBeDestroyed, condVars, semVars>>

-----------------------------------------------------------------------------
(* Condition                                                               *)

(* waitingLock is remembered before the other checks are made.              *)
RememberedLock(c, l) == IF waitingLock[c] = NoLock THEN l ELSE waitingLock[c]

(* Wait's error returns: another lock is remembered, or t does not hold it. *)
WaitRejected(t, c, l) ==
    /\ InUser(t)
    /\ l # RememberedLock(c, l) \/ threadWithPossession[l] # t
    /\ waitingLock' = [waitingLock EXCEPT ![c] = RememberedLock(c, l)]
    /\ UNCHANGED <<schedVars, lockVars, semVars, condQueue>>

Wait(t, c, l) ==
    /\ InUser(t)
    /\ l = RememberedLock(c, l)
    /\ threadWithPossession[l] = t
    /\ waitingLock' = [waitingLock EXCEPT ![c] = l]
    /\ HandOver(l)
    /\ holds' = [holds EXCEPT ![t] = @ \ {l}]
    /\ condQueue' = [condQueue EXCEPT ![c] = Append(@, t)]
    /\ kpc' = [kpc EXCEPT ![t] = "Wait"]
    /\ karg' = [karg EXCEPT ![t] = l]
    /\ Run(ReadyAfter(l), [StatusAfter(l) EXCEPT ![t] = "BLOCKED"])
    /\ UNCHANGED <<threadToBeDestroyed, semVars>>

(* Deviation: Wait() returns without reacquiring the lock.                  *)
ResumeWaitWithoutLock(t) ==
    /\ Resumes(t, "Wait")
    /\ Return(t, Reaped)
    /\ Reap
    /\ holds' = [holds EXCEPT ![t] = @ \cup {karg[t]}]
    /\ UNCHANGED <<lockState, threadWithPossession, lockQueue, condVars, semVars>>

(* The tail of Wait: conditionLock->Acquire().                              *)
ResumeWait(t) ==
    /\ Resumes(t, "Wait")
    /\ AcquireBody(t, karg[t], Reaped)
    /\ Reap
    /\ UNCHANGED <<condVars, semVars>>

(* The checks shared by Signal and Broadcast; a call that fails them returns
   without any change.                                                      *)
MayWake(t, c, l) ==
    /\ InUser(t)
    /\ condQueue[c] # <<>>
    /\ waitingLock[c] = l
    /\ threadWithPossession[l] = t

Signal(t, c, l) ==
    /\ MayWake(t, c, l)
    /\ condQueue' = [condQueue EXCEPT ![c] = Tail(@)]
    /\ readyList' = Append(readyList, Head(condQueue[c]))
    /\ status' = [status EXCEPT ![Head(condQueue[c])] = "READY"]
    /\ waitingLock' = IF Tail(condQueue[c]) = <<>>
                      THEN [waitingLock EXCEPT ![c] = NoLock] ELSE waitingLock
    /\ UNCHANGED <<currentThread, kpc, karg, threadToBeDestroyed, lockVars, semVars>>

(* Deviation: Broadcast() wakes the first waiter and empties the queue.     *)
BroadcastWakesOne(t, c, l) ==
    /\ MayWake(t, c, l)
    /\ condQueue' = [condQueue EXCEPT ![c] = <<>>]
    /\ readyList' = Append(readyList, Head(condQueue[c]))
    /\ status' = [status EXCEPT ![Head(condQueue[c])] = "READY"]
    /\ waitingLock' = [waitingLock EXCEPT ![c] = NoLock]
    /\ UNCHANGED <<currentThread, kpc, karg, threadToBeDestroyed, lockVars, semVars>>

(* Broadcast calls Signal until the queue is empty, all with interrupts off. *)
Broadcast(t, c, l) ==
    /\ MayWake(t, c, l)
    /\ condQueue' = [condQueue EXCEPT ![c] = <<>>]
    /\ readyList' = readyList \o condQueue[c]
    /\ status' = [u \in Threads |->
                     IF u \in Elements(condQueue[c]) THEN "READY" ELSE status[u]]
    /\ waitingLock' = [waitingLock EXCEPT ![c] = NoLock]
    /\ UNCHANGED <<currentThread, kpc, karg, threadToBeDestroyed, lockVars, semVars>>

-----------------------------------------------------------------------------
ThreadNext(t) ==
    \/ \E u \in Threads : Fork(t, u)
    \/ Finish(t)
    \/ Yield(t)
    \/ \E s \in Semaphores : P(t, s) \/ V(t, s)
    \/ \E l \in Locks : Acquire(t, l) \/ Release(t, l)
    \/ \E c \in Conditions, l \in Locks :
          WaitRejected(t, c, l) \/ Wait(t, c, l) \/ Signal(t, c, l) \/ Broadcast(t, c, l)

Resume(t) == Start(t) \/ ResumeYield(t) \/ ResumeP(t) \/ ResumeAcquire(t) \/ ResumeWait(t)

Next ==
    \/ \E t \in Threads : ThreadNext(t) \/ Resume(t)
    \/ \E s \in Semaphores : InterruptV(s)
    \/ IdleDispatch

Spec == Init /\ [][Next]_vars

-----------------------------------------------------------------------------
(* Properties                                                              *)

TypeOK ==
    /\ currentThread \in Threads \cup {NoThread}
    /\ readyList \in Seq(Threads)
    /\ status \in [Threads -> Statuses]
    /\ kpc \in [Threads -> KernelPlaces]
    /\ karg \in [Threads -> Objects]
    /\ threadToBeDestroyed \in Threads \cup {NoThread}
    /\ lockState \in [Locks -> {"FREE", "BUSY"}]
    /\ threadWithPossession \in [Locks -> Threads \cup {NoThread}]
    /\ lockQueue \in [Locks -> Seq(Threads)]
    /\ waitingLock \in [Conditions -> Locks \cup {NoLock}]
    /\ condQueue \in [Conditions -> Seq(Threads)]
    /\ value \in [Semaphores -> Nat]
    /\ semQueue \in [Semaphores -> Seq(Threads)]
    /\ holds \in [Threads -> SUBSET Locks]

(* No two threads have both returned from Acquire() or Wait() on a lock that
   neither has released since: the hand-over in Release(), the recursive
   Acquire() and the reacquisition at the end of Wait() keep the monitor's
   critical sections disjoint.                                             *)
MutualExclusion ==
    \A t, u \in Threads : \A l \in holds[t] \cap holds[u] : t = u

Distinct(q) == \A i, j \in 1..Len(q) : q[i] = q[j] => i = j

(* A waiting list names no thread twice, and only threads that sleep in the
   routine the list belongs to.                                            *)
QueuesSound ==
    /\ Distinct(readyList)
    /\ \A t \in Elements(readyList) : status[t] = "READY"
    /\ \A l \in Locks : Distinct(lockQueue[l])
    /\ \A l \in Locks : \A t \in Elements(lockQueue[l]) :
          status[t] = "BLOCKED" /\ kpc[t] = "Acquire" /\ karg[t] = l
    /\ \A c \in Conditions : Distinct(condQueue[c])
    /\ \A c \in Conditions : \A t \in Elements(condQueue[c]) :
          status[t] = "BLOCKED" /\ kpc[t] = "Wait"
    /\ \A c, d \in Conditions : \A t \in Elements(condQueue[c]) :
          t \in Elements(condQueue[d]) => c = d
    /\ \A s \in Semaphores : Distinct(semQueue[s])
    /\ \A s \in Semaphores : \A t \in Elements(semQueue[s]) :
          status[t] = "BLOCKED" /\ kpc[t] = "P" /\ karg[t] = s

(* Every live thread can still be reached by the scheduler: a READY thread is
   on the ready list, the RUNNING one has the CPU, and a BLOCKED one that has
   not finished is on the waiting list of the object it sleeps on, where a
   later V(), Release() or Signal() finds it.                              *)
NobodyForgotten ==
    \A t \in Threads :
        /\ status[t] = "READY" => t \in Elements(readyList)
        /\ status[t] = "RUNNING" => currentThread = t
        /\ status[t] = "BLOCKED" =>
              \/ kpc[t] = "finished"
              \/ kpc[t] = "P" /\ t \in Elements(semQueue[karg[t]])
              \/ kpc[t] = "Acquire" /\ t \in Elements(lockQueue[karg[t]])
              \/ kpc[t] = "Wait" /\ \E c \in Conditions : t \in Elements(condQueue[c])

(* All threads asleep on a Condition gave up the same lock, the one the
   Condition remembers: whoever Signal() wakes reacquires the lock the
   signaller checked.                                                      *)
OneLockPerCondition ==
    \A c \in Conditions : \A t \in Elements(condQueue[c]) :
        karg[t] = waitingLock[c] /\ waitingLock[c] \in Locks

(* A thread sits on exactly the list its status and kernel routine name, and
   on a Condition's with the lock the Condition remembers: no wake-up is
   lost, delivered twice or given to a thread of another monitor.          *)
NoThreadLost == QueuesSound /\ NobodyForgotten /\ OneLockPerCondition

(* P()'s loop and V()'s single wake-up lose no unit: while threads still
   queue on a semaphore, every available unit has a woken thread on its way
   to take it.                                                             *)
Woken(s) == {t \in Threads : /\ kpc[t] = "P" /\ karg[t] = s
                             /\ status[t] \in {"READY", "RUNNING"}}
NoUnitStranded ==
    \A s \in Semaphores :
        semQueue[s] # <<>> => value[s] <= Cardinality(Woken(s))

(* No barging: while threads queue on a lock, it passes to the first of them
   and to nobody else, even when other threads call Acquire() meanwhile.   *)
HandoverInOrder ==
    [][\A l \in Locks :
          lockQueue[l] # <<>> /\ threadWithPossession'[l] # threadWithPossession[l]
          => threadWithPossession'[l] = Head(lockQueue[l])]_vars

(* A thread that comes back from a sleep in Acquire() or Wait() is the owner
   of the lock it asked for, so a Wait() never returns without the monitor. *)
ReturnsOwning ==
    [][\A t \in Threads :
          kpc[t] \in {"Acquire", "Wait"} /\ kpc'[t] = "user"
          => threadWithPossession'[karg[t]] = t]_vars

-----------------------------------------------------------------------------
(* Progress.  The programs are assumed to be disciplined: a thread that holds
   a lock does not finish or wait for a semaphore, and it releases the lock
   each time it gets the CPU often enough.  The kernel's part is that a
   dispatched thread goes on, that an idle CPU takes a ready thread, and that
   with -rs the timer makes a running thread yield.                        *)

Disciplined ==
    \A t \in Threads :
        InUser(t) /\ holds[t] # {} => kpc'[t] \notin {"P", "finished"}

Fairness ==
    /\ WF_vars(IdleDispatch)
    /\ \A t \in Threads : WF_vars(Resume(t)) /\ WF_vars(Yield(t))
    /\ \A t \in Threads, l \in Locks : SF_vars(Release(t, l))

FairSpec == Init /\ [][Next /\ Disciplined]_vars /\ Fairness

(* A thread that waits for a lock eventually holds it, whatever the other
   threads do meanwhile: the FIFO hand-over does not starve anybody.       *)
AcquireReturns ==
    \A t \in Threads, l \in Locks :
        t \in Elements(lockQueue[l]) ~> l \in holds[t]

(* A thread woken by Signal() or Broadcast() eventually returns from Wait()
   with the lock it gave up.                                               *)
SignalledReturns ==
    \A t \in Threads, l \in Locks :
        (kpc[t] = "Wait" /\ status[t] = "READY" /\ karg[t] = l) ~> l \in holds[t]
=============================================================================
