-------------------------- MODULE ProcessesProofs --------------------------
(***************************************************************************)
(* Proofs about Processes for any number of threads and processes and any  *)
(* stack size.  The counters that Exit reads are shown to be what they are *)
(* meant to be: numThreadsAlive counts the living threads of a process and *)
(* numLivingProcesses the processes that have one or that an Exec is       *)
(* making; and the thread between the test of a last Exit and its end      *)
(* holds the processIDLock, so that the test stays true.                   *)
(***************************************************************************)
EXTENDS Processes, FiniteSetTheorems, WellFoundedInduction, TLAPS

FaultPlaces == {"fault", "faultIpt", "faultFill"}
LeftPlaces == {"exitIpt", "exitFrames", "exitStack", "exitRelease", "done"}
LivingPlaces == {"none", "boot", "user", "forkTest", "forkCopy", "forkTake", "forkStart", "execTake",
                 "execName", "execRelease", "execStart", "execBox", "exit", "exitLocks",
                 "exitConds"} \cup FaultPlaces
LockNames == {"processID", "ipt", "lockTable", "mailboxID"}

TypeOK ==
    /\ pc \in [Threads -> LivingPlaces \cup LeftPlaces]
    /\ ret \in [Threads -> {"user", "forkCopy", "execName"}]
    /\ proc \in [Threads -> Pids \cup {None}]
    /\ newProc \in [Threads -> Pids \cup {None}]
    /\ threadID \in [Threads -> Nat] /\ mailboxNum \in [Threads -> Nat]
    /\ nextThreadID \in [Pids -> Nat] /\ numThreadsAlive \in [Pids -> Nat]
    /\ nextProcessID \in 0 .. MAX_PROCESSES
    /\ numLivingProcesses \in Nat /\ nextMailboxID \in Nat
    /\ locks \in [LockNames -> Seq(Threads)]
    /\ pageTableLock \in [Pids -> Seq(Threads)]
    /\ halted \in {"no", "exit", "threads", "processes"}

(* Thread t is inside Exec between taking the process number and making the
   new thread, possibly in a page fault on the name.                        *)
InExec(t) == pc[t] = "execName" \/ (pc[t] \in FaultPlaces /\ ret[t] = "execName")

OnQueue(q, t) == \E i \in 1 .. Len(q) : q[i] = t

(* Threads whose place in the kernel says that they hold a lock do hold it. *)
Held ==
    \A t \in Threads :
        /\ InExec(t) \/ pc[t] \in {"execRelease", "exitLocks", "exitConds", "exitStack",
                                   "exitRelease"} => Holds(t, "processID")
        /\ pc[t] \in FaultPlaces => OnQueue(pageTableLock[proc[t]], t)
        /\ pc[t] \in {"faultIpt", "faultFill"} => Head(pageTableLock[proc[t]]) = t

(* A thread belongs to a process once it has started, and boot comes first. *)
Members ==
    \A t \in Threads :
        /\ proc[t] = None <=> pc[t] \in {"none", "boot"}
        /\ pc[t] = "boot" => t = 1 /\ nextProcessID = 0

(* The numbers handed out are below the next one and are never handed out
   again.                                                                   *)
Numbers ==
    /\ \A t \in Threads :
          /\ proc[t] # None => proc[t] < nextProcessID /\ threadID[t] < nextThreadID[proc[t]]
          /\ newProc[t] # None => newProc[t] < nextProcessID
          /\ mailboxNum[t] # None => mailboxNum[t] < nextMailboxID
    /\ \A t, u \in Threads : t # u =>
          /\ proc[t] # None /\ proc[t] = proc[u] => threadID[t] # threadID[u]
          /\ mailboxNum[t] # None => mailboxNum[t] # mailboxNum[u]

(* A process that an Exec is making is known to that Exec alone.            *)
Making ==
    \A t \in Threads :
        /\ InExec(t) /\ halted = "no" => newProc[t] # None
        /\ newProc[t] # None => InExec(t) \/ pc[t] = "execRelease"
        /\ InExec(t) /\ newProc[t] # None => \A u \in Threads :
              proc[u] # newProc[t] /\ (u # t => newProc[u] # newProc[t])

Counted == {p \in Pids : Living(p) # {} \/ \E t \in Threads : InExec(t) /\ newProc[t] = p}

Counts ==
    /\ halted # "exit" => numLivingProcesses = Cardinality(Counted)
    /\ \A p \in Pids :
          /\ Living(p) # {} => numThreadsAlive[p] = Cardinality(Living(p))
          /\ (\A t \in Threads : proc[t] # p) => numThreadsAlive[p] = 0

(* What the last Exit of a process has tested stays true until it is done.  *)
LastLeaves ==
    \A t \in Threads : pc[t] \in {"exitLocks", "exitConds"} =>
        Living(proc[t]) = {t} /\ numLivingProcesses > 1

Ends ==
    /\ halted = "no" => pc[1] = "boot" \/ numLivingProcesses > 0
    /\ halted = "exit" => \A p \in Pids : Living(p) = {}
    /\ halted \in {"threads", "processes"} =>
          \E t \in Threads : pc[t] \in {"forkCopy", "execName"}

Inv == TypeOK /\ Held /\ Members /\ Numbers /\ Making /\ Counts /\ LastLeaves /\ Ends

-----------------------------------------------------------------------------
(* A nonempty set of numbers has a least one.                               *)
LEMMA LeastNumber ==
    ASSUME NEW S \in SUBSET Nat, S # {}
    PROVE  \E n \in S : \A m \in S : n <= m
<1> DEFINE R == OpToRel(<, Nat)
<1>1. IsWellFoundedOn(R, Nat)
  BY NatLessThanWellFounded
<1>2. \A m, n \in Nat : m < n => <<m, n>> \in R
  BY DEF OpToRel
<1> HIDE DEF R
<1>3. PICK n \in S : \A m \in S : ~ (<<m, n>> \in R)
  BY <1>1, WFMin
<1>4. \A m \in S : m \in Nat /\ n \in Nat /\ ~ (m < n)
  BY <1>2, <1>3
<1>5. \A m \in S : n <= m
  BY <1>4
<1> QED BY <1>5

(* What the constants are.                                                  *)
LEMMA Constants ==
    /\ None = MAX_PROCESSES /\ None \notin Pids /\ None \in Nat \ {0}
    /\ Pids = {p \in Nat : p < None} /\ IsFiniteSet(Pids)
    /\ Threads \subseteq Nat /\ IsFiniteSet(Threads) /\ 1 \in Threads
<1>1. MAX_PROCESSES \in Nat \ {0}
  BY ProcAssumption
<1>2. None \notin Pids /\ Pids = {p \in Nat : p < None}
  BY <1>1 DEF None, Pids
<1>3. IsFiniteSet(Pids)
  BY <1>1, FS_Interval DEF Pids
<1>4. Cardinality(Threads) \in Nat
  BY ProcAssumption, FS_CardinalityType
<1>5. Threads \subseteq Nat /\ 1 \in Threads
  BY <1>4, ProcAssumption
<1> QED BY <1>1, <1>2, <1>3, <1>5, ProcAssumption DEF None

(* The thread that Fork and Exec start is one that was not there.           *)
LEMMA NewThreadIsNew ==
    ASSUME SomeThread
    PROVE  NewThread \in Threads /\ pc[NewThread] = "none"
<1> DEFINE S == {u \in Threads : pc[u] = "none"}
<1>1. S \in SUBSET Nat /\ S # {}
  BY Constants DEF SomeThread
<1>2. PICK u \in S : \A v \in S : u <= v
  <2> HIDE DEF S
  <2> QED BY <1>1, LeastNumber
<1>3. u \in Threads /\ pc[u] = "none" /\ \A v \in Threads : pc[v] = "none" => u <= v
  BY <1>2
<1> QED BY <1>3 DEF NewThread

(* The stacks of two threads of a process lie one after the other.          *)
LEMMA StacksApart ==
    ASSUME NEW i \in Nat, NEW j \in Nat, i < j
    PROVE  StackEnd(i) <= StackEnd(j) - StackPages /\ StackEnd(i) \in Nat /\ StackEnd(j) \in Nat
<1>1. StackPages \in Nat /\ NumExecPages \in Nat
  BY ProcAssumption
<1>2. \A a, b, s \in Nat : a < b => (a + 1) * s <= b * s /\ (b + 1) * s = b * s + s
  OBVIOUS
<1>3. \A a, s \in Nat : a * s \in Nat
  OBVIOUS
<1>4. (i + 1) * StackPages <= j * StackPages
      /\ (j + 1) * StackPages = j * StackPages + StackPages
  BY <1>1, <1>2
<1> QED BY <1>1, <1>3, <1>4 DEF StackEnd

-----------------------------------------------------------------------------
(* The invariant, part by part                                              *)

(* Every thread starts as a number of its own and the counters are zero.    *)
LEMMA InvInit == Init => Inv
<1> SUFFICES ASSUME Init PROVE Inv
  OBVIOUS
<1>0. None \notin Pids /\ None \in Nat
  BY Constants
<1>1. TypeOK
  BY <1>0, Constants DEF Init, TypeOK, LivingPlaces, LeftPlaces, LockNames
<1>2. Held /\ Members /\ Numbers /\ Making
  BY <1>0 DEF Init, Held, Members, Numbers, Making, InExec, FaultPlaces
<1>3. \A p \in Pids : Living(p) = {}
  BY <1>0 DEF Init, Living
<1>4. Counted = {}
  BY <1>3 DEF Init, Counted, InExec, FaultPlaces
<1>5. Counts
  BY <1>3, <1>4, FS_EmptySet DEF Init, Counts
<1>6. LastLeaves /\ Ends
  BY Constants DEF Init, LastLeaves, Ends
<1> QED BY <1>1, <1>2, <1>5, <1>6 DEF Inv

(* Taking and giving back a lock leaves queues of threads.                  *)
LEMMA LockTypes ==
    ASSUME TypeOK, NEW l \in LockNames, NEW t \in Threads
    PROVE  /\ Acquire(t, l) => locks' \in [LockNames -> Seq(Threads)]
           /\ Release(l) /\ locks[l] # <<>> => locks' \in [LockNames -> Seq(Threads)]
<1>1. locks \in [LockNames -> Seq(Threads)]
  BY DEF TypeOK
<1>2. Append(locks[l], t) \in Seq(Threads)
  BY <1>1
<1>3. locks[l] # <<>> => Tail(locks[l]) \in Seq(Threads)
  BY <1>1
<1> QED BY <1>1, <1>2, <1>3 DEF Acquire, Release

(* A queue's members stay on it until they are its head.                    *)
LEMMA QueueFacts ==
    ASSUME NEW q \in Seq(Threads), NEW t \in Threads
    PROVE  /\ OnQueue(q, t) => q # <<>>
           /\ OnQueue(Append(q, t), t)
           /\ \A u \in Threads : OnQueue(q, u) => OnQueue(Append(q, t), u)
           /\ q # <<>> => Head(Append(q, t)) = Head(q)
           /\ \A u \in Threads : OnQueue(q, u) /\ u # Head(q) => OnQueue(Tail(q), u)
<1>1. OnQueue(q, t) => q # <<>>
  BY DEF OnQueue
<1>2. Len(Append(q, t)) = Len(q) + 1 /\ Append(q, t)[Len(q) + 1] = t /\ Len(q) \in Nat
      /\ \A i \in 1 .. Len(q) : Append(q, t)[i] = q[i]
  OBVIOUS
<1>3. OnQueue(Append(q, t), t) /\ \A u \in Threads : OnQueue(q, u) => OnQueue(Append(q, t), u)
  BY <1>2 DEF OnQueue
<1>4. q # <<>> => Head(Append(q, t)) = Head(q)
  OBVIOUS
<1>5. ASSUME NEW u \in Threads, OnQueue(q, u), u # Head(q) PROVE OnQueue(Tail(q), u)
  <2>1. PICK i \in 1 .. Len(q) : q[i] = u
    BY <1>5 DEF OnQueue
  <2>2. q # <<>> /\ Len(Tail(q)) = Len(q) - 1 /\ i # 1
    BY <1>5, <2>1
  <2>3. Tail(q)[i - 1] = u /\ i - 1 \in 1 .. Len(Tail(q))
    BY <2>1, <2>2
  <2> QED BY <2>3 DEF OnQueue
<1> QED BY <1>1, <1>3, <1>4, <1>5

(* Every operation leaves the locks queues of threads.                      *)
LEMMA LocksStep ==
    ASSUME Inv, Next
    PROVE  locks' \in [LockNames -> Seq(Threads)] /\ pageTableLock' \in [Pids -> Seq(Threads)]
<1> USE DEF At, ids, table, global
<1>0. /\ TypeOK /\ Held /\ Members /\ None \notin Pids
      /\ locks \in [LockNames -> Seq(Threads)] /\ pageTableLock \in [Pids -> Seq(Threads)]
      /\ {"processID", "ipt", "lockTable", "mailboxID"} = LockNames
  BY Constants DEF Inv, TypeOK, LockNames
<1>1. CASE StartProcess
  BY <1>0, <1>1 DEF StartProcess
<1>2. ASSUME NEW t \in Threads, Kernel(t) \/ Fault(t) \/ Fork(t) \/ Exec(t) \/ Exit(t)
      PROVE  locks' \in [LockNames -> Seq(Threads)] /\ pageTableLock' \in [Pids -> Seq(Threads)]
  <2>0. \A l \in LockNames :
           /\ Acquire(t, l) => locks' \in [LockNames -> Seq(Threads)]
           /\ Release(l) /\ Holds(t, l) => locks' \in [LockNames -> Seq(Threads)]
    BY <1>0, LockTypes DEF Holds
  <2>1. CASE Fault(t)
    <3>1. proc[t] \in Pids
      BY <1>0, <2>1 DEF Fault, Members, TypeOK
    <3>2. Append(pageTableLock[proc[t]], t) \in Seq(Threads)
      BY <1>0, <3>1
    <3> QED BY <1>0, <2>1, <3>2 DEF Fault
  <2>2. CASE FaultEnd(t)
    <3>0. proc[t] \in Pids /\ OnQueue(pageTableLock[proc[t]], t)
      BY <1>0, <2>2 DEF FaultEnd, Members, Held, TypeOK, FaultPlaces
    <3>1. proc[t] \in Pids /\ pageTableLock[proc[t]] # <<>>
      BY <1>0, <3>0, QueueFacts
    <3>2. Tail(pageTableLock[proc[t]]) \in Seq(Threads)
      BY <1>0, <3>1
    <3> QED BY <1>0, <2>2, <3>2 DEF FaultEnd
  <2>3. CASE FaultIpt(t) \/ FaultFill(t)
    BY <1>0, <2>0, <2>3 DEF FaultIpt, FaultFill
  <2>4. CASE Fork(t) \/ ForkTest(t) \/ ForkCopy(t) \/ ForkTake(t) \/ Create_Kernel_Thread_Fork(t)
    BY <1>0, <2>0, <2>4 DEF Fork, ForkTest, ForkCopy, ForkTake, Create_Kernel_Thread_Fork
  <2>5. CASE Exec(t) \/ ExecTake(t) \/ ExecFork(t) \/ Create_Kernel_Thread_Exec(t) \/ ExecBox(t)
    BY <1>0, <2>0, <2>5 DEF Exec, ExecTake, ExecFork, Create_Kernel_Thread_Exec, ExecBox
  <2>6. CASE ExecRelease(t) \/ ExitConds(t) \/ ExitRelease(t)
    BY <1>0, <2>0, <2>6 DEF ExecRelease, ExitConds, ExitRelease, Held
  <2>7. CASE Exit(t) \/ ExitLast(t) \/ ExitProcess(t) \/ ExitLocks(t) \/ ExitIpt(t) \/ ExitFrames(t)
    BY <1>0, <2>0, <2>7 DEF Exit, ExitLast, ExitProcess, ExitLocks, ExitIpt, ExitFrames
  <2>8. CASE ExitThread(t) \/ ExitStack(t)
    BY <1>0, <2>0, <2>8 DEF ExitThread, ExitStack
  <2> QED BY <1>2, <2>1, <2>2, <2>3, <2>4, <2>5, <2>6, <2>7, <2>8 DEF Kernel
<1> QED BY <1>1, <1>2 DEF Next

(* A thread that joins a process is numbered and counted.                   *)
LEMMA JoinsTypes ==
    ASSUME TypeOK, NEW u \in Threads, NEW p \in Pids, Joins(u, p)
    PROVE  /\ proc' \in [Threads -> Pids \cup {None}] /\ threadID' \in [Threads -> Nat]
           /\ nextThreadID' \in [Pids -> Nat] /\ numThreadsAlive' \in [Pids -> Nat]
BY DEF TypeOK, Joins

(* Every operation keeps the types.                                         *)
LEMMA TypeStep ==
    ASSUME Inv, Next
    PROVE  TypeOK'
<1> USE LocksStep DEF TypeOK, At, ids, table, global, LivingPlaces, LeftPlaces, FaultPlaces
<1>0. TypeOK /\ Members /\ None \notin Pids /\ None \in Nat
  BY Constants DEF Inv
<1>1. CASE StartProcess
  <2>1. 1 \in Threads /\ pc[1] = "boot" /\ nextProcessID = 0 /\ 0 \in Pids /\ 1 \in 0 .. MAX_PROCESSES
    BY <1>0, <1>1, Constants DEF StartProcess, Members
  <2> QED BY <1>0, <1>1, <2>1 DEF StartProcess, Joins
<1>2. ASSUME NEW t \in Threads, Kernel(t) \/ Fault(t) \/ Fork(t) \/ Exec(t) \/ Exit(t)
      PROVE  TypeOK'
  <2>0. pc[t] \notin {"none", "boot"} => proc[t] \in Pids
    BY <1>0 DEF Members
  <2>1. CASE Fault(t) \/ FaultIpt(t) \/ FaultFill(t) \/ FaultEnd(t)
    BY <1>0, <2>1 DEF Fault, FaultIpt, FaultFill, FaultEnd
  <2>3. CASE Fork(t) \/ ForkTest(t) \/ ForkCopy(t) \/ Create_Kernel_Thread_Fork(t)
    BY <1>0, <2>3 DEF Fork, ForkTest, ForkCopy, Create_Kernel_Thread_Fork
  <2>4. CASE ForkTake(t)
    <3>1. NewThread \in Threads
      BY <2>4, NewThreadIsNew DEF ForkTake
    <3>2. proc[t] \in Pids
      BY <2>0, <2>4 DEF ForkTake
    <3>3. pc' \in [Threads -> LivingPlaces \cup LeftPlaces] /\ ret' \in [Threads -> {"user", "forkCopy", "execName"}]
      BY <1>0, <2>4, <3>1 DEF ForkTake
    <3> QED BY <1>0, <2>4, <3>1, <3>2, <3>3, JoinsTypes DEF ForkTake
  <2>2. CASE Exec(t) \/ Create_Kernel_Thread_Exec(t) \/ ExecRelease(t)
    BY <1>0, <2>2 DEF Exec, Create_Kernel_Thread_Exec, ExecRelease
  <2>5. CASE ExecBox(t)
    <3>1. mailboxNum' \in [Threads -> Nat] /\ nextMailboxID' \in Nat
      BY <1>0, <2>5 DEF ExecBox
    <3> QED BY <1>0, <2>5, <3>1 DEF ExecBox
  <2>6. CASE ExecTake(t)
    <3>1. nextProcessID # MAX_PROCESSES => nextProcessID \in Pids /\ nextProcessID + 1 \in 0 .. MAX_PROCESSES
      BY <1>0, Constants
    <3>2. newProc' \in [Threads -> Pids \cup {None}] /\ nextProcessID' \in 0 .. MAX_PROCESSES
      BY <1>0, <2>6, <3>1 DEF ExecTake
    <3>3. numLivingProcesses' \in Nat
      BY <1>0, <2>6 DEF ExecTake
    <3> QED BY <1>0, <2>6, <3>2, <3>3 DEF ExecTake
  <2>7. CASE ExecFork(t)
    <3>1. NewThread \in Threads
      BY <2>7, NewThreadIsNew DEF ExecFork
    <3>2. newProc[t] \in Pids
      BY <1>0, <2>7 DEF ExecFork, Inv, Making, InExec
    <3>3. pc' \in [Threads -> LivingPlaces \cup LeftPlaces] /\ ret' \in [Threads -> {"user", "forkCopy", "execName"}]
      BY <1>0, <2>7, <3>1 DEF ExecFork
    <3> QED BY <1>0, <2>7, <3>1, <3>2, <3>3, JoinsTypes DEF ExecFork
  <2>8. CASE Exit(t) \/ ExitLast(t) \/ ExitProcess(t) \/ ExitLocks(t) \/ ExitIpt(t) \/ ExitFrames(t)
    BY <1>0, <2>8 DEF Exit, ExitLast, ExitProcess, ExitLocks, ExitIpt, ExitFrames
  <2>9. CASE ExitConds(t)
    <3>1. numLivingProcesses - 1 \in Nat
      BY <1>0, <2>9 DEF ExitConds, Inv, LastLeaves
    <3> QED BY <1>0, <2>9, <3>1 DEF ExitConds
  <2>10. CASE ExitThread(t)
    <3>1. proc[t] \in Pids /\ numThreadsAlive[proc[t]] - 1 \in Nat
      BY <1>0, <2>0, <2>10 DEF ExitThread
    <3> QED BY <1>0, <2>10, <3>1 DEF ExitThread
  <2>11. CASE ExitStack(t) \/ ExitRelease(t)
    BY <1>0, <2>11 DEF ExitStack, ExitRelease
  <2> QED BY <1>2, <2>1, <2>2, <2>3, <2>4, <2>5, <2>6, <2>7, <2>8, <2>9, <2>10, <2>11 DEF Kernel
<1> QED BY <1>1, <1>2 DEF Next

(* Only the thread at the head of a queue gives a lock back.                *)
LEMMA HeadKept ==
    ASSUME TypeOK, NEW t \in Threads, NEW u \in Threads, t # u, Holds(u, "processID"),
           \/ UNCHANGED locks
           \/ \E l \in LockNames : Acquire(t, l) \/ (Release(l) /\ Holds(t, l))
    PROVE  Holds(u, "processID")'
<1>1. locks \in [LockNames -> Seq(Threads)] /\ "processID" \in LockNames
  BY DEF TypeOK, LockNames
<1>2. locks["processID"] # <<>> /\ Head(locks["processID"]) = u
  BY DEF Holds
<1>3. CASE UNCHANGED locks
  BY <1>3 DEF Holds
<1>4. ASSUME NEW l \in LockNames, Acquire(t, l) PROVE Holds(u, "processID")'
  <2>1. /\ Append(locks["processID"], t) # <<>>
        /\ Head(Append(locks["processID"], t)) = Head(locks["processID"])
    BY <1>1, <1>2
  <2> QED BY <1>1, <1>2, <1>4, <2>1 DEF Acquire, Holds
<1>5. ASSUME NEW l \in LockNames, Release(l) /\ Holds(t, l) PROVE Holds(u, "processID")'
  BY <1>1, <1>2, <1>5 DEF Release, Holds
<1> QED BY <1>3, <1>4, <1>5

(* What an operation of thread t does to the locks.                         *)
LEMMA LockMoves ==
    ASSUME Inv, NEW t \in Threads, Kernel(t) \/ Fault(t) \/ Fork(t) \/ Exec(t) \/ Exit(t)
    PROVE  UNCHANGED locks \/ \E l \in LockNames : Acquire(t, l) \/ (Release(l) /\ Holds(t, l))
<1> USE DEF At, LockNames
<1>1. CASE \/ Fault(t) \/ FaultIpt(t) \/ FaultFill(t) \/ FaultEnd(t)
           \/ Fork(t) \/ ForkTest(t) \/ ForkCopy(t) \/ ForkTake(t) \/ Create_Kernel_Thread_Fork(t)
  BY <1>1 DEF Fault, FaultIpt, FaultFill, FaultEnd, Fork, ForkTest, ForkCopy, ForkTake,
              Create_Kernel_Thread_Fork
<1>2. CASE \/ Exec(t) \/ ExecTake(t) \/ ExecFork(t) \/ Create_Kernel_Thread_Exec(t) \/ ExecBox(t)
           \/ Exit(t) \/ ExitLast(t) \/ ExitProcess(t) \/ ExitLocks(t) \/ ExitIpt(t)
           \/ ExitFrames(t) \/ ExitThread(t) \/ ExitStack(t)
  BY <1>2 DEF Exec, ExecTake, ExecFork, Create_Kernel_Thread_Exec, ExecBox, Exit, ExitLast,
              ExitProcess, ExitLocks, ExitIpt, ExitFrames, ExitThread, ExitStack
<1>3. CASE ExecRelease(t) \/ ExitConds(t) \/ ExitRelease(t)
  BY <1>3 DEF ExecRelease, ExitConds, ExitRelease, Inv, Held
<1> QED BY <1>1, <1>2, <1>3 DEF Kernel

(* A thread moves itself, and starts at most one that was not there.        *)
LEMMA OthersStay ==
    ASSUME TypeOK, NEW t \in Threads, Kernel(t) \/ Fault(t) \/ Fork(t) \/ Exec(t) \/ Exit(t),
           NEW u \in Threads, u # t
    PROVE  \/ /\ pc'[u] = pc[u] /\ ret'[u] = ret[u] /\ proc'[u] = proc[u]
              /\ newProc'[u] = newProc[u] /\ threadID'[u] = threadID[u]
              /\ mailboxNum'[u] = mailboxNum[u]
           \/ /\ pc[u] = "none" /\ pc'[u] \in {"forkStart", "execStart"}
              /\ newProc'[u] = newProc[u] /\ mailboxNum'[u] = mailboxNum[u]
              /\ ForkTake(t) \/ ExecFork(t)
<1> USE DEF At, ids, table, global, TypeOK
<1>1. CASE Fault(t) \/ FaultIpt(t) \/ FaultFill(t) \/ FaultEnd(t)
  BY <1>1 DEF Fault, FaultIpt, FaultFill, FaultEnd
<1>2. CASE Fork(t) \/ ForkTest(t) \/ ForkCopy(t) \/ Create_Kernel_Thread_Fork(t)
  BY <1>2 DEF Fork, ForkTest, ForkCopy, Create_Kernel_Thread_Fork
<1>3. CASE ForkTake(t)
  <2>1. NewThread \in Threads /\ pc[NewThread] = "none"
    BY <1>3, NewThreadIsNew DEF ForkTake
  <2> QED BY <1>3, <2>1 DEF ForkTake, Joins
<1>4. CASE ExecFork(t)
  <2>1. NewThread \in Threads /\ pc[NewThread] = "none"
    BY <1>4, NewThreadIsNew DEF ExecFork
  <2> QED BY <1>4, <2>1 DEF ExecFork, Joins
<1>5. CASE Exec(t) \/ ExecTake(t) \/ ExecRelease(t) \/ Create_Kernel_Thread_Exec(t) \/ ExecBox(t)
  BY <1>5 DEF Exec, ExecTake, ExecRelease, Create_Kernel_Thread_Exec, ExecBox
<1>6. CASE Exit(t) \/ ExitLast(t) \/ ExitProcess(t) \/ ExitLocks(t) \/ ExitConds(t)
  BY <1>6 DEF Exit, ExitLast, ExitProcess, ExitLocks, ExitConds
<1>7. CASE ExitIpt(t) \/ ExitFrames(t) \/ ExitThread(t) \/ ExitStack(t) \/ ExitRelease(t)
  BY <1>7 DEF ExitIpt, ExitFrames, ExitThread, ExitStack, ExitRelease
<1> QED BY <1>1, <1>2, <1>3, <1>4, <1>5, <1>6, <1>7 DEF Kernel

(* The thread that moves holds the processIDLock wherever its new place says
   so.                                                                      *)
LEMMA OwnIdHeld ==
    ASSUME Inv, NEW t \in Threads, Kernel(t) \/ Fault(t) \/ Fork(t) \/ Exec(t) \/ Exit(t),
           InExec(t)' \/ pc'[t] \in {"execRelease", "exitLocks", "exitConds", "exitStack", "exitRelease"}
    PROVE  Holds(t, "processID")'
<1> USE DEF At, TypeOK, InExec, FaultPlaces
<1>0. TypeOK /\ Held
  BY DEF Inv
<1>1. Holds(t, "processID") /\ (UNCHANGED locks \/ \E l \in LockNames \ {"processID"} : Acquire(t, l) \/ Release(l))
  <2> USE DEF LockNames
  <2>1. CASE Fault(t) \/ FaultIpt(t) \/ FaultFill(t) \/ FaultEnd(t)
    BY <1>0, <2>1 DEF Fault, FaultIpt, FaultFill, FaultEnd, Held
  <2>2. CASE Fork(t) \/ ForkTest(t) \/ ForkCopy(t) \/ Create_Kernel_Thread_Fork(t)
    BY <1>0, <2>2 DEF Fork, ForkTest, ForkCopy, Create_Kernel_Thread_Fork
  <2>3. CASE ForkTake(t)
    BY <1>0, <2>3, NewThreadIsNew DEF ForkTake
  <2>4. CASE ExecFork(t)
    BY <1>0, <2>4, NewThreadIsNew DEF ExecFork, Held
  <2>5. CASE Exec(t) \/ ExecTake(t) \/ ExecRelease(t) \/ Create_Kernel_Thread_Exec(t) \/ ExecBox(t)
    BY <1>0, <2>5 DEF Exec, ExecTake, ExecRelease, Create_Kernel_Thread_Exec, ExecBox
  <2>6. CASE Exit(t) \/ ExitLast(t) \/ ExitProcess(t) \/ ExitLocks(t) \/ ExitConds(t)
    BY <1>0, <2>6 DEF Exit, ExitLast, ExitProcess, ExitLocks, ExitConds, Held
  <2>7. CASE ExitIpt(t) \/ ExitFrames(t) \/ ExitThread(t) \/ ExitStack(t) \/ ExitRelease(t)
    BY <1>0, <2>7 DEF ExitIpt, ExitFrames, ExitThread, ExitStack, ExitRelease, Held
  <2> QED BY <2>1, <2>2, <2>3, <2>4, <2>5, <2>6, <2>7 DEF Kernel
<1>2. locks'["processID"] = locks["processID"]
  BY <1>0, <1>1 DEF Acquire, Release, LockNames
<1> QED BY <1>1, <1>2 DEF Holds

(* The threads in a page fault are on the queue of their page table's lock,
   and those past its Acquire at the head.                                  *)
LEMMA TableHeld ==
    ASSUME Inv, NEW t \in Threads, Kernel(t) \/ Fault(t) \/ Fork(t) \/ Exec(t) \/ Exit(t),
           NEW u \in Threads, pc'[u] \in FaultPlaces
    PROVE  /\ OnQueue(pageTableLock'[proc'[u]], u)
           /\ pc'[u] \in {"faultIpt", "faultFill"} => Head(pageTableLock'[proc'[u]]) = u
<1> USE DEF At, TypeOK, ids, table, global, FaultPlaces
<1>0. /\ TypeOK /\ Held /\ Members /\ None \notin Pids
      /\ pageTableLock \in [Pids -> Seq(Threads)]
  BY Constants DEF Inv
<1>1. ASSUME u # t
      PROVE  /\ pc'[u] = pc[u] /\ proc'[u] = proc[u] /\ proc[u] \in Pids
             /\ OnQueue(pageTableLock[proc[u]], u)
             /\ pc[u] \in {"faultIpt", "faultFill"} => Head(pageTableLock[proc[u]]) = u
  <2>1. pc'[u] = pc[u] /\ proc'[u] = proc[u]
    BY <1>0, <1>1, OthersStay
  <2> QED BY <1>0, <2>1 DEF Held, Members
<1>2. CASE Fault(t)
  <2>1. pc'[t] = "fault" /\ proc[t] \in Pids /\ proc' = proc
    BY <1>0, <1>2 DEF Fault, Members
  <2>2. pageTableLock' = [pageTableLock EXCEPT ![proc[t]] = Append(@, t)]
    BY <1>2 DEF Fault
  <2>3. CASE u = t
    BY <1>0, <2>1, <2>2, <2>3, QueueFacts
  <2>4. CASE u # t
    <3>1. CASE proc[u] = proc[t]
      <4>1. pageTableLock'[proc'[u]] = Append(pageTableLock[proc[u]], t)
        BY <1>0, <2>1, <2>2, <3>1
      <4> QED BY <1>0, <1>1, <2>1, <2>4, <4>1, QueueFacts
    <3>2. CASE proc[u] # proc[t]
      BY <1>0, <1>1, <2>1, <2>2, <2>4, <3>2
    <3> QED BY <3>1, <3>2
  <2> QED BY <2>3, <2>4
<1>3. CASE FaultEnd(t)
  <2>1. u # t /\ proc[t] \in Pids /\ Head(pageTableLock[proc[t]]) = t /\ proc' = proc
    BY <1>0, <1>3 DEF FaultEnd, Members, Held
  <2>2. pageTableLock' = [pageTableLock EXCEPT ![proc[t]] = Tail(@)]
    BY <1>3 DEF FaultEnd
  <2>3. CASE proc[u] = proc[t]
    <3>1. pageTableLock'[proc'[u]] = Tail(pageTableLock[proc[u]])
      BY <1>0, <2>1, <2>2, <2>3
    <3>2. OnQueue(pageTableLock[proc[u]], u) /\ u # Head(pageTableLock[proc[u]])
          /\ pageTableLock[proc[u]] \in Seq(Threads)
          /\ pc'[u] \notin {"faultIpt", "faultFill"}
      BY <1>0, <1>1, <2>1, <2>3
    <3> QED BY <3>1, <3>2, QueueFacts
  <2>4. CASE proc[u] # proc[t]
    BY <1>0, <1>1, <2>1, <2>2, <2>4
  <2> QED BY <2>3, <2>4
<1>4. CASE FaultIpt(t) \/ FaultFill(t)
  BY <1>0, <1>1, <1>4 DEF FaultIpt, FaultFill, Held
<1>5. CASE UNCHANGED pageTableLock /\ pc'[t] \notin FaultPlaces
  BY <1>1, <1>5
<1>6. CASE Fork(t) \/ ForkTest(t) \/ ForkCopy(t) \/ ForkTake(t) \/ Create_Kernel_Thread_Fork(t)
  BY <1>0, <1>5, <1>6, NewThreadIsNew DEF Fork, ForkTest, ForkCopy, ForkTake, Create_Kernel_Thread_Fork
<1>7. CASE Exec(t) \/ ExecTake(t) \/ ExecFork(t) \/ ExecRelease(t) \/ Create_Kernel_Thread_Exec(t) \/ ExecBox(t)
  BY <1>0, <1>5, <1>7, NewThreadIsNew DEF Exec, ExecTake, ExecFork, ExecRelease, Create_Kernel_Thread_Exec, ExecBox
<1>8. CASE Exit(t) \/ ExitLast(t) \/ ExitProcess(t) \/ ExitLocks(t) \/ ExitConds(t)
  BY <1>0, <1>5, <1>8 DEF Exit, ExitLast, ExitProcess, ExitLocks, ExitConds
<1>9. CASE ExitIpt(t) \/ ExitFrames(t) \/ ExitThread(t) \/ ExitStack(t) \/ ExitRelease(t)
  BY <1>0, <1>5, <1>9 DEF ExitIpt, ExitFrames, ExitThread, ExitStack, ExitRelease
<1> QED BY <1>2, <1>3, <1>4, <1>6, <1>7, <1>8, <1>9 DEF Kernel

(* Every operation keeps the locks with those whose places say they hold
   them.                                                                    *)
LEMMA HeldStep ==
    ASSUME Inv, Next
    PROVE  Held'
<1>0. TypeOK /\ Held
  BY DEF Inv
<1>1. CASE StartProcess
  BY <1>0, <1>1, Constants DEF StartProcess, At, Joins, Held, TypeOK, InExec, FaultPlaces, Holds,
                               Inv, Members
<1>2. ASSUME NEW t \in Threads, Kernel(t) \/ Fault(t) \/ Fork(t) \/ Exec(t) \/ Exit(t),
             NEW u \in Threads
      PROVE  /\ InExec(u)' \/ pc'[u] \in {"execRelease", "exitLocks", "exitConds", "exitStack",
                                         "exitRelease"} => Holds(u, "processID")'
             /\ pc'[u] \in FaultPlaces => OnQueue(pageTableLock'[proc'[u]], u)
             /\ pc'[u] \in {"faultIpt", "faultFill"} => Head(pageTableLock'[proc'[u]]) = u
  <2>1. CASE u = t
    BY <1>2, <2>1, OwnIdHeld, TableHeld DEF FaultPlaces
  <2>2. CASE u # t
    <3>1. InExec(u)' \/ pc'[u] \in {"execRelease", "exitLocks", "exitConds", "exitStack", "exitRelease"}
          => Holds(u, "processID")
      BY <1>0, <1>2, <2>2, OthersStay DEF InExec, FaultPlaces, Held
    <3>2. Holds(u, "processID") => Holds(u, "processID")'
      BY <1>0, <1>2, <2>2, LockMoves, HeadKept
    <3> QED BY <1>2, <3>1, <3>2, TableHeld DEF FaultPlaces
  <2> QED BY <2>1, <2>2
<1> QED BY <1>1, <1>2 DEF Next, Held, OnQueue

(* Every operation keeps the numbers apart: a process's next thread number,
   the next process number and the next mailbox number are all unused.      *)
LEMMA NumbersStep ==
    ASSUME Inv, Next
    PROVE  Numbers' /\ Members'
<1> USE DEF At, TypeOK, ids, table, global
<1>0. TypeOK /\ Members /\ Numbers /\ None \notin Pids /\ None \in Nat /\ None = MAX_PROCESSES
      /\ Pids = {p \in Nat : p < None}
  BY Constants DEF Inv
<1>1. ASSUME NEW t \in Threads, NEW p \in Pids, Joins(t, p), UNCHANGED <<newProc, mailboxNum, nextMailboxID>>,
             nextProcessID' \in Nat, p < nextProcessID', nextProcessID <= nextProcessID'
      PROVE  Numbers'
  <2>1. /\ proc'[t] = p /\ threadID'[t] = nextThreadID[p]
        /\ \A u \in Threads : u # t => proc'[u] = proc[u] /\ threadID'[u] = threadID[u]
        /\ nextThreadID'[p] = nextThreadID[p] + 1 /\ nextThreadID[p] \in Nat
        /\ \A q \in Pids : q # p => nextThreadID'[q] = nextThreadID[q]
    BY <1>0, <1>1 DEF Joins
  <2>2. ASSUME NEW u \in Threads, proc'[u] # None
        PROVE  proc'[u] < nextProcessID' /\ threadID'[u] < nextThreadID'[proc'[u]]
    <3>1. CASE u = t
      BY <1>1, <2>1, <3>1
    <3>2. CASE u # t
      <4>1. proc[u] \in Pids /\ proc[u] < nextProcessID /\ threadID[u] < nextThreadID[proc[u]]
            /\ threadID[u] \in Nat /\ nextThreadID[proc[u]] \in Nat /\ proc[u] \in Nat
            /\ nextProcessID \in Nat
        BY <1>0, <2>1, <2>2, <3>2 DEF Numbers
      <4> QED BY <1>1, <2>1, <3>2, <4>1
    <3> QED BY <3>1, <3>2
  <2>3. ASSUME NEW u \in Threads, newProc'[u] # None PROVE newProc'[u] < nextProcessID'
    <3>1. newProc[u] \in Nat /\ newProc[u] < nextProcessID /\ nextProcessID \in Nat
      BY <1>0, <1>1, <2>3 DEF Numbers
    <3> QED BY <1>1, <3>1
  <2>4. ASSUME NEW u \in Threads, NEW v \in Threads, u # v, proc'[u] # None, proc'[u] = proc'[v]
        PROVE  threadID'[u] # threadID'[v]
    <3>1. ASSUME NEW w \in Threads, w # t, proc[w] = p PROVE threadID[w] < nextThreadID[p] /\ threadID[w] \in Nat
      BY <1>0, <1>1, <3>1 DEF Numbers
    <3>2. CASE u = t
      <4>1. threadID[v] < nextThreadID[p] /\ threadID[v] \in Nat /\ threadID'[v] = threadID[v]
        BY <2>1, <2>4, <3>1, <3>2
      <4> QED BY <2>1, <3>2, <4>1
    <3>3. CASE v = t
      <4>1. threadID[u] < nextThreadID[p] /\ threadID[u] \in Nat /\ threadID'[u] = threadID[u]
        BY <2>1, <2>4, <3>1, <3>3
      <4> QED BY <2>1, <3>3, <4>1
    <3>4. CASE u # t /\ v # t
      BY <1>0, <2>1, <2>4, <3>4 DEF Numbers
    <3> QED BY <3>2, <3>3, <3>4
  <2> QED BY <1>0, <1>1, <2>2, <2>3, <2>4 DEF Numbers
<1>2. CASE StartProcess
  <2>1. /\ 1 \in Threads /\ pc[1] = "boot" /\ nextProcessID = 0 /\ 0 \in Pids
        /\ \A u \in Threads : u # 1 => pc[u] # "boot"
    BY <1>0, <1>2, Constants DEF StartProcess, Members
  <2>2. Numbers'
    BY <1>0, <1>1, <1>2, <2>1 DEF StartProcess
  <2>3. Members'
    BY <1>0, <1>2, <2>1 DEF StartProcess, Members, Joins
  <2> QED BY <2>2, <2>3
<1>3. ASSUME NEW t \in Threads, Kernel(t) \/ Fault(t) \/ Fork(t) \/ Exec(t) \/ Exit(t)
      PROVE  Numbers' /\ Members'
  <2>0. pc[t] \notin {"none", "boot"} => proc[t] \in Pids /\ proc[t] < nextProcessID
    BY <1>0 DEF Members, Numbers
  <2>1. CASE ForkTake(t)
    <3>1. NewThread \in Threads /\ pc[NewThread] = "none"
      BY <2>1, NewThreadIsNew DEF ForkTake
    <3>2. Joins(NewThread, proc[t]) /\ proc[t] \in Pids /\ proc[t] < nextProcessID
      BY <2>0, <2>1 DEF ForkTake
    <3>3. Numbers'
      BY <1>0, <1>1, <2>1, <3>1, <3>2 DEF ForkTake
    <3>4. Members'
      BY <1>0, <2>1, <3>1, <3>2 DEF ForkTake, Members, Joins
    <3> QED BY <3>3, <3>4
  <2>2. CASE ExecFork(t)
    <3>1. NewThread \in Threads /\ pc[NewThread] = "none"
      BY <2>2, NewThreadIsNew DEF ExecFork
    <3>2. Joins(NewThread, newProc[t]) /\ newProc[t] \in Pids /\ newProc[t] < nextProcessID
      BY <1>0, <2>2 DEF ExecFork, Inv, Making, InExec, Numbers
    <3>3. Numbers'
      BY <1>0, <1>1, <2>2, <3>1, <3>2 DEF ExecFork
    <3>4. Members'
      BY <1>0, <2>2, <3>1, <3>2 DEF ExecFork, Members, Joins
    <3> QED BY <3>3, <3>4
  <2>3. CASE ExecTake(t)
    <3>1. nextProcessID' \in Nat /\ nextProcessID <= nextProcessID' /\ nextProcessID > 0
      BY <1>0, <2>0, <2>3 DEF ExecTake
    <3>2. \A u \in Threads : newProc'[u] # None => newProc'[u] < nextProcessID'
      BY <1>0, <2>3 DEF ExecTake, Numbers
    <3>3. Numbers'
      BY <1>0, <2>3, <3>1, <3>2 DEF ExecTake, Numbers
    <3>4. Members'
      BY <1>0, <2>3, <3>1 DEF ExecTake, Members
    <3> QED BY <3>3, <3>4
  <2>4. CASE ExecBox(t)
    <3>0. /\ mailboxNum'[t] = nextMailboxID /\ nextMailboxID' = nextMailboxID + 1 /\ nextMailboxID \in Nat
          /\ \A u \in Threads : u # t => mailboxNum'[u] = mailboxNum[u]
          /\ \A u \in Threads : mailboxNum[u] \in Nat /\ (mailboxNum[u] # None => mailboxNum[u] < nextMailboxID)
      BY <1>0, <2>4 DEF ExecBox, Numbers
    <3>3. \A u \in Threads : mailboxNum'[u] # None => mailboxNum'[u] < nextMailboxID'
      BY <3>0
    <3>4. ASSUME NEW u \in Threads, NEW v \in Threads, u # v, mailboxNum'[u] # None
          PROVE  mailboxNum'[u] # mailboxNum'[v]
      <4>1. CASE u = t \/ v = t
        BY <3>0, <3>4, <4>1
      <4>2. CASE u # t /\ v # t
        BY <1>0, <3>0, <3>4, <4>2 DEF Numbers
      <4> QED BY <4>1, <4>2
    <3>1. Numbers'
      BY <1>0, <2>4, <3>3, <3>4 DEF ExecBox, Numbers
    <3>2. Members'
      BY <1>0, <2>4 DEF ExecBox, Members
    <3> QED BY <3>1, <3>2
  <2>5. CASE /\ UNCHANGED <<ids, nextThreadID, nextProcessID, nextMailboxID>>
             /\ \A u \in Threads : newProc'[u] \in {newProc[u], None}
             /\ \A u \in Threads : (pc'[u] \in {"none", "boot"}) <=> (pc[u] \in {"none", "boot"})
             /\ \A u \in Threads : pc'[u] = "boot" => pc[u] = "boot"
    <3>1. Numbers'
      BY <1>0, <2>5 DEF Numbers
    <3>2. Members'
      BY <1>0, <2>5 DEF Members
    <3> QED BY <3>1, <3>2
  <2>6. CASE Fault(t) \/ FaultIpt(t) \/ FaultFill(t)
    BY <1>0, <2>5, <2>6 DEF Fault, FaultIpt, FaultFill
  <2>7. CASE FaultEnd(t)
    BY <1>0, <2>5, <2>7 DEF FaultEnd
  <2>8. CASE Fork(t) \/ ForkTest(t) \/ ForkCopy(t) \/ Create_Kernel_Thread_Fork(t)
    BY <1>0, <2>5, <2>8 DEF Fork, ForkTest, ForkCopy, Create_Kernel_Thread_Fork
  <2>9. CASE Exec(t) \/ ExecRelease(t) \/ Create_Kernel_Thread_Exec(t)
    BY <1>0, <2>5, <2>9 DEF Exec, ExecRelease, Create_Kernel_Thread_Exec
  <2>10. CASE Exit(t) \/ ExitLast(t) \/ ExitProcess(t) \/ ExitLocks(t) \/ ExitConds(t)
    BY <1>0, <2>5, <2>10 DEF Exit, ExitLast, ExitProcess, ExitLocks, ExitConds
  <2>11. CASE ExitIpt(t) \/ ExitFrames(t) \/ ExitThread(t) \/ ExitStack(t) \/ ExitRelease(t)
    BY <1>0, <2>5, <2>11 DEF ExitIpt, ExitFrames, ExitThread, ExitStack, ExitRelease
  <2> QED BY <1>3, <2>1, <2>2, <2>3, <2>4, <2>6, <2>7, <2>8, <2>9, <2>10, <2>11 DEF Kernel
<1> QED BY <1>2, <1>3 DEF Next

-----------------------------------------------------------------------------
(* The counters                                                             *)

(* A step on which nobody joins, leaves or starts making a process.         *)
Quiet ==
    /\ UNCHANGED <<proc, numThreadsAlive, numLivingProcesses>>
    /\ halted' # "exit" /\ halted = "no"
    /\ \A u \in Threads :
          /\ InExec(u)' <=> InExec(u)
          /\ InExec(u) => newProc'[u] = newProc[u]
          /\ newProc'[u] # None => /\ newProc'[u] = newProc[u]
                                   /\ pc[u] = "execRelease" => pc'[u] = "execRelease"
          /\ pc'[u] \in LeftPlaces <=> pc[u] \in LeftPlaces
          /\ pc'[u] = "exitConds" => pc[u] \in {"exitLocks", "exitConds"}
          /\ pc'[u] = "boot" <=> pc[u] = "boot"

(* The faults and the steps of Fork, Exec and Exit that only take and give
   back locks change no counter and nobody's membership.                    *)
LEMMA QuietActions ==
    ASSUME Inv, NEW t \in Threads,
           \/ Fault(t) \/ FaultIpt(t) \/ FaultFill(t) \/ FaultEnd(t)
           \/ Fork(t) \/ ForkTest(t) \/ ForkCopy(t) \/ Create_Kernel_Thread_Fork(t)
           \/ Exec(t) \/ ExecRelease(t) \/ Create_Kernel_Thread_Exec(t) \/ ExecBox(t)
           \/ Exit(t) \/ ExitProcess(t) \/ ExitLocks(t) \/ ExitIpt(t)
           \/ ExitFrames(t) \/ ExitStack(t) \/ ExitRelease(t)
    PROVE  Quiet
<1> USE DEF At, TypeOK, ids, table, global, InExec, FaultPlaces, LeftPlaces
<1>0. TypeOK
  BY DEF Inv
<1>1. CASE Fault(t)
  BY <1>0, <1>1 DEF Fault, Quiet
<1>2. CASE FaultIpt(t) \/ FaultFill(t)
  BY <1>0, <1>2 DEF FaultIpt, FaultFill, Quiet
<1>3. CASE FaultEnd(t)
  BY <1>0, <1>3 DEF FaultEnd, Quiet
<1>4. CASE Fork(t) \/ ForkTest(t) \/ ForkCopy(t) \/ Create_Kernel_Thread_Fork(t)
  BY <1>0, <1>4 DEF Fork, ForkTest, ForkCopy, Create_Kernel_Thread_Fork, Quiet
<1>5. CASE Exec(t) \/ Create_Kernel_Thread_Exec(t) \/ ExecBox(t)
  BY <1>0, <1>5 DEF Exec, Create_Kernel_Thread_Exec, ExecBox, Quiet
<1>6. CASE ExecRelease(t)
  BY <1>0, <1>6 DEF ExecRelease, Quiet
<1>7. CASE Exit(t) \/ ExitProcess(t) \/ ExitLocks(t) \/ ExitIpt(t)
  BY <1>0, <1>7 DEF Exit, ExitProcess, ExitLocks, ExitIpt, Quiet
<1>8. CASE ExitFrames(t) \/ ExitStack(t) \/ ExitRelease(t)
  BY <1>0, <1>8 DEF ExitFrames, ExitStack, ExitRelease, Quiet
<1> QED BY <1>1, <1>2, <1>3, <1>4, <1>5, <1>6, <1>7, <1>8

(* Such a step keeps the counters exact.                                    *)
LEMMA QuietKeeps ==
    ASSUME Inv, Quiet
    PROVE  /\ Making' /\ Counts'
           /\ \A p : Living(p)' = Living(p)
<1>1. \A p : Living(p)' = Living(p)
  BY DEF Quiet, Living, LeftPlaces
<1>2. Counted' = Counted
  BY <1>1 DEF Quiet, Counted
<1>3. Making'
  BY DEF Inv, Making, Quiet
<1>4. Counts'
  BY <1>1, <1>2 DEF Inv, Counts, Quiet
<1> QED BY <1>1, <1>3, <1>4

(* The thread u joins process p: p has one more living thread and the others
   have the same.                                                           *)
LEMMA JoinLiving ==
    ASSUME TypeOK, NEW u \in Threads, NEW p \in Pids, Joins(u, p), pc[u] \in {"none", "boot"},
           proc[u] = None, pc'[u] \notin LeftPlaces,
           \A v \in Threads : v # u => (pc'[v] \in LeftPlaces <=> pc[v] \in LeftPlaces),
           (Living(p) # {} => numThreadsAlive[p] = Cardinality(Living(p))),
           (Living(p) = {} => numThreadsAlive[p] = 0)
    PROVE  /\ Living(p)' = Living(p) \cup {u} /\ u \notin Living(p)
           /\ \A q \in Pids : q # p => Living(q)' = Living(q) /\ numThreadsAlive'[q] = numThreadsAlive[q]
           /\ numThreadsAlive'[p] = Cardinality(Living(p)')
<1>0. None \notin Pids
  BY Constants
<1>1. proc'[u] = p /\ \A v \in Threads : v # u => proc'[v] = proc[v]
  BY DEF Joins, TypeOK
<1>2. Living(p)' = Living(p) \cup {u} /\ u \notin Living(p)
  BY <1>0, <1>1 DEF Living, LeftPlaces
<1>3. \A q \in Pids : q # p => Living(q)' = Living(q)
  BY <1>0, <1>1 DEF Living, LeftPlaces
<1>4. \A q \in Pids : q # p => numThreadsAlive'[q] = numThreadsAlive[q]
  BY DEF Joins, TypeOK
<1>5. IsFiniteSet(Living(p))
  BY Constants, FS_Subset DEF Living
<1>6. numThreadsAlive[p] = Cardinality(Living(p))
  BY FS_EmptySet
<1>7. Cardinality(Living(p) \cup {u}) = Cardinality(Living(p)) + 1
  BY <1>2, <1>5, FS_AddElement
<1>8. numThreadsAlive'[p] = numThreadsAlive[p] + 1
  BY DEF Joins, TypeOK
<1> QED BY <1>2, <1>3, <1>4, <1>6, <1>7, <1>8

(* The sets that are counted are finite.                                    *)
LEMMA FiniteCounted ==
    /\ IsFiniteSet(Counted) /\ IsFiniteSet(Counted')
    /\ \A p : IsFiniteSet(Living(p))
<1>1. Counted \in SUBSET Pids /\ Counted' \in SUBSET Pids /\ \A p : Living(p) \in SUBSET Threads
  BY DEF Counted, Living
<1> QED BY <1>1, Constants, FS_Subset

(* StartProcess makes the first process and its only thread.                *)
LEMMA StartProcessCounts ==
    ASSUME Inv, StartProcess
    PROVE  Making' /\ Counts' /\ LastLeaves' /\ Ends'
<1> USE DEF At
<1>0. TypeOK /\ None \notin Pids /\ None \in Nat /\ Pids = {p \in Nat : p < None}
  BY Constants DEF Inv
<1>1. 1 \in Threads /\ pc[1] = "boot" /\ nextProcessID = 0 /\ 0 \in Pids /\ halted = "no"
  BY <1>0, Constants DEF Inv, Members, StartProcess, TypeOK
<1>2. \A t \in Threads : proc[t] = None /\ pc[t] \in {"none", "boot"} /\ newProc[t] = None
  BY <1>0, <1>1 DEF Inv, Members, Numbers, TypeOK
<1>3. \A p \in Pids : Living(p) = {}
  BY <1>0, <1>2 DEF Living
<1>4. \A t \in Threads : ~InExec(t) /\ ~InExec(t)' /\ newProc'[t] = None
                         /\ pc'[t] \in {"none", "boot", "user"}
  BY <1>0, <1>2 DEF InExec, FaultPlaces, StartProcess, TypeOK
<1>5. Counted = {}
  BY <1>3, <1>4 DEF Counted
<1>6. numLivingProcesses = 0 /\ \A p \in Pids : numThreadsAlive[p] = 0
  BY <1>0, <1>1, <1>2, <1>5, FS_EmptySet DEF Inv, Counts
<1>7. /\ Living(0)' = Living(0) \cup {1}
      /\ \A q \in Pids : q # 0 => Living(q)' = Living(q) /\ numThreadsAlive'[q] = numThreadsAlive[q]
      /\ numThreadsAlive'[0] = Cardinality(Living(0)')
  <2>1. Joins(1, 0) /\ pc'[1] = "user" /\ \A v \in Threads : v # 1 => pc'[v] = pc[v]
    BY <1>0, <1>1 DEF StartProcess, TypeOK
  <2>2. pc'[1] \notin LeftPlaces /\ \A v \in Threads : v # 1 => (pc'[v] \in LeftPlaces <=> pc[v] \in LeftPlaces)
    BY <2>1 DEF LeftPlaces
  <2> QED BY <1>0, <1>1, <1>2, <1>3, <1>6, <2>1, <2>2, JoinLiving
<1>8. Counted' = {0}
  BY <1>1, <1>3, <1>4, <1>7 DEF Counted
<1>9. Making'
  BY <1>4 DEF Making
<1>10. Counts'
  <2>1. numLivingProcesses' = Cardinality(Counted')
    <3>1. numLivingProcesses' = 1
      BY <1>6 DEF StartProcess
    <3> QED BY <1>8, <3>1, FS_Singleton
  <2>2. proc'[1] = 0
    BY <1>0, <1>1 DEF StartProcess, Joins, TypeOK
  <2>3. \A p \in Pids : p # 0 => Living(p)' = {} /\ numThreadsAlive'[p] = 0
    BY <1>3, <1>6, <1>7
  <2> QED BY <1>1, <1>7, <2>1, <2>2, <2>3 DEF Counts
<1>11. LastLeaves'
  BY <1>4 DEF LastLeaves
<1>12. Ends'
  BY <1>1, <1>6 DEF StartProcess, Ends
<1> QED BY <1>9, <1>10, <1>11, <1>12

(* Fork adds a thread to a process that has one.                            *)
LEMMA ForkTakeCounts ==
    ASSUME Inv, NEW t \in Threads, ForkTake(t)
    PROVE  Making' /\ Counts' /\ LastLeaves' /\ Ends'
<1>0. TypeOK /\ None \notin Pids
  BY Constants DEF Inv
<1>1. PICK u \in Threads : u = NewThread /\ pc[u] = "none" /\ u # t
  BY NewThreadIsNew DEF ForkTake
<1>2. PICK p \in Pids : p = proc[t] /\ t \in Living(p) /\ proc[u] = None
  BY <1>0, <1>1 DEF Inv, Members, ForkTake, Living, TypeOK
<1>3. /\ halted = "no" /\ pc[t] = "forkTake" /\ Joins(u, p)
      /\ pc' = [pc EXCEPT ![t] = "user", ![u] = "forkStart"]
      /\ ret' = [ret EXCEPT ![t] = "user"] /\ UNCHANGED <<newProc, global, halted>>
  BY <1>1, <1>2 DEF ForkTake
<1>4. /\ pc'[u] = "forkStart" /\ pc'[t] = "user"
      /\ \A v \in Threads : v # u /\ v # t => pc'[v] = pc[v] /\ ret'[v] = ret[v]
      /\ \A v \in Threads : v # u => proc'[v] = proc[v]
      /\ proc'[u] = p
  BY <1>0, <1>1, <1>3 DEF Joins, TypeOK
<1>5. /\ Living(p)' = Living(p) \cup {u}
      /\ \A q \in Pids : q # p => Living(q)' = Living(q) /\ numThreadsAlive'[q] = numThreadsAlive[q]
      /\ numThreadsAlive'[p] = Cardinality(Living(p)')
  <2>1. Living(p) # {} /\ numThreadsAlive[p] = Cardinality(Living(p))
    BY <1>2 DEF Inv, Counts
  <2>2. \A v \in Threads : v # u => (pc'[v] \in LeftPlaces <=> pc[v] \in LeftPlaces)
    BY <1>3, <1>4 DEF LeftPlaces
  <2>3. pc'[u] \notin LeftPlaces
    BY <1>4 DEF LeftPlaces
  <2> QED BY <1>0, <1>1, <1>2, <1>3, <2>1, <2>2, <2>3, JoinLiving
<1>6. \A v \in Threads : (InExec(v)' <=> InExec(v)) /\ newProc'[v] = newProc[v]
  BY <1>1, <1>3, <1>4 DEF InExec, FaultPlaces
<1>7. Counted' = Counted
  <2>1. \A q \in Pids : Living(q)' # {} <=> Living(q) # {}
    BY <1>2, <1>5
  <2> QED BY <1>6, <2>1 DEF Counted
<1>8. Making'
  <2>1. \A v \in Threads : InExec(v) /\ newProc[v] # None => newProc[v] # p
    BY <1>2 DEF Inv, Making
  <2>2. \A v \in Threads : newProc[v] # None => v # t /\ v # u
    BY <1>1, <1>3 DEF Inv, Making, InExec, FaultPlaces
  <2>3. Making /\ halted' = halted
    BY <1>3 DEF Inv
  <2>4. ASSUME NEW v \in Threads, NEW w \in Threads, InExec(v), newProc[v] # None
        PROVE  proc'[w] # newProc[v] /\ (w # v => newProc'[w] # newProc[v])
    BY <1>4, <1>6, <2>1, <2>3, <2>4 DEF Making
  <2>5. \A v \in Threads : newProc[v] # None => pc'[v] = pc[v]
    BY <1>4, <2>2
  <2> QED BY <1>6, <2>3, <2>4, <2>5 DEF Making
<1>9. Counts'
  <2>1. numLivingProcesses' = Cardinality(Counted')
    BY <1>3, <1>7 DEF Inv, Counts, global
  <2>2. \A q \in Pids : (\A v \in Threads : proc'[v] # q) => q # p /\ \A v \in Threads : proc[v] # q
    BY <1>0, <1>1, <1>2, <1>4
  <2>3. \A q \in Pids : Living(q)' # {} => numThreadsAlive'[q] = Cardinality(Living(q)')
    <3>1. \A q \in Pids : Living(q) # {} => numThreadsAlive[q] = Cardinality(Living(q))
      BY DEF Inv, Counts
    <3> QED BY <1>5, <3>1
  <2> QED BY <1>5, <2>1, <2>2, <2>3 DEF Inv, Counts
<1>10. LastLeaves'
  <2> SUFFICES ASSUME NEW v \in Threads, pc'[v] \in {"exitLocks", "exitConds"}
               PROVE  Living(proc[v])' = {v} /\ numLivingProcesses' > 1 /\ proc'[v] = proc[v]
    BY DEF LastLeaves, Living
  <2>1. v # t /\ v # u /\ pc'[v] = pc[v] /\ proc'[v] = proc[v]
    BY <1>1, <1>4
  <2>2. Living(proc[v]) = {v} /\ numLivingProcesses > 1 /\ proc[v] \in Pids
    BY <1>0, <2>1 DEF Inv, LastLeaves, Members, TypeOK
  <2>3. proc[v] # p
    BY <1>2, <2>1, <2>2
  <2> QED BY <1>3, <1>5, <2>1, <2>2, <2>3 DEF global
<1>11. Ends'
  BY <1>1, <1>3, <1>4, Constants DEF Inv, Ends, global
<1> QED BY <1>8, <1>9, <1>10, <1>11

(* Exec takes the next process number, or stops the machine if there is none. *)
LEMMA ExecTakeCounts ==
    ASSUME Inv, NEW t \in Threads, ExecTake(t)
    PROVE  Making' /\ Counts' /\ LastLeaves' /\ Ends'
<1>0. /\ TypeOK /\ Making /\ Counts /\ LastLeaves /\ Ends /\ Numbers /\ halted = "no"
      /\ None \notin Pids /\ None \in Nat /\ Pids = {p \in Nat : p < None} /\ None = MAX_PROCESSES
  BY Constants DEF Inv, ExecTake, At
<1>1. /\ pc[t] = "execTake" /\ pc'[t] = "execName" /\ \A v \in Threads : v # t => pc'[v] = pc[v]
      /\ UNCHANGED <<ret, proc, numThreadsAlive>>
  BY <1>0 DEF ExecTake, At, TypeOK, ids, table
<1>2. \A p : Living(p)' = Living(p)
  BY <1>1 DEF Living
<1>3. InExec(t)' /\ newProc[t] = None /\ \A v \in Threads : v # t => (InExec(v)' <=> InExec(v))
  BY <1>0, <1>1 DEF InExec, FaultPlaces, Making
<1>4. nextProcessID \in Nat /\ nextProcessID <= None
  BY <1>0 DEF TypeOK
<1>5. /\ \A v \in Threads : proc[v] # nextProcessID \/ nextProcessID = None
      /\ \A v \in Threads : newProc[v] # nextProcessID \/ nextProcessID = None
  <2>1. \A v \in Threads : proc[v] \in Nat /\ newProc[v] \in Nat
    BY <1>0 DEF TypeOK
  <2> QED BY <1>0, <1>4, <2>1 DEF Numbers
<1>6. CASE nextProcessID = MAX_PROCESSES
  <2>1. halted' = "processes" /\ UNCHANGED <<newProc, numLivingProcesses>>
    BY <1>6 DEF ExecTake
  <2>2. Counted' = Counted
    <3>1. ASSUME NEW p \in Pids, NEW v \in Threads
          PROVE  InExec(v)' /\ newProc'[v] = p <=> InExec(v) /\ newProc[v] = p
      BY <1>0, <1>3, <2>1
    <3> QED BY <1>2, <3>1 DEF Counted
  <2>3. Making'
    BY <1>0, <1>1, <1>3, <2>1 DEF Making
  <2>4. Counts'
    BY <1>0, <1>1, <1>2, <2>1, <2>2 DEF Counts
  <2>5. LastLeaves'
    BY <1>0, <1>1, <1>2, <2>1 DEF LastLeaves
  <2> QED BY <1>1, <2>1, <2>3, <2>4, <2>5 DEF Ends
<1>7. CASE nextProcessID # MAX_PROCESSES
  <2>1. PICK n \in Pids : n = nextProcessID
    BY <1>0, <1>4, <1>7
  <2>2. /\ halted' = "no" /\ numLivingProcesses' = numLivingProcesses + 1 /\ newProc'[t] = n
        /\ \A v \in Threads : v # t => newProc'[v] = newProc[v]
    BY <1>0, <1>7, <2>1 DEF ExecTake, TypeOK
  <2>3. /\ \A v \in Threads : proc[v] # n /\ newProc[v] # n
        /\ Living(n) = {} /\ n \notin Counted
    BY <1>0, <1>5, <2>1 DEF Living, Counted
  <2>4. Counted' = Counted \cup {n}
    <3>1. ASSUME NEW p \in Pids
          PROVE  (\E v \in Threads : InExec(v)' /\ newProc'[v] = p)
                 <=> (p = n \/ \E v \in Threads : InExec(v) /\ newProc[v] = p)
      BY <1>0, <1>3, <2>2
    <3> QED BY <1>2, <3>1 DEF Counted
  <2>5. Cardinality(Counted') = Cardinality(Counted) + 1
    BY <2>3, <2>4, FiniteCounted, FS_AddElement
  <2>6. Making'
    <3>1. ASSUME NEW v \in Threads, NEW w \in Threads, InExec(v)', newProc'[v] # None
          PROVE  proc'[w] # newProc'[v] /\ (w # v => newProc'[w] # newProc'[v])
      BY <1>0, <1>1, <1>3, <2>2, <2>3, <3>1 DEF Making
    <3>2. \A v \in Threads : InExec(v)' => newProc'[v] # None
      BY <1>0, <1>3, <2>1, <2>2 DEF Making
    <3>3. \A v \in Threads : newProc'[v] # None => InExec(v)' \/ pc'[v] = "execRelease"
      BY <1>0, <1>1, <1>3, <2>2 DEF Making
    <3> QED BY <3>1, <3>2, <3>3 DEF Making
  <2>7. Counts'
    BY <1>0, <1>1, <1>2, <2>2, <2>5 DEF Counts
  <2>8. LastLeaves'
    <3>1. numLivingProcesses \in Nat
      BY <1>0 DEF TypeOK
    <3> QED BY <1>0, <1>1, <1>2, <2>2, <3>1 DEF LastLeaves
  <2>9. Ends'
    BY <1>0, <2>2 DEF Ends, TypeOK
  <2> QED BY <2>6, <2>7, <2>8, <2>9
<1> QED BY <1>6, <1>7

(* Exec's new thread is the first of the process that Exec has made.        *)
LEMMA ExecForkCounts ==
    ASSUME Inv, NEW t \in Threads, ExecFork(t)
    PROVE  Making' /\ Counts' /\ LastLeaves' /\ Ends'
<1>0. /\ TypeOK /\ Making /\ Counts /\ LastLeaves /\ Ends /\ Members
      /\ halted = "no" /\ None \notin Pids
  BY Constants DEF Inv, ExecFork
<1>1. PICK u \in Threads : u = NewThread /\ pc[u] = "none" /\ u # t
  BY NewThreadIsNew DEF ExecFork
<1>2. PICK p \in Pids : p = newProc[t] /\ proc[u] = None
  BY <1>0, <1>1 DEF Members, ExecFork, Making, InExec, TypeOK
<1>3. /\ pc[t] = "execName" /\ Joins(u, p)
      /\ pc' = [pc EXCEPT ![t] = "execRelease", ![u] = "execStart"]
      /\ ret' = [ret EXCEPT ![t] = "user"] /\ UNCHANGED <<newProc, numLivingProcesses, halted>>
  BY <1>1, <1>2 DEF ExecFork, global
<1>4. /\ pc'[u] = "execStart" /\ pc'[t] = "execRelease"
      /\ \A v \in Threads : v # u /\ v # t => pc'[v] = pc[v] /\ ret'[v] = ret[v]
      /\ \A v \in Threads : v # u => proc'[v] = proc[v]
      /\ proc'[u] = p
  BY <1>0, <1>1, <1>3 DEF Joins, TypeOK
<1>5. /\ InExec(t) /\ \A v \in Threads : proc[v] # p /\ (v # t => newProc[v] # p)
      /\ Living(p) = {} /\ numThreadsAlive[p] = 0
  <2>1. InExec(t) /\ \A v \in Threads : proc[v] # p /\ (v # t => newProc[v] # p)
    BY <1>0, <1>2, <1>3 DEF Making, InExec
  <2> QED BY <1>0, <2>1 DEF Counts, Living
<1>6. /\ Living(p)' = {u}
      /\ \A q \in Pids : q # p => Living(q)' = Living(q) /\ numThreadsAlive'[q] = numThreadsAlive[q]
      /\ numThreadsAlive'[p] = Cardinality(Living(p)')
  <2>1. \A v \in Threads : v # u => (pc'[v] \in LeftPlaces <=> pc[v] \in LeftPlaces)
    BY <1>3, <1>4 DEF LeftPlaces
  <2>2. pc'[u] \notin LeftPlaces
    BY <1>4 DEF LeftPlaces
  <2>3. /\ Living(p)' = Living(p) \cup {u}
        /\ \A q \in Pids : q # p => Living(q)' = Living(q) /\ numThreadsAlive'[q] = numThreadsAlive[q]
        /\ numThreadsAlive'[p] = Cardinality(Living(p)')
    <3>1. pc[u] \in {"none", "boot"} /\ Joins(u, p) /\ TypeOK
      BY <1>0, <1>1, <1>3
    <3> QED BY <1>2, <1>5, <2>1, <2>2, <3>1, JoinLiving
  <2> QED BY <1>5, <2>3
<1>7. ~InExec(t)' /\ newProc' = newProc /\ \A v \in Threads : v # t => (InExec(v)' <=> InExec(v))
  BY <1>1, <1>3, <1>4 DEF InExec, FaultPlaces
<1>8. Counted' = Counted
  <2>1. ASSUME NEW q \in Pids PROVE q \in Counted' <=> q \in Counted
    <3>1. CASE q = p
      BY <1>2, <1>5, <1>6, <3>1 DEF Counted
    <3>2. CASE q # p
      BY <1>2, <1>6, <1>7, <3>2 DEF Counted
    <3> QED BY <3>1, <3>2
  <2> QED BY <2>1 DEF Counted
<1>9. Making'
  <2>1. ASSUME NEW v \in Threads, NEW w \in Threads, InExec(v)', newProc[v] # None
        PROVE  proc'[w] # newProc[v] /\ (w # v => newProc[w] # newProc[v])
    BY <1>0, <1>4, <1>5, <1>7, <2>1 DEF Making
  <2>2. \A v \in Threads : newProc[v] # None => InExec(v)' \/ pc'[v] = "execRelease"
    <3>1. \A v \in Threads : newProc[v] # None => v # u
      BY <1>0, <1>1 DEF Making, InExec, FaultPlaces
    <3> QED BY <1>0, <1>4, <1>7, <3>1 DEF Making
  <2>3. \A v \in Threads : InExec(v)' => newProc[v] # None
    BY <1>0, <1>7 DEF Making
  <2> QED BY <1>7, <2>1, <2>2, <2>3 DEF Making
<1>10. Counts'
  <2>1. numLivingProcesses' = Cardinality(Counted')
    BY <1>0, <1>3, <1>8 DEF Counts
  <2>2. \A q \in Pids : (\A v \in Threads : proc'[v] # q) => q # p /\ \A v \in Threads : proc[v] # q
    BY <1>0, <1>1, <1>2, <1>4
  <2>3. \A q \in Pids : Living(q)' # {} => numThreadsAlive'[q] = Cardinality(Living(q)')
    BY <1>0, <1>6 DEF Counts
  <2> QED BY <1>0, <1>6, <2>1, <2>2, <2>3 DEF Counts
<1>11. LastLeaves'
  <2> SUFFICES ASSUME NEW v \in Threads, pc'[v] \in {"exitLocks", "exitConds"}
               PROVE  Living(proc[v])' = {v} /\ numLivingProcesses' > 1 /\ proc'[v] = proc[v]
    BY DEF LastLeaves, Living
  <2>1. v # t /\ v # u /\ pc'[v] = pc[v] /\ proc'[v] = proc[v]
    BY <1>1, <1>4
  <2>2. Living(proc[v]) = {v} /\ numLivingProcesses > 1 /\ proc[v] \in Pids
    BY <1>0, <2>1 DEF LastLeaves, Members, TypeOK
  <2> QED BY <1>3, <1>5, <1>6, <2>1, <2>2
<1>12. Ends'
  BY <1>0, <1>1, <1>3, <1>4, Constants DEF Ends
<1> QED BY <1>9, <1>10, <1>11, <1>12

(* When a thread t leaves process p, the other processes keep theirs.       *)
LEMMA LeaveLiving ==
    ASSUME TypeOK, NEW t \in Threads, NEW x \in LeftPlaces, pc[t] \notin LeftPlaces \cup FaultPlaces,
           pc[t] # "execName", proc[t] \in Pids, pc' = [pc EXCEPT ![t] = x],
           UNCHANGED <<ret, proc, newProc>>
    PROVE  /\ t \in Living(proc[t]) /\ Living(proc[t])' = Living(proc[t]) \ {t}
           /\ \A q : q # proc[t] => Living(q)' = Living(q)
           /\ ~InExec(t) /\ \A v \in Threads : InExec(v)' <=> InExec(v)
<1>1. pc'[t] = x /\ \A v \in Threads : v # t => pc'[v] = pc[v]
  BY DEF TypeOK
<1>2. t \in Living(proc[t]) /\ Living(proc[t])' = Living(proc[t]) \ {t}
  BY <1>1 DEF Living, LeftPlaces
<1>3. \A q : q # proc[t] => Living(q)' = Living(q)
  BY <1>1 DEF Living, LeftPlaces
<1>4. ~InExec(t) /\ \A v \in Threads : InExec(v)' <=> InExec(v)
  BY <1>1 DEF InExec, FaultPlaces, LeftPlaces
<1> QED BY <1>2, <1>3, <1>4

(* The last thread of the last process leaves nobody behind.                *)
LEMMA ExitLastCounts ==
    ASSUME Inv, NEW t \in Threads, ExitLast(t)
    PROVE  Making' /\ Counts' /\ LastLeaves' /\ Ends'
<1>0. TypeOK /\ Making /\ Counts /\ LastLeaves /\ Members /\ None \notin Pids
  BY Constants DEF Inv
<1>1. /\ pc[t] = "exit" /\ pc' = [pc EXCEPT ![t] = "done"] /\ halted = "no" /\ halted' = "exit"
      /\ UNCHANGED <<ret, newProc, proc, numThreadsAlive, numLivingProcesses>>
      /\ numLivingProcesses = 1 /\ numThreadsAlive[proc[t]] = 1
  BY DEF ExitLast, At, ids, table, global, LastThread
<1>2. PICK p \in Pids : p = proc[t]
  BY <1>0, <1>1 DEF Members, TypeOK
<1>3. /\ t \in Living(p) /\ Living(p)' = Living(p) \ {t}
      /\ \A q : q # p => Living(q)' = Living(q)
      /\ \A v \in Threads : InExec(v)' <=> InExec(v)
  <2>1. "done" \in LeftPlaces /\ pc[t] \notin LeftPlaces \cup FaultPlaces /\ proc'[t] = p
    BY <1>1, <1>2 DEF LeftPlaces, FaultPlaces
  <2> QED BY <1>0, <1>1, <1>2, <2>1, LeaveLiving
<1>4. Living(p) = {t}
  <2>1. Cardinality(Living(p)) = 1
    BY <1>0, <1>1, <1>2, <1>3 DEF Counts
  <2>2. PICK x : Living(p) = {x}
    BY <2>1, FiniteCounted, FS_Singleton
  <2> QED BY <1>3, <2>2
<1>5. Counted = {p}
  <2>1. Cardinality(Counted) = 1 /\ p \in Counted
    BY <1>0, <1>1, <1>3 DEF Counts, Counted
  <2>2. PICK x : Counted = {x}
    BY <2>1, FiniteCounted, FS_Singleton
  <2> QED BY <2>1, <2>2
<1>6. \A q \in Pids : Living(q)' = {}
  BY <1>3, <1>4, <1>5 DEF Counted
<1>7. \A v \in Threads : pc'[v] \notin {"exitLocks", "exitConds"}
  BY <1>0, <1>1 DEF LastLeaves, TypeOK
<1>8. \A v \in Threads : pc[v] = "execRelease" <=> pc'[v] = "execRelease"
  BY <1>0, <1>1 DEF TypeOK
<1>9. Making'
  BY <1>0, <1>1, <1>3, <1>8 DEF Making
<1>10. Counts'
  BY <1>0, <1>1, <1>6 DEF Counts
<1> QED BY <1>1, <1>6, <1>7, <1>9, <1>10 DEF LastLeaves, Ends

(* At most one thread is between the test of a last Exit and its end.       *)
LEMMA OneLeaves ==
    ASSUME Inv, NEW t \in Threads, NEW u \in Threads,
           pc[t] \in {"exitLocks", "exitConds"}, pc[u] \in {"exitLocks", "exitConds"}
    PROVE  t = u
<1>1. Holds(t, "processID") /\ Holds(u, "processID")
  BY DEF Inv, Held
<1> QED BY <1>1 DEF Holds

(* The last thread of a process counts the process off.                     *)
LEMMA ExitCondsCounts ==
    ASSUME Inv, NEW t \in Threads, ExitConds(t)
    PROVE  Making' /\ Counts' /\ LastLeaves' /\ Ends'
<1>0. TypeOK /\ Making /\ Counts /\ LastLeaves /\ Ends /\ Members /\ None \notin Pids
  BY Constants DEF Inv
<1>1. /\ pc[t] = "exitConds" /\ pc' = [pc EXCEPT ![t] = "exitIpt"] /\ halted = "no" /\ halted' = halted
      /\ UNCHANGED <<ret, newProc, proc, numThreadsAlive>>
      /\ numLivingProcesses' = numLivingProcesses - 1
  BY DEF ExitConds, At, ids, table
<1>2. PICK p \in Pids : p = proc[t] /\ Living(p) = {t}
  BY <1>0, <1>1 DEF Members, TypeOK, LastLeaves
<1>3. /\ Living(p)' = {} /\ \A q : q # p => Living(q)' = Living(q)
      /\ \A v \in Threads : InExec(v)' <=> InExec(v)
  <2>1. "exitIpt" \in LeftPlaces /\ pc[t] \notin LeftPlaces \cup FaultPlaces /\ proc'[t] = p
    BY <1>1, <1>2 DEF LeftPlaces, FaultPlaces
  <2> QED BY <1>0, <1>1, <1>2, <2>1, LeaveLiving
<1>4. \A v \in Threads : InExec(v) /\ newProc[v] # None => newProc[v] # p
  BY <1>0, <1>2 DEF Making
<1>5. p \in Counted /\ Counted' = Counted \ {p}
  <2>1. p \in Counted /\ p \notin Counted'
    BY <1>0, <1>1, <1>2, <1>3, <1>4 DEF Counted
  <2>2. \A q \in Pids : q # p => (q \in Counted' <=> q \in Counted)
    BY <1>1, <1>3 DEF Counted
  <2> QED BY <2>1, <2>2 DEF Counted
<1>6. Cardinality(Counted') = Cardinality(Counted) - 1
  BY <1>5, FiniteCounted, FS_RemoveElement
<1>7. \A v \in Threads : /\ pc'[v] \notin {"exitLocks", "exitConds"}
                         /\ pc[v] = "execRelease" <=> pc'[v] = "execRelease"
  BY <1>0, <1>1, OneLeaves DEF TypeOK
<1>8. Making'
  BY <1>0, <1>1, <1>3, <1>7 DEF Making
<1>9. Counts'
  BY <1>0, <1>1, <1>3, <1>6 DEF Counts
<1>10. numLivingProcesses' > 0
  BY <1>0, <1>1 DEF LastLeaves, TypeOK
<1> QED BY <1>1, <1>7, <1>8, <1>9, <1>10 DEF LastLeaves, Ends

(* A thread that is not the last of its process is counted off.             *)
LEMMA ExitThreadCounts ==
    ASSUME Inv, NEW t \in Threads, ExitThread(t)
    PROVE  Making' /\ Counts' /\ LastLeaves' /\ Ends'
<1>0. TypeOK /\ Making /\ Counts /\ LastLeaves /\ Ends /\ Members /\ None \notin Pids
  BY Constants DEF Inv
<1>1. /\ pc[t] = "exit" /\ pc' = [pc EXCEPT ![t] = "exitStack"] /\ halted = "no" /\ halted' = halted
      /\ UNCHANGED <<ret, newProc, proc, numLivingProcesses>>
      /\ numThreadsAlive[proc[t]] > 1
      /\ numThreadsAlive' = [numThreadsAlive EXCEPT ![proc[t]] = @ - 1]
  BY DEF ExitThread, At, ids, global
<1>2. PICK p \in Pids : p = proc[t]
  BY <1>0, <1>1 DEF Members, TypeOK
<1>3. /\ t \in Living(p) /\ Living(p)' = Living(p) \ {t}
      /\ \A q : q # p => Living(q)' = Living(q)
      /\ \A v \in Threads : InExec(v)' <=> InExec(v)
  <2>1. "exitStack" \in LeftPlaces /\ pc[t] \notin LeftPlaces \cup FaultPlaces /\ proc'[t] = p
    BY <1>1, <1>2 DEF LeftPlaces, FaultPlaces
  <2> QED BY <1>0, <1>1, <1>2, <2>1, LeaveLiving
<1>4. /\ numThreadsAlive[p] = Cardinality(Living(p)) /\ numThreadsAlive[p] \in Nat
      /\ numThreadsAlive'[p] = numThreadsAlive[p] - 1
      /\ \A q \in Pids : q # p => numThreadsAlive'[q] = numThreadsAlive[q]
  BY <1>0, <1>1, <1>2, <1>3 DEF Counts, TypeOK
<1>5. Cardinality(Living(p)') = numThreadsAlive'[p] /\ IsFiniteSet(Living(p)')
  BY <1>3, <1>4, FiniteCounted, FS_RemoveElement
<1>6. Living(p)' # {}
  <2>1. numThreadsAlive'[p] # 0
    BY <1>1, <1>2, <1>4
  <2> QED BY <1>5, <2>1, FS_EmptySet
<1>7. Counted' = Counted
  <2>1. \A q \in Pids : Living(q)' # {} <=> Living(q) # {}
    BY <1>3, <1>6
  <2> QED BY <1>1, <1>3, <2>1 DEF Counted
<1>8. Making'
  <2>1. \A v \in Threads : pc[v] = "execRelease" <=> pc'[v] = "execRelease"
    BY <1>0, <1>1 DEF TypeOK
  <2> QED BY <1>0, <1>1, <1>3, <2>1 DEF Making
<1>9. Counts'
  <2>1. \A q \in Pids : Living(q)' # {} => numThreadsAlive'[q] = Cardinality(Living(q)')
    BY <1>0, <1>3, <1>4, <1>5 DEF Counts
  <2>2. \A q \in Pids : (\A v \in Threads : proc'[v] # q) => numThreadsAlive'[q] = 0
    BY <1>0, <1>1, <1>2, <1>4 DEF Counts
  <2> QED BY <1>0, <1>1, <1>7, <2>1, <2>2 DEF Counts
<1>10. LastLeaves'
  <2> SUFFICES ASSUME NEW v \in Threads, pc'[v] \in {"exitLocks", "exitConds"}
               PROVE  Living(proc[v])' = {v} /\ numLivingProcesses' > 1 /\ proc'[v] = proc[v]
    BY DEF LastLeaves, Living
  <2>1. v # t /\ pc'[v] = pc[v] /\ proc'[v] = proc[v]
    BY <1>0, <1>1 DEF TypeOK
  <2>2. Living(proc[v]) = {v} /\ numLivingProcesses > 1
    BY <1>0, <2>1 DEF LastLeaves
  <2>3. proc[v] # p
    BY <1>3, <2>1, <2>2
  <2> QED BY <1>1, <1>3, <2>1, <2>2, <2>3
<1>11. Ends'
  BY <1>0, <1>1, Constants DEF Ends, TypeOK
<1> QED BY <1>8, <1>9, <1>10, <1>11

(* A quiet step keeps what the last Exit of a process has tested, and the
   last thread that begins to leave has tested it.                          *)
LEMMA QuietEnds ==
    ASSUME Inv, NEW t \in Threads, Quiet, TypeOK',
           \/ Fault(t) \/ FaultIpt(t) \/ FaultFill(t) \/ FaultEnd(t)
           \/ Fork(t) \/ ForkTest(t) \/ ForkCopy(t) \/ Create_Kernel_Thread_Fork(t)
           \/ Exec(t) \/ ExecRelease(t) \/ Create_Kernel_Thread_Exec(t) \/ ExecBox(t)
           \/ Exit(t) \/ ExitProcess(t) \/ ExitLocks(t) \/ ExitIpt(t)
           \/ ExitFrames(t) \/ ExitStack(t) \/ ExitRelease(t)
    PROVE  LastLeaves' /\ Ends'
<1>0. TypeOK /\ Counts /\ LastLeaves /\ Ends /\ Members /\ None \notin Pids
  BY Constants DEF Inv
<1>1. \A p : Living(p)' = Living(p)
  BY QuietKeeps
<1>2. UNCHANGED <<proc, numLivingProcesses>> /\ halted' # "exit" /\ halted = "no"
  BY DEF Quiet
<1>3. ASSUME NEW v \in Threads, pc'[v] = "exitLocks", pc[v] # "exitLocks"
      PROVE  Living(proc[v]) = {v} /\ numLivingProcesses > 1
  <2>1. v = t /\ ExitProcess(t)
    <3> USE DEF At, TypeOK
    <3>1. CASE \/ Fault(t) \/ FaultIpt(t) \/ FaultFill(t) \/ FaultEnd(t)
               \/ Fork(t) \/ ForkTest(t) \/ ForkCopy(t) \/ Create_Kernel_Thread_Fork(t)
      BY <1>0, <1>3, <3>1 DEF Fault, FaultIpt, FaultFill, FaultEnd, Fork, ForkTest, ForkCopy,
                              Create_Kernel_Thread_Fork
    <3>2. CASE \/ Exec(t) \/ ExecRelease(t) \/ Create_Kernel_Thread_Exec(t) \/ ExecBox(t)
               \/ Exit(t) \/ ExitLocks(t) \/ ExitIpt(t)
               \/ ExitFrames(t) \/ ExitStack(t) \/ ExitRelease(t)
      BY <1>0, <1>3, <3>2 DEF Exec, ExecRelease, Create_Kernel_Thread_Exec, ExecBox, Exit,
                              ExitLocks, ExitIpt, ExitFrames, ExitStack, ExitRelease
    <3>3. CASE ExitProcess(t)
      BY <1>0, <1>3, <3>3 DEF ExitProcess
    <3> QED BY <3>1, <3>2, <3>3
  <2>2. /\ pc[t] = "exit" /\ proc[t] \in Pids /\ numThreadsAlive[proc[t]] = 1
        /\ numLivingProcesses > 1
    BY <1>0, <2>1 DEF ExitProcess, At, LastThread, Members, TypeOK
  <2>3. t \in Living(proc[t])
    BY <2>2 DEF Living
  <2>4. Cardinality(Living(proc[t])) = 1
    BY <1>0, <2>2, <2>3 DEF Counts
  <2>5. PICK x : Living(proc[t]) = {x}
    BY <2>4, FiniteCounted, FS_Singleton
  <2> QED BY <2>1, <2>2, <2>3, <2>5
<1>4. LastLeaves'
  <2> SUFFICES ASSUME NEW v \in Threads, pc'[v] \in {"exitLocks", "exitConds"}
               PROVE  Living(proc[v]) = {v} /\ numLivingProcesses > 1
    BY <1>1, <1>2 DEF LastLeaves
  <2>1. pc'[v] = "exitConds" => pc[v] \in {"exitLocks", "exitConds"}
    BY DEF Quiet
  <2> QED BY <1>0, <1>3, <2>1 DEF LastLeaves
<1>5. halted' # "no" => pc'[t] = "forkCopy"
  <2> USE DEF At, TypeOK
  <2>1. CASE ForkTest(t)
    BY <1>0, <2>1 DEF ForkTest
  <2>2. CASE ~ForkTest(t)
    BY <1>2, <2>2 DEF Fault, FaultIpt, FaultFill, FaultEnd, Fork, ForkCopy,
            Create_Kernel_Thread_Fork, Exec, ExecRelease, Create_Kernel_Thread_Exec, ExecBox, Exit,
            ExitProcess, ExitLocks, ExitIpt, ExitFrames, ExitStack, ExitRelease
  <2> QED BY <2>1, <2>2
<1>6. Ends'
  <2>1. pc'[1] = "boot" <=> pc[1] = "boot"
    BY Constants DEF Quiet
  <2> QED BY <1>0, <1>2, <1>5, <2>1 DEF Ends
<1> QED BY <1>4, <1>6

(* The invariant is preserved by every step.                                *)
LEMMA InvStep ==
    ASSUME Inv, [Next]_vars
    PROVE  Inv'
<1>1. CASE UNCHANGED vars
  <2> USE <1>1 DEF vars, ids, table, global
  <2>1. TypeOK' /\ Held' /\ Members' /\ Numbers'
    BY DEF Inv, TypeOK, Held, Holds, InExec, Members, Numbers
  <2>2. (\A p : Living(p)' = Living(p)) /\ \A t \in Threads : InExec(t)' <=> InExec(t)
    BY DEF Living, InExec
  <2>3. Counted' = Counted
    BY <2>2 DEF Counted
  <2>4. Making' /\ Counts' /\ LastLeaves' /\ Ends'
    BY <2>2, <2>3 DEF Inv, Making, Counts, LastLeaves, Ends
  <2> QED BY <2>1, <2>4 DEF Inv
<1>2. CASE Next
  <2>1. TypeOK' /\ Held' /\ Members' /\ Numbers'
    BY <1>2, TypeStep, HeldStep, NumbersStep
  <2>2. CASE StartProcess
    BY <2>1, <2>2, StartProcessCounts DEF Inv
  <2>3. ASSUME NEW t \in Threads, Kernel(t) \/ Fault(t) \/ Fork(t) \/ Exec(t) \/ Exit(t)
        PROVE  Making' /\ Counts' /\ LastLeaves' /\ Ends'
    <3>1. CASE ForkTake(t)
      BY <3>1, ForkTakeCounts
    <3>2. CASE ExecTake(t)
      BY <3>2, ExecTakeCounts
    <3>3. CASE ExecFork(t)
      BY <3>3, ExecForkCounts
    <3>4. CASE ExitLast(t)
      BY <3>4, ExitLastCounts
    <3>5. CASE ExitConds(t)
      BY <3>5, ExitCondsCounts
    <3>6. CASE ExitThread(t)
      BY <3>6, ExitThreadCounts
    <3>7. CASE \/ Fault(t) \/ FaultIpt(t) \/ FaultFill(t) \/ FaultEnd(t)
               \/ Fork(t) \/ ForkTest(t) \/ ForkCopy(t) \/ Create_Kernel_Thread_Fork(t)
               \/ Exec(t) \/ ExecRelease(t) \/ Create_Kernel_Thread_Exec(t) \/ ExecBox(t)
               \/ Exit(t) \/ ExitProcess(t) \/ ExitLocks(t) \/ ExitIpt(t)
               \/ ExitFrames(t) \/ ExitStack(t) \/ ExitRelease(t)
      BY <2>1, <3>7, QuietActions, QuietKeeps, QuietEnds
    <3> QED BY <2>3, <3>1, <3>2, <3>3, <3>4, <3>5, <3>6, <3>7 DEF Kernel
  <2> QED BY <1>2, <2>1, <2>2, <2>3 DEF Inv, Next
<1> QED BY <1>1, <1>2

-----------------------------------------------------------------------------
(* The theorems                                                             *)

(* The invariant holds in every state the kernel can reach.                 *)
THEOREM InvHolds == Spec => []Inv
BY InvInit, InvStep, PTL DEF Spec

(* The machine halts when the last thread of the last process exits, not
   before and without fail, and no Exit finds counters at zero
   (exception.cc, Exit_Syscall).                                            *)
THEOREM HaltsExactlyAtEndHolds == Spec => []HaltsExactlyAtEnd
<1>1. Inv => HaltsExactlyAtEnd
  <2> SUFFICES ASSUME Inv PROVE HaltsExactlyAtEnd
    OBVIOUS
  <2>0. TypeOK /\ Counts /\ Ends /\ Members /\ None \notin Pids
    BY Constants DEF Inv
  <2>1. halted = "exit" => \A p \in Pids : Living(p) = {}
    BY <2>0 DEF Ends
  <2>2. (\A t \in Threads : pc[t] \in {"none", "done"}) => halted = "exit"
    <3> SUFFICES ASSUME \A t \in Threads : pc[t] \in {"none", "done"}, halted # "exit" PROVE FALSE
      OBVIOUS
    <3>1. halted = "no" /\ numLivingProcesses > 0
      BY <2>0, Constants DEF Ends, TypeOK
    <3>2. \A t \in Threads : ~InExec(t)
      BY DEF InExec, FaultPlaces
    <3>3. \A p \in Pids : Living(p) = {}
      BY <2>0 DEF Living, Members
    <3>4. Counted = {}
      BY <3>2, <3>3 DEF Counted
    <3> QED BY <2>0, <3>1, <3>4, FS_EmptySet DEF Counts
  <2>3. ASSUME NEW t \in Threads, pc[t] = "exit"
        PROVE  numThreadsAlive[proc[t]] >= 1 /\ numLivingProcesses >= 1
    <3>1. proc[t] \in Pids /\ t \in Living(proc[t])
      BY <2>0, <2>3 DEF Members, TypeOK, Living
    <3>2. proc[t] \in Counted /\ halted # "exit"
      BY <2>1, <3>1 DEF Counted
    <3>3. numThreadsAlive[proc[t]] = Cardinality(Living(proc[t])) /\ numLivingProcesses = Cardinality(Counted)
      BY <2>0, <3>1, <3>2 DEF Counts
    <3>4. Cardinality(Living(proc[t])) # 0 /\ Cardinality(Counted) # 0
      BY <3>1, <3>2, FiniteCounted, FS_EmptySet
    <3> QED BY <2>0, <3>1, <3>3, <3>4 DEF TypeOK
  <2> QED BY <2>1, <2>2, <2>3 DEF HaltsExactlyAtEnd
<1> QED BY <1>1, InvHolds, PTL

(* Threads of one process have disjoint stacks and threads that Exec started
   have mailboxes of their own (addrspace.cc, exception.cc: the numbers come
   from counters that only grow).                                           *)
THEOREM NothingSharedHolds == Spec => []NothingShared
<1>1. Inv => NothingShared
  <2> SUFFICES ASSUME Inv, NEW t \in Threads, NEW u \in Threads, t # u, proc[t] # None, proc[u] # None
               PROVE  /\ proc[t] = proc[u] => StackOf(t) \cap StackOf(u) = {}
                      /\ mailboxNum[t] # None => mailboxNum[t] # mailboxNum[u]
    BY DEF NothingShared
  <2>1. threadID[t] \in Nat /\ threadID[u] \in Nat /\ StackPages \in Nat
    BY ProcAssumption DEF Inv, TypeOK
  <2>2. ASSUME NEW i \in Nat, NEW j \in Nat, i < j
        PROVE  (StackEnd(i) - StackPages .. StackEnd(i) - 1) \cap (StackEnd(j) - StackPages .. StackEnd(j) - 1) = {}
    BY <2>1, <2>2, StacksApart
  <2>3. ASSUME proc[t] = proc[u] PROVE StackOf(t) \cap StackOf(u) = {}
    <3>1. threadID[t] < threadID[u] \/ threadID[u] < threadID[t]
      BY <2>1, <2>3 DEF Inv, Numbers
    <3> QED BY <2>1, <2>2, <3>1 DEF StackOf
  <2> QED BY <2>3 DEF Inv, Numbers
<1> QED BY <1>1, InvHolds, PTL
=============================================================================
