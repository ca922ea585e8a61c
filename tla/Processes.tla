------------------------------ MODULE Processes ------------------------------
(***************************************************************************)
(* Processes and their threads: StartProcess (userprog/progtest.cc), Fork, *)
(* Exec and Exit (userprog/exception.cc), the process table, thread and    *)
(* mailbox numbers, and the decision to halt the machine.                  *)
(*                                                                         *)
(* Locks are the FIFO locks of NachosSynch: the first of a lock's sequence *)
(* holds it.  An action is what a thread does between two places where     *)
(* interrupts come back on, the ends of Acquire and Release.  A page fault *)
(* (modelled in VirtualMemory) is here the locks that it takes: it can     *)
(* happen in the program and wherever the kernel copies from user memory.  *)
(***************************************************************************)
EXTENDS Naturals, Sequences, FiniteSets

CONSTANTS
    Threads,          \* kernel thread objects, in the order they are created
    MAX_THREADS,      \* threads one process may start
    MAX_PROCESSES,    \* processes that may be started
    StackPages,       \* UserStackSize / PageSize
    NumExecPages      \* numExecutablePages of every program

Pids == 0 .. MAX_PROCESSES - 1

ASSUME ProcAssumption ==
    /\ Threads = 1 .. Cardinality(Threads) /\ IsFiniteSet(Threads) /\ Threads # {}
    /\ {MAX_THREADS, MAX_PROCESSES, StackPages} \subseteq Nat \ {0}
    /\ NumExecPages \in Nat

VARIABLES
    pc,                  \* where each thread is
    ret,                 \* where a thread goes on after a page fault
    proc,                \* the process of a thread (t->space->processID)
    threadID,            \* t->threadID
    mailboxNum,          \* t->mailboxNum of the threads that Exec starts
    newProc,             \* the process that a thread in Exec is making
    nextThreadID, numThreadsAlive,  \* processTable
    nextProcessID, numLivingProcesses, nextMailboxID,
    locks,               \* queues of the kernel's locks
    pageTableLock,       \* queues of the lock of each address space
    halted               \* why the machine stopped, or "no"

table == <<nextThreadID, numThreadsAlive>>
global == <<nextProcessID, numLivingProcesses, nextMailboxID>>
ids == <<proc, threadID, mailboxNum>>
vars == <<pc, ret, newProc, ids, table, global, locks, pageTableLock, halted>>

None == MAX_PROCESSES

Init ==
    /\ pc = [t \in Threads |-> IF t = 1 THEN "boot" ELSE "none"]
    /\ ret = [t \in Threads |-> "user"]
    /\ proc = [t \in Threads |-> None]
    /\ threadID = [t \in Threads |-> 0]
    /\ mailboxNum = [t \in Threads |-> None]
    /\ newProc = [t \in Threads |-> None]
    /\ nextThreadID = [p \in Pids |-> 0]
    /\ numThreadsAlive = [p \in Pids |-> 0]
    /\ nextProcessID = 0 /\ numLivingProcesses = 0 /\ nextMailboxID = 0
    /\ locks = [l \in {"processID", "ipt", "lockTable", "mailboxID"} |-> <<>>]
    /\ pageTableLock = [p \in Pids |-> <<>>]
    /\ halted = "no"

At(t, from, to) == halted = "no" /\ pc[t] = from /\ pc' = [pc EXCEPT ![t] = to]
Acquire(t, l) == locks' = [locks EXCEPT ![l] = Append(@, t)]
Release(l) == locks' = [locks EXCEPT ![l] = Tail(@)]
Holds(t, l) == locks[l] # <<>> /\ Head(locks[l]) = t

(* The page past the stack of the thread with number id.                    *)
StackEnd(id) == NumExecPages + (id + 1) * StackPages

(* Thread u becomes the next thread of process p.                           *)
Joins(u, p) ==
    /\ proc' = [proc EXCEPT ![u] = p]
    /\ threadID' = [threadID EXCEPT ![u] = nextThreadID[p]]
    /\ nextThreadID' = [nextThreadID EXCEPT ![p] = @ + 1]
    /\ numThreadsAlive' = [numThreadsAlive EXCEPT ![p] = @ + 1]

-----------------------------------------------------------------------------
(* StartProcess: the only thread there is makes the first process.          *)
StartProcess ==
    /\ At(1, "boot", "user")
    /\ Joins(1, nextProcessID)
    /\ nextProcessID' = nextProcessID + 1
    /\ numLivingProcesses' = numLivingProcesses + 1
    /\ UNCHANGED <<ret, newProc, mailboxNum, nextMailboxID, locks, pageTableLock, halted>>

-----------------------------------------------------------------------------
(* HandlePageFault, seen from the locks.  Bound: a copy of a name faults
   once; more faults take the same locks in the same order.                 *)

Fault(t) ==
    /\ halted = "no"
    /\ pc[t] = "user" \/ (pc[t] \in {"forkCopy", "execName"} /\ ret[t] = "user")
    /\ ret' = [ret EXCEPT ![t] = pc[t]]
    /\ pc' = [pc EXCEPT ![t] = "fault"]
    /\ pageTableLock' = [pageTableLock EXCEPT ![proc[t]] = Append(@, t)]
    /\ UNCHANGED <<newProc, ids, table, global, locks, halted>>

FaultIpt(t) ==
    /\ At(t, "fault", "faultIpt")
    /\ Head(pageTableLock[proc[t]]) = t
    /\ Acquire(t, "ipt")
    /\ UNCHANGED <<ret, newProc, ids, table, global, pageTableLock, halted>>

FaultFill(t) ==
    /\ At(t, "faultIpt", "faultFill")
    /\ Holds(t, "ipt")
    /\ Release("ipt")
    /\ UNCHANGED <<ret, newProc, ids, table, global, pageTableLock, halted>>

FaultEnd(t) ==
    /\ At(t, "faultFill", ret[t])
    /\ pageTableLock' = [pageTableLock EXCEPT ![proc[t]] = Tail(@)]
    /\ UNCHANGED <<ret, newProc, ids, table, global, locks, halted>>

-----------------------------------------------------------------------------
(* Fork_Syscall                                                             *)

Fork(t) ==
    /\ At(t, "user", "forkTest")
    /\ Acquire(t, "processID")
    /\ UNCHANGED <<ret, newProc, ids, table, global, pageTableLock, halted>>

ForkTest(t) ==
    /\ Holds(t, "processID")
    /\ At(t, "forkTest", "forkCopy")
    /\ IF nextThreadID[proc[t]] = MAX_THREADS
       THEN halted' = "threads" /\ UNCHANGED locks
       ELSE Release("processID") /\ UNCHANGED halted
    /\ UNCHANGED <<ret, newProc, ids, table, global, pageTableLock>>

(* The name is copied in without the lock, which is then taken again.       *)
ForkCopy(t) ==
    /\ At(t, "forkCopy", "forkTake")
    /\ Acquire(t, "processID")
    /\ UNCHANGED <<ret, newProc, ids, table, global, pageTableLock, halted>>

NewThread == CHOOSE u \in Threads : pc[u] = "none" /\ \A v \in Threads : pc[v] = "none" => u <= v
SomeThread == \E u \in Threads : pc[u] = "none"

(* Deviation: the new thread takes its number and leaves the counter alone. *)
ForkTakeNoNext(t) ==
    /\ Holds(t, "processID") /\ SomeThread
    /\ halted = "no" /\ pc[t] = "forkTake"
    /\ pc' = [pc EXCEPT ![t] = "user", ![NewThread] = "forkStart"]
    /\ proc' = [proc EXCEPT ![NewThread] = proc[t]]
    /\ threadID' = [threadID EXCEPT ![NewThread] = nextThreadID[proc[t]]]
    /\ numThreadsAlive' = [numThreadsAlive EXCEPT ![proc[t]] = @ + 1]
    /\ ret' = [ret EXCEPT ![t] = "user"]
    /\ Release("processID")
    /\ UNCHANGED <<newProc, mailboxNum, nextThreadID, global, pageTableLock, halted>>

(* The numbers are taken, the lock is given back and t->Fork makes the new
   thread ready; the rest of the call touches nothing shared.               *)
ForkTake(t) ==
    /\ Holds(t, "processID") /\ SomeThread
    /\ halted = "no" /\ pc[t] = "forkTake"
    /\ pc' = [pc EXCEPT ![t] = "user", ![NewThread] = "forkStart"]
    /\ Joins(NewThread, proc[t])
    /\ ret' = [ret EXCEPT ![t] = "user"]
    /\ Release("processID")
    /\ UNCHANGED <<newProc, mailboxNum, global, pageTableLock, halted>>

Create_Kernel_Thread_Fork(u) ==
    /\ At(u, "forkStart", "user")
    /\ UNCHANGED <<ret, newProc, ids, table, global, locks, pageTableLock, halted>>

-----------------------------------------------------------------------------
(* Exec_Syscall                                                             *)

Exec(t) ==
    /\ At(t, "user", "execTake")
    /\ Acquire(t, "processID")
    /\ UNCHANGED <<ret, newProc, ids, table, global, pageTableLock, halted>>

(* The address space and the process number, with the lock held.            *)
ExecTake(t) ==
    /\ Holds(t, "processID")
    /\ At(t, "execTake", "execName")
    /\ IF nextProcessID = MAX_PROCESSES
       THEN halted' = "processes" /\ UNCHANGED <<newProc, nextProcessID, numLivingProcesses>>
       ELSE /\ newProc' = [newProc EXCEPT ![t] = nextProcessID]
            /\ numLivingProcesses' = numLivingProcesses + 1
            /\ nextProcessID' = nextProcessID + 1
            /\ UNCHANGED halted
    /\ UNCHANGED <<ret, ids, table, nextMailboxID, locks, pageTableLock>>

(* The name is copied in with the lock held; then the thread is made.       *)
ExecFork(t) ==
    /\ SomeThread
    /\ halted = "no" /\ pc[t] = "execName"
    /\ pc' = [pc EXCEPT ![t] = "execRelease", ![NewThread] = "execStart"]
    /\ ret' = [ret EXCEPT ![t] = "user"]
    /\ Joins(NewThread, newProc[t])
    /\ UNCHANGED <<newProc, mailboxNum, global, locks, pageTableLock, halted>>

ExecRelease(t) ==
    /\ At(t, "execRelease", "user")
    /\ Release("processID")
    /\ newProc' = [newProc EXCEPT ![t] = None]
    /\ UNCHANGED <<ret, ids, table, global, pageTableLock, halted>>

Create_Kernel_Thread_Exec(u) ==
    /\ At(u, "execStart", "execBox")
    /\ Acquire(u, "mailboxID")
    /\ UNCHANGED <<ret, newProc, ids, table, global, pageTableLock, halted>>

(* The mailbox number; then the registers are set and the program runs.     *)
ExecBox(u) ==
    /\ Holds(u, "mailboxID")
    /\ At(u, "execBox", "user")
    /\ mailboxNum' = [mailboxNum EXCEPT ![u] = nextMailboxID]
    /\ nextMailboxID' = nextMailboxID + 1
    /\ Release("mailboxID")
    /\ UNCHANGED <<ret, newProc, proc, threadID, nextThreadID, numThreadsAlive, nextProcessID,
                   numLivingProcesses, pageTableLock, halted>>

-----------------------------------------------------------------------------
(* Exit_Syscall                                                             *)

Exit(t) ==
    /\ At(t, "user", "exit")
    /\ Acquire(t, "processID")
    /\ UNCHANGED <<ret, newProc, ids, table, global, pageTableLock, halted>>

LastThread(t) == numThreadsAlive[proc[t]] = 1

ExitLast(t) ==
    /\ Holds(t, "processID")
    /\ At(t, "exit", "done")
    /\ numLivingProcesses = 1 /\ LastThread(t)
    /\ halted' = "exit"
    /\ UNCHANGED <<ret, newProc, ids, table, global, locks, pageTableLock>>

ExitProcess(t) ==
    /\ Holds(t, "processID")
    /\ At(t, "exit", "exitLocks")
    /\ numLivingProcesses > 1 /\ LastThread(t)
    /\ Acquire(t, "lockTable")
    /\ UNCHANGED <<ret, newProc, ids, table, global, pageTableLock, halted>>

ExitLocks(t) ==
    /\ Holds(t, "lockTable")
    /\ At(t, "exitLocks", "exitConds")
    /\ Release("lockTable")
    /\ UNCHANGED <<ret, newProc, ids, table, global, pageTableLock, halted>>

(* Deviation: the process is not counted off.                               *)
ExitCondsNoCount(t) ==
    /\ At(t, "exitConds", "exitIpt")
    /\ Release("processID")
    /\ UNCHANGED <<ret, newProc, ids, table, global, pageTableLock, halted>>

(* The conditions are freed (SyncSyscalls) and the process is counted off.  *)
ExitConds(t) ==
    /\ At(t, "exitConds", "exitIpt")
    /\ numLivingProcesses' = numLivingProcesses - 1
    /\ Release("processID")
    /\ UNCHANGED <<ret, newProc, ids, table, nextProcessID, nextMailboxID, pageTableLock, halted>>

ExitIpt(t) ==
    /\ At(t, "exitIpt", "exitFrames")
    /\ Acquire(t, "ipt")
    /\ UNCHANGED <<ret, newProc, ids, table, global, pageTableLock, halted>>

ExitFrames(t) ==
    /\ Holds(t, "ipt")
    /\ At(t, "exitFrames", "done")
    /\ Release("ipt")
    /\ UNCHANGED <<ret, newProc, ids, table, global, pageTableLock, halted>>

ExitThread(t) ==
    /\ Holds(t, "processID")
    /\ At(t, "exit", "exitStack")
    /\ numThreadsAlive[proc[t]] > 1
    /\ numThreadsAlive' = [numThreadsAlive EXCEPT ![proc[t]] = @ - 1]
    /\ Acquire(t, "ipt")
    /\ UNCHANGED <<ret, newProc, ids, nextThreadID, global, pageTableLock, halted>>

(* Deviation: the stack is freed with the iptLock kept until the end.       *)
ExitStackKeeps(t) ==
    /\ Holds(t, "ipt")
    /\ At(t, "exitStack", "exitRelease")
    /\ UNCHANGED <<ret, newProc, ids, table, global, locks, pageTableLock, halted>>

ExitStack(t) ==
    /\ Holds(t, "ipt")
    /\ At(t, "exitStack", "exitRelease")
    /\ Release("ipt")
    /\ UNCHANGED <<ret, newProc, ids, table, global, pageTableLock, halted>>

ExitRelease(t) ==
    /\ At(t, "exitRelease", "done")
    /\ Release("processID")
    /\ UNCHANGED <<ret, newProc, ids, table, global, pageTableLock, halted>>

-----------------------------------------------------------------------------
(* What a thread does once it is in the kernel.                             *)
Kernel(t) ==
    \/ FaultIpt(t) \/ FaultFill(t) \/ FaultEnd(t)
    \/ ForkTest(t) \/ ForkCopy(t) \/ ForkTake(t) \/ Create_Kernel_Thread_Fork(t)
    \/ ExecTake(t) \/ ExecFork(t) \/ ExecRelease(t)
    \/ Create_Kernel_Thread_Exec(t) \/ ExecBox(t)
    \/ ExitLast(t) \/ ExitProcess(t) \/ ExitLocks(t) \/ ExitConds(t) \/ ExitIpt(t)
    \/ ExitFrames(t) \/ ExitThread(t) \/ ExitStack(t) \/ ExitRelease(t)

(* Bound: a program starts a thread only while a thread object is left for
   every call that is under way.                                            *)
Starting ==
    {t \in Threads :
       \/ pc[t] \in {"forkTest", "forkCopy", "forkTake", "execTake", "execName"}
       \/ (pc[t] \in {"fault", "faultIpt", "faultFill"} /\ ret[t] # "user")}
ThreadsLeft == Cardinality({u \in Threads : pc[u] = "none"}) > Cardinality(Starting)

Next ==
    \/ StartProcess
    \/ \E t \in Threads : \/ Kernel(t)
                          \/ Fault(t)
                          \/ ThreadsLeft /\ Fork(t)
                          \/ ThreadsLeft /\ Exec(t)
                          \/ Exit(t)

Spec == Init /\ [][Next]_vars

(* The scheduler runs every ready thread again and again, and a thread in
   the kernel goes on when it runs.  Nobody is made to call.                *)
FairSpec == Spec /\ \A t \in Threads : WF_vars(Kernel(t))

-----------------------------------------------------------------------------
(* Properties                                                               *)

(* Threads that have been counted and have not been counted off.            *)
Living(p) == {t \in Threads : /\ proc[t] = p
                              /\ pc[t] \notin {"exitIpt", "exitFrames", "exitStack", "exitRelease", "done"}}

(* The machine halts when the last thread of the last process exits, not
   before and without fail; no Exit falls into the branch that prints
   "Unknown Exit status" (exception.cc:1165).                               *)
HaltsExactlyAtEnd ==
    /\ halted = "exit" => \A p \in Pids : Living(p) = {}
    /\ (\A t \in Threads : pc[t] \in {"none", "done"}) => halted = "exit"
    /\ \A t \in Threads : pc[t] = "exit" /\ Holds(t, "processID") =>
           numThreadsAlive[proc[t]] >= 1 /\ numLivingProcesses >= 1

(* Threads of one process never share a page of stack (the stack of thread
   i is the StackPages pages below StackEnd(i)), and threads that Exec
   started never share a mailbox, where each waits for its own answers.     *)
StackOf(t) == StackEnd(threadID[t]) - StackPages .. StackEnd(threadID[t]) - 1
NothingShared ==
    \A t, u \in Threads : t # u /\ proc[t] # None /\ proc[u] # None =>
        /\ proc[t] = proc[u] => StackOf(t) \cap StackOf(u) = {}
        /\ mailboxNum[t] # None => mailboxNum[t] # mailboxNum[u]

(* Every system call and fault ends, unless the machine halts: the locks are
   taken in an order that no two threads can turn into a circle.            *)
CallsEnd ==
    \A t \in Threads : pc[t] \notin {"boot", "none", "user", "done"} ~>
        pc[t] \in {"user", "done"} \/ halted # "no"

=============================================================================
