# Nachos for CS 402: a TLA+ verification project

The repository is a Nachos kernel extended, over four assignments, with locks
and condition variables, multiprogrammed user processes and threads, demand-
paged virtual memory with an inverted page table and a TLB, and a distributed
lock / condition / monitor-variable server replicated over several Nachos
instances; under them are the simulated machine, its devices and the file system
of Nachos.  This directory holds TLA+ models of these parts, the TLC
configurations that check them on small instances, and TLAPS proofs of the most
important results.

Run from this directory: `tlc -config MCMonitor.cfg MCNachosSynch`, `tlapm
NachosSynchProofs.tla`, and so on for the pairs listed under "Runs".
`PROJECT.json` maps every definition to the lines it models.

## Inventory

| Part | Source (`code/`) | State | Operations | What makes it correct |
|---|---|---|---|---|
| Threads, scheduler | `threads/thread.cc`, `scheduler.cc` | current thread, ready list, status, carcass | Fork, Yield, Sleep, Finish, Run | nobody is lost, FIFO dispatch, finished threads are freed |
| Synchronisation | `threads/synch.cc` | lock state / owner / queue, condition queue / remembered lock, semaphore value | P, V, Acquire, Release, Wait, Signal, Broadcast | mutual exclusion, no lost wake-up, no starvation |
| User lock and CV tables | `userprog/exception.cc` | `lockTable`, `conditionTable`, bit maps, `acquireCount`, `isToBeDeleted` | nine system calls | no call reaches a freed object, processes are isolated |
| Processes | `userprog/exception.cc`, `addrspace.cc` | `processTable`, thread counts, stacks, `freePages` | Exec, Fork, Exit | the machine halts exactly when the last thread exits, stacks do not overlap |
| Virtual memory | `userprog/exception.cc`, `addrspace.cc`, `machine/translate.cc` | TLB, inverted page table, page tables, swap file | page fault, eviction, context switch, Exit | one frame per page, the TLB agrees with the tables, dirty data survives eviction |
| Mail | `network/post.cc`, `machine/network.cc`, `threads/synchlist.cc` | sender's lock and semaphore, one-packet buffer, mailboxes | Send, Receive, PostalDelivery, completion and poll interrupts | mailboxes are channels in order, Send returns although packets are lost |
| Lock server: creation | `network/server.cc` | name tables, pending creates, mail | CREATE_LOCK / CV / MV and the queries between servers | one resource per name in the whole system, every client answered |
| Lock server: use | `network/server.cc`, ServerLock / ServerCondition in `synch.cc` | server locks, CVs, MVs, pending queries, CV/lock transactions | ACQUIRE, RELEASE, WAIT, SIGNAL, BROADCAST, GET / SET, DESTROY | mutual exclusion between clients, every client answered |
| Client stubs | `userprog/exception.cc` (`NETWORK`) | one outstanding request per thread | one remote call per system call | the answer read belongs to the request sent |
| Interrupts, timer | `machine/interrupt.cc`, `timer.cc` | simulated time, pending interrupts | Schedule, OneTick, CheckIfDue, Idle, handlers | the machine stops only when nothing is left to do |
| Disk, console | `machine/disk.cc`, `console.cc`, `filesys/synchdisk.cc`, `userprog/synchconsole.cc` | head, track buffer, one-character buffer, locks and semaphores | ReadSector, WriteSector, ReadLine, WriteLine | each request ends, after the time the disk needs; lines stay whole |
| Processor | `machine/mipssim.cc`, `machine.cc` | registers, delayed load, memory | OneInstruction, traps | a program runs as on the processor it was compiled for |
| File system | `filesys/*.cc`, Table in `userprog/addrspace.cc` | sectors, bit map, directory, headers, open files | Create, Open, Read, Write, Seek, Close, Remove, restart | files are byte strings, no sector is lost or shared |
| Supermarket | `test/*.c`, `threads/threadtest.cc` | application monitors | customers, salesmen, loaders, cashiers, managers | everybody gets home |

The parts interact by calls inside one instance and by mail between instances:
a system call enters `exception.cc`, takes kernel locks or turns interrupts
off, and either uses the objects of `synch.cc` or sends one request to a server
picked at random (`pickServer`) and sleeps in `PostOffice::Receive` until an
answer comes.  A server runs two threads: mailbox 0 for clients, mailbox 1 for
the other servers.  The two share every table of the server.

What is hard here: the timer can switch threads at any instruction executed
with interrupts on; a routine that sleeps finds the world changed; two server
threads and several servers answer one another while each has requests of its
own pending; objects are freed while others sleep on them; and a number of
fields are used before they are initialised.

## Modules

| Module | Models | Checked by | Proved in |
|---|---|---|---|
| `NachosSynch` | threads, scheduler, Semaphore, Lock, Condition | `MCNachosSynch` | `NachosSynchProofs` |
| `SyncSyscalls` | the nine lock and condition system calls and their tables | `MCSyncSyscalls` | `SyncSyscallsProofs`, `SyncSafetyProofs` |
| `VirtualMemory` | page faults, eviction, swap, TLB, what Exit frees | `MCVirtualMemory` | `VirtualMemoryProofs` |
| `Processes` | StartProcess, Fork, Exec, Exit, the counts, the kernel's locks | `MCProcesses` | `ProcessesProofs` |
| `Mail`, `MailChannel` | post office, network device, mailboxes; what they promise | `MCMail` | |
| `Devices` | interrupts, timer, disk, console | `MCDevices` | `DevicesProofs` |
| `FileSystem`, `FileStore` | files over sectors; what they promise | `MCFileSystem` | `FileSystemProofs` |
| `MipsSim`, `MipsIsa` | the processor simulator; the processor | `MCMipsSim` | |
| `ServerMail` | the mail that the two modules of the server share | | |
| `ServerCreate` | creation by name in the replicated server | `MCServerCreate` | |
| `ServerUse` | use of locks, conditions and variables of the server, client stubs | `MCServerUse` | `ServerUseProofs` |

Operators named "...Not", "...Always", "...FromOne" and so on, introduced by a
comment "Deviation: ...", are wrong variants of the operator that follows.  They
are not part of the specification: substituting one for its operator must
break the property that `PROJECT.json` names under "mutants".

### NachosSynch

The routines of `thread.cc`, `scheduler.cc` and `synch.cc` run with interrupts
off, so each is one action up to `Thread::Sleep`.  `Sleep` gives the CPU to the
head of `readyList` (`Run`); the rest of the routine (`ResumeP`,
`ResumeAcquire`, `ResumeWait`, `ResumeYield`, `Start`) is an action of the
thread when it is dispatched again.  `kpc` says in which routine a thread
sleeps and `karg` on which object.  `Yield` stands both for the call and for a
timer tick.  `InterruptV` is a V by a device handler, the only wake-up that
comes without a running thread.  `currentThread = NoThread` is the idle loop in
`Sleep`.  The programs are arbitrary: any thread calls any routine on any
object, including calls that the code rejects with a message.

Fields the constructors leave uninitialised are chosen in `Init` from
`FreshOwner` and `FreshWaitingLock`.  `holds` is a history variable: the locks a
thread's program believes it holds, from its own calls; `MutualExclusion`
compares the programs' beliefs, not the lock's fields.

### SyncSyscalls

The tables, the bit maps and the objects they point to.  Lock and Condition are
used here by what they do (FIFO queues, hand-over), as proved for
`NachosSynch`.  Most calls turn interrupts off and are atomic up to a sleep;
`Create` and `Exit` leave them on and are split at every Acquire and Release
of `lockTableLock`, `conditionTableLock` and `processIDLock`, which includes the
window in `CreateLock` between finding an index and filling its entry
(`Find`, `InitEntry`).  Addresses are never reused and a freed object keeps its
contents; the first access to one sets `freedUse` and ends the behaviour.
`style` is the kind of programs of a behaviour, chosen once from `Styles`: the
calls they make and, in `waived`, the rules of good use they break (passing stale
indices, releasing what they do not hold, destroying objects in use, several
waiters on a destroyed condition, destroying a condition whose woken waiter has not
come back from Wait, exiting after a destroy).

### VirtualMemory

`Fault`, `Scan`, `TakeFree`, `ChooseVictim`, `WriteOut`, `Load` and `Fill` are the
stretches of `HandlePageFault`, `Evict` and `HandleIPTMiss` between two places
where interrupts come on.  `Switch` is `Scheduler::Run` with the flush of
`SaveState`.  `Write` is a store of the program that hits the TLB.  A page's
contents are the number of the last write to it (`latest` keeps the truth), so
that `WrittenDataSurvives` says that a program reads back what it wrote, over
eviction, reload and context switches (which the code does not achieve), and `PagesNotMixed`
that it reads something it once wrote to that page.  `ExitProcess` and `ExitThread` are
what `Exit_Syscall` gives back; `Exits` says when a program may call it.  `dead` stands for a machine that spins in
`Evict` with interrupts off or fails to write the swap file.

### ServerCreate

Each server has mailbox 0 (`Box0Create`) and mailbox 1 (`Box1Create`,
`Question`, `Found`, `Denied`, `StrayDenial`).  The messages of one machine to
one mailbox stay in order; those of different machines interleave freely.
`pendingCreates` holds the records of class `PendingCreate` with the field
names of the source.  `StrayDenial` is a denial that arrives after the create
was settled by a HAVE: `temp` is used uninitialised, so the server ignores it,
crashes (`down`) or, if `temp` still holds a create that had all its denials
(`created`; they are not freed), carries that out again: it enters a name that was
overwritten by the answers sent before (`Recreated`), sends those answers once more, now to
itself (`AnnouncedAgain`, `DropUntyped`), and erases the pending create at an uninitialised
index; `forgotten` keeps the clients that waited in it.  `MaxAsks` bounds the calls of each
client for each name.  One kind of object is modelled at a time (`Kind`): the kinds share
the handlers' shape, differ in the table they use, and `isAMatch` keeps them
apart.  Names are model values: clients pass a length that includes the
terminating zero (`sizeof`), as most programs under `code/test` do.

### ServerUse

`Call` is a stub up to `PostOffice::Receive`, `Return` and `Reacquire` what it
does with the answer; the server is picked at random in the code and freely in
the model.  Each `case` of `Server()` is an action, split where the code
branches on who has the object: `PassOn` and `PassOnCV` hand the request to the
other thread of the same server, `AskOwner` puts a CV operation off until the
server of its lock has answered (`DoesClientHaveLock`, `Validated`).  Mailbox 1
is `Query`, `Answer`, `Found` and `NotFound`.  `lock`, `cond` and `mv` stand for the
tables of all servers, by encoded number; `Mine` and `decodeIndex` keep apart
whose they are.  What a handler sends is a function from mailboxes to the messages for
each (`Handle` appends them to the channels): `Nothing`, `Only(y)`, the `Replies` to
a sequence of clients, or a question to each other server.  A condition remembers the *index* of a local lock and the
*number* of a remote one, as the code does.  A monitor variable has one entry.
`holds` and `retired` are history variables: the locks that a client was told it
has, and the objects it has destroyed (`Sensible` programs do not use these
again, except in a late Signal or Broadcast).

### Processes

The counts in `processTable`, the numbers given to processes, threads and
mailboxes, and the queues of `processIDLock`, `lockTableLock`, `iptLock`,
`mailboxIDLock` and of each address space's page table lock.  A system call is
split at every Acquire and Release, and a page fault (only the locks it takes;
`VirtualMemory` has the rest) can happen in the program and where `Fork` and
`Exec` copy a name from user memory, the latter with `processIDLock` held.  `halted`
says which of the two exits of `Exit_Syscall` stopped the machine.

### Mail

`Send` to `SendReturn` are `PostOffice::Send` between two places where interrupts
come on; `NetworkSend` schedules the completion interrupt, then loses the packet
by chance or gives it to a socket.  `CheckPktAvail` and `SendDone` are the
handlers.  `MessageAvailableP` to `PutRelease` are the loop of the postal worker,
`Receive` to `ReceiveReturn` a reader of a mailbox with the loop of
`SynchList::Remove` around Wait.  `MailChannel` is what the lock server assumes of
it (`ServerMail` starts from the same): a queue per mailbox from which the oldest
message is taken, and a send that may lose its message.  `ImplementsChannel` maps
the queue to the mailbox list, the message in the worker's hands, the one in the
device and those in the socket.

### Devices

`clock` runs with `OneTick`; the pending list is a sequence ordered by
`SortedInsert`.  `phase` is where the machine is between instructions: a thread,
`CheckIfDue` or its loop from `Idle`.  Times in the list are kept relative to now, so
that the state space is finite.  The threads compute, read or write a sector
(`DiskCall` ... `DiskRelease`), and read or write a line.  An odd detail is kept:
`CheckIfDue` puts the head back by `SortedInsert` when it is not due, which moves
it behind other interrupts of the same time.

### FileSystem

Sectors hold a header, the bit map, the directory or bytes.  Every system call
is one action, the failures of Create (no entry, no header sector, no
data sectors) one of their own; `Restart` is a machine that stops after a
call and mounts the disk again.  `WriteAt` keeps the code's buffer: sectors that are written in part are
read back first, what is left of the buffer is junk.  `FileStore` is a function
from names to byte strings with open files that have a position;
`ImplementsStore` maps headers and sectors to strings.

### MipsSim

The `switch` of `OneInstruction`, by groups of cases, over words of `W` bits.  The
simulator applies a load one instruction late through `LoadReg`; `MipsIsa` is the
processor with loads that are done at once, integers for overflow,
multiplication and division, and no simulation of carries.  `ImplementsLooseIsa` maps
the registers to those with the load in progress carried out (`Settled`).  The code
does not implement that processor: OR, SRL and SRLV compute something else and
DIV of the smallest number by -1 stops the host (`DivideTraps`).  So the property is a
refinement to a processor on which the results of these are open (`Faulty`): everything
else about them, and all the other instructions, are as they should be.  `Syscall`,
`PageFault` and `DueInterrupt` are the traps.  The programs are `WellScheduled`,
as a compiler for a processor with load delays makes them: no instruction uses a register
in the slot after its load.

## Runs

| Run | Configuration | Question |
|---|---|---|
| monitor | `MCMonitor` / `MCNachosSynch` | do arbitrary programs keep the kernel's promises? |
| monitor_live | `MCMonitorLive` | does everybody who waits for a lock, or was signalled, get on? |
| sync | `MCSync` / `MCSyncSyscalls` | are create, use and deferred deletion safe for programs that follow the rules, and are processes isolated whatever indices they pass? |
| paging | `MCPaging` / `MCVirtualMemory` | is paging correct in every interleaving, with exits while nobody is in a fault; when does the machine stop, does every fault end? |
| processes | `MCProcesses` | does the machine halt exactly at the end, are numbers unique, can the locks deadlock? |
| create | `MCCreate` / `MCServerCreate` | three clients at three servers: one object, one answer, and who is not answered? |
| use | `MCUse` / `MCServerUse` | mutual exclusion and one answer per request, through any server; which requests are given up? |
| mail | `MCMail` | is a mailbox a channel, does Send return, is the mail read? |
| devices | `MCDevices` | when does the machine stop, are devices started only when idle, latencies right, lines whole, requests answered? |
| filesys | `MCFileSystem` | are files byte strings, is space exact? |
| mips | `MCMipsSim` | is the simulator the processor, but for the results of OR, SRL, SRLV and one DIV? |

These pass.  A run that switches deadlock checking off models programs that may
end, or sleep until an interrupt that need not come.  One more run must fail:

- paging_tlb (`MCPagingTLB` / `MCVirtualMemory`): `WrittenDataSurvives` states what the comment at
  `exception.cc:1435` wants the dirty bit saved for.  Evict (`exception.cc:1315`) keeps the bit of the
  TLB entry it drops only if another entry, the one at `currentTLB`, is valid.
  With the code's four TLB entries, after a context switch, a written page is evicted as
  clean and the write is lost.

The other places where the code does not do what its comments say are under "Read off
the models", each with the constants under which TLC shows it.

**What the properties say.**

- `NoThreadLost`, `MutualExclusion`, `NoUnitStranded`, `HandoverInOrder`,
  `ReturnsOwning`, `AcquireReturns`, `SignalledReturns`: the
  kernel's locks, conditions and semaphores, for arbitrary programs.
- `NoFreedObjectUsed`, `NobodyStranded`, `MarkedIsDeletedLater`, `Isolation`: no
  call reaches a freed object, nobody sleeps on one, a destroyed object is
  freed by the last who uses it, and a process reaches only its own.
- `OneLoaderPerFrame`, `OneFramePerPage`, `TranslationsOwn`, `PagesNotMixed`,
  `BitmapExact`, `StopsOnlyWhenFull`, `FaultsEnd`: paging.
- `HaltsExactlyAtEnd`, `NothingShared`, `CallsEnd`: the counts are exact in every
  order of Fork, Exec and Exit; no two threads share a stack or a mailbox; every
  call and fault ends.
- `OneObjectPerName`, `OneAnswerPerRequest`, `StuckOnlyInCircles`, `HoldersOwn`,
  `GivenUpRightly`, `SleepersGaveUpLock`: the replicated server.  That every Create is answered
  is false of the code (`server.cc:835` below): `StuckOnlyInCircles` says that when all mail is read
  a create is still pending only where another pending create keeps back an answer from it, so that
  nothing but the circle of deferrals keeps a client waiting.  That a request is given up
  only if its object is gone is false for index 0 (`server.cc:935` below): `GivenUpRightly` excepts it.
- `ImplementsChannel`, `SendReturns`, `EveryMailRead`: mail.
- `HaltsOnlyWhenDone`, `OneRequestAtATime`, `LatencyExact`, `LinesWhole`, `RequestsReturn`:
  the machine never stops with a thread that waits for a device; the assertions that
  a device is idle when it is started hold; the latency computed is the
  time until the sector has passed under the head, or the track buffer has it.
- `SpaceExact`, `ImplementsStore`: each marked sector belongs to exactly one file,
  failures give back what they took, and files are the strings of `FileStore`.
- `ImplementsLooseIsa`: see above.

**Bounds and why they are enough.**  `monitor`: four threads (three forked and
interchangeable, and the main thread), two locks, one condition and one
semaphore of at most 2.  Three threads suffice for a holder, one in the queue
and one that barges in; the fourth is the signaller; two locks are needed for
the wrong-lock errors of Wait.  The proofs lift the bounds here, and those of
`sync`, `paging`, `processes`, `use`, `devices` and `filesys` for the properties listed
under "Proofs".
`sync`: three threads of one process and one of another compete for the indices,
which are reused while others still refer to them; the programs are careful (they
destroy) or wild (any index, unbalanced releases, exits at any time, no Destroy).
`paging`: two threads of one process and one of another, pages of
executable and stack, two frames: every load past the second evicts, and the
victim may belong to the faulting thread, its sibling or another process.  The TLB has
two entries, so that the victim may be in an entry that is not at `currentTLB` (what holds with
any number of entries is proved), and the swap file one slot, so that it is full while there are
pages to save.  Stacks have two pages so that the exit of a thread frees something;
no process exits during the fault of another, because then the frees of Exit go wrong
(`exception.cc:1121` below).  No page is written but by the faults that bring it in; the
stores are in `paging_tlb`, with two threads, the code's four TLB entries and one write of each page.
`processes`: four threads and two processes of which one can
have three threads; a call faults at most once, which already holds each
lock while another thread wants it.
`create`: three servers, so that a create needs two denials and one of them can be late, and
three clients, so that there can be a create pending at every server and
circles of two and three servers happen.  All create one name and the first also another, before or
after, so that calls meet creates settled earlier, and a late denial finds another create to
carry out again and one to erase; it reaches `forgotten`.
`use`: two servers, one lock, a condition with it and one at the other server,
two variables, of which one is the first object of its server, with index 0; the programs are two and
three calls long, so that a waiter, its waker and a destroy meet in every
order.  With one lock nobody names a wrong one (`Spins`), and its condition is at the lock's
server, since otherwise the release is refused (`server.cc:1767` below).  The proofs have any number of
servers, where a query hears denials and answers in any order.
`mail`: two senders with three packets and two readers of one mailbox, and a
machine that does not listen: two packets in the socket meet a full device, two readers
compete for one message.  `devices`: two threads with a call each under a
random time slice, two tracks of two sectors, lines and a buffer of two characters; times of a
few ticks, so that interrupts of two devices fall due both together and apart.  `filesys`:
three names for a directory of two entries, eight sectors of two bytes, four of which the
file system itself takes, files of one and of two sectors: each kind of failure of
Create happens, and writes begin and end inside sectors.  `mips`: 8-bit words, every
pair of seventeen operands (0, 1, -1, the largest and smallest of each sign and
some between) for each arithmetic instruction, and short programs of loads,
stores, branches in either direction, jumps and system calls, with traps and
interrupts at every instruction.

**Fairness.**  `monitor_live` assumes that the running thread goes on inside
the kernel (weak fairness of `Resume`), that it yields at some time
(`-rs` makes the timer call Yield at random), and that a thread releases a lock it
holds if it gets to run again and again (strong fairness of `Release`).  The
programs are `Disciplined`: no thread sleeps on a semaphore or ends while it
holds a lock.  No fairness is assumed of anybody's Acquire, Wait or Signal.
`paging` and `processes` assume that the timer and the FIFO ready list run
every thread again and again, and that a thread in the queue of a kernel lock gets it in turn:
this is what `AcquireReturns` shows for `NachosSynch`.  `create`
assumes no fairness: each call causes finitely many messages, and its property is about the
states in which all of them are read.  `mail` assumes the same scheduler, and
that scheduled interrupts come.  `devices` derives it: weak fairness of `Next` says only
that the machine goes on, and strong fairness of `LongSlice` that the
random time slice is not for ever shorter than the way into a system call.

## Refinements

`Mail` implements `MailChannel`, `FileSystem` implements `FileStore` and `MipsSim`
implements `MipsIsa` with the results of `Faulty` instructions left open: each abstract module is what callers rely on, and the run
checks the abstract specification as a property under the refinement mapping at
the end of the detailed module.  The channels of `ServerMail` are those of
`MailChannel` without the loss.

## Proofs

Each theorem holds for every value of the constants that satisfies the named
assumptions.  An inductive invariant was first checked by TLC on the instance of
its run, then proved preserved with one lemma per action.

### Threads, locks, conditions and semaphores

`NachosSynchProofs` proves, for any sets of threads, locks, conditions and
semaphores and for arbitrary programs:

| Theorem | Statement |
|---|---|
| `TypeCorrect` | `Spec => []TypeOK` |
| `MutualExclusionHolds` | no two programs believe they hold the same lock |
| `NoThreadLostHolds` | a live thread is running, or on exactly the one list its status and routine name; those who wait on a condition gave up the lock it remembers |
| `HandoverInOrderHolds` | a contended lock goes to the head of its queue (action property) |
| `ReturnsOwningHolds` | who returns from Acquire or Wait after sleeping owns the lock (action property) |
| `NoUnitStrandedHolds` | while threads queue on a semaphore, each unit has a woken thread on its way to it |

The assumptions are `SynchAssumption` (the sentinels are no threads or locks)
and, where ownership matters, `CleanLocks`: the memory of a new lock
holds NULL where `threadWithPossession` will be, because the constructor does
not set it.  Without `CleanLocks` mutual exclusion is false: the thread whose
address the memory happens to hold passes Acquire while the state stays FREE.
`NoUnitStrandedHolds` counts threads and assumes that there are finitely many.

The inductive invariant `Inv` is the conjunction of `TypeOK`, `Places` (where a
thread may be for each status), `Doomed` (the carcass is a finished thread),
`Sched` (the ready list holds exactly the READY threads, each once; at most one
is RUNNING), `LockQueues`, `CondQueues`, `SemQueues` (a queue holds, once, exactly
the blocked threads whose routine and argument name it) and
`Ownership` (a program's belief and the lock's fields agree, except for a
thread that was handed the lock and has not run yet).  The properties are not
inductive alone: that a woken thread finds the lock as it left it depends on
its being on no other list, and that on the lists of all objects.  There is
one lemma per routine, and lemmas on what Append, Tail and concatenation
do to the elements of a list.  `NoUnitStranded` is inductive relative to `Inv`:
P takes a unit with its own entry in `Woken`, V adds one of each, and no
other routine changes who is awake inside P (`SameInP`).

### Lock and condition system calls

| Theorem | Statement | Programs |
|---|---|---|
| `IsolationHolds` | a process owns and waits for its own objects only | any |
| `NoFreedObjectUsedHolds` | no call reaches a freed object | `GoodStyles` |
| `NobodyStrandedHolds` | nobody sleeps on an object that was freed | `GoodStyles` |
| `MarkedIsDeletedLaterHolds` | a condition marked for deletion has a thread that will delete it | `GoodStyles` |

`SyncAssumption` says that threads are finitely many, that sentinels are not threads
or addresses and that a style is made of the calls and rules that exist.  `GoodStyles`
says that every style either never calls Destroy or waives no rule; the items
"staleId", "inUse", "manyWaiters", "wokenWaiter" and "exitAfterDestroy" below show that
the code needs it.  `IsolationHolds` does without.

For isolation the invariant is `IsoInv`: an entry points to something created
(`Created`), a live object is in one entry of one table (`Unique`), and those in
its queue, its owner and those who will take it after a Wait are of the entry's process
(`Members`, `WaitsAtHome`).  `Isolation` alone is not inductive: a thread woken from a
condition takes a lock by its address, which no test of the table guards.

The other three need to know who is asleep.  `Inv` adds `Queues` (a queue
holds exactly the threads whose place and index name it, once each),
`Owned` (nobody sleeps for a free lock) and `Rooms`, on the entries:
`Kept` (an entry that a good program may still name has a live, unmarked object),
`Fresh` (a clear bit means no object; an index between `Find` and `InitEntry` belongs
to one thread), `Sleeping` (the objects of a sleeper are live and its process's),
`Marks` (a marked condition has exactly one thread left in Wait), `Exiting` and `Calm`
(what Exit and a style without Destroy can have done).  `RoomStep` reduces the
preservation of `Rooms` to what a step does to one entry and one thread; the
lemmas named "...Facts" give this for each action.

### Virtual memory

| Theorem | Statement |
|---|---|
| `OneLoaderPerFrameHolds` | no two threads work on one frame |
| `BitmapExactHolds` | the bit map marks exactly the frames that hold a page or are worked on |
| `OneFramePerPageHolds` | no page is in two frames |
| `StopsOnlyWhenFullHolds` | the machine spins in Evict only when each frame is worked on, and gives up only when the swap file is full |
| `TranslationsOwnHolds` | each valid TLB entry maps a page of the running thread to the frame that holds it |
| `PagesNotMixedHolds` | what a live process finds in a frame of its page, or would load into one, was once written to that page |

They hold for any number of threads, spaces, pages, frames and TLB entries and
both policies, from `VMAssumption` and `Exits # "any"`: nobody exits while another
thread is in a page fault.  Without it `OneLoaderPerFrame` is false
(`exception.cc:1121` below).  In the invariant, `Places` ties a thread's place to its frame, its
locks and the use bit, which is what protects a frame between the release of
`iptLock` and the end of the fault; `OneCopy` adds to `OneFramePerPage` that a page
that a thread is about to load is in no frame, which the lock of the page table ensures;
`Listed` says that the FIFO list has every frame that Evict may take; and
`NotTaken` that the TLB names no frame that is being evicted.  `PagesNotMixed` needs besides that a page
in the swap file has a slot that is marked and holds what was written to it (`SlotsOwn`), and
that no two pages have the same (`SlotsApart`).

### Processes

| Theorem | Statement |
|---|---|
| `HaltsExactlyAtEndHolds` | the machine halts by Exit when no thread is left, not before and without fail |
| `NothingSharedHolds` | no two threads of a process share a page of stack, and no two share a mailbox |

The only assumption is `ProcAssumption`.  The invariant says which locks a
place in the kernel implies (`Held`), that the numbers handed out are below the next
and never given twice (`Numbers`), that a process that an Exec is making is known to
that Exec only (`Making`), that the two counters are the cardinalities they stand
for (`Counts`), and that the thread between the test of the last Exit and its end
holds `processIDLock` so that the test stays true (`LastLeaves`, `Ends`).  Without
`Making` the count of living processes is not preserved: between the increment in
Exec and the first thread of the new process nothing else accounts for it.

### Lock server: use

| Theorem | Statement |
|---|---|
| `HoldersOwnHolds` | a client that was told it has a lock is its owner in the table of the server that keeps it |
| `NoSecondAnswerHolds` | what a client waits for is in at most one place, and nothing is left of it when the client goes on |
| `SleepersGaveUpLockHolds` | a client asleep on a condition does not own the lock it came with, where one server keeps both |
| `GivenUpRightlyHolds` | a query is denied by all servers only for an object that is gone or has index 0 |

They hold for any number of servers, clients, locks, conditions and variables and for
programs of any calls and length, with any locks for a condition, as long as they are
`Sensible` (a client names no object that a program has destroyed, except in a late Signal or
Broadcast), from `MailAssumption` and `UseAssumption` only.  That objects of index 0 are given up
though they exist is the code's doing (`server.cc:935` below), so `GivenUpRightlyHolds` excepts them and
no hypothesis keeps them out.

A request passes through many hands: the mail of a client, mailbox 0 of some server, its
mailbox 1, a query there, mailbox 0 of the server that has the object, then the queue of a
lock or a condition, or the list of CV operations that wait for word of a lock.
`HoldersOwn` is not inductive alone: it is broken by an answer to ACQUIRE in the mail for a
client that does not own the lock, by a second answer to an old request, or by a request
of the client that is still on its way when the client goes on.  The invariant `Inv` says what
is in the hands:

- `GoodMail`, `GoodQueries`, `GoodTrackers`, `GoodQueues`: a request found anywhere is what
  its client waits for now, an answer that grants a lock is for the lock's owner, and each is
  at a server it may be at;
- `OnePlace`: a client's request is in at most one place of those, once (`Alone`, `Stays` and the
  lemmas named "Moved..." are how a handler moves it), and in none for an idle client;
- `OneDoubt`: at most one question between two servers about a client's lock, or the answer to
  it, is in the mail, and (`GoodMail`) the CV operation it is about is still in the list of
  the server that asked, so that an answer cannot carry out a later operation;
- `Ownership`: a lock that a client holds has it as its owner and was not destroyed, and a
  client in RELEASE or WAIT no longer holds the lock it names; `Retirement`: a lock that is gone,
  or marked to be deleted, was destroyed by a program, so that no ACQUIRE, RELEASE or WAIT
  names it;
- `SleepersGaveUpLock` itself, because a wake-up gives the lock to a client that must
  not own it yet.

There is one lemma per handler (named after it, with "Inv"), most of them by way of
`RouteStep` for those that only pass a message on, `PlainNothing` for those that drop it and
one step lemma each for what happens at a lock and at a condition.

`GivenUpRightly` needs `Poll` besides.  Each server is asked once in a query and
answers once (`OneWord`), questions and answers name queries made (`Words`, `QueryIDs`), and
`Polled` says of a query that it has counted no more denials than there are servers that are
not going to speak any more, and that the server which has the object is still to be heard and does not deny
it.  Since that server is never the one that asks, it is missing among the
`NumServers - 1` others when the denials are counted (`HeardCount`, `PollImplies`).  The count is a
cardinality, and goes up by one with the set (`HeardMore`), because an answer is taken from
the mail when it is counted.  Handlers that have no part in it are `Quiet`.

### Devices

| Theorem | Statement |
|---|---|
| `HaltsOnlyWhenDoneHolds` | the machine stops by itself only when every thread has finished |
| `OneRequestAtATimeHolds` | disk and display are idle whenever a driver starts them |
| `LatencyExactHolds` | the latency of a request is the time until the sector has passed under the head; the track buffer answers only for what has passed |
| `LinesWholeHolds` | written lines stay together; typed characters are handed out once, in order, by lines |

They hold for any number of threads and calls, any times, disk, line length and
buffer (`DeviceAssumption`: the times and sizes are positive).  `LinesWholeHolds` has the
hypothesis that nothing typed has the value of EOF; `console.cc:101` below shows why.

`Core` is about threads: one that has not finished is running, ready, behind the
holder of a driver's lock or asleep in a semaphore, and in one of these places only; the queue of
a lock has its holder first.  `Driver` ties a device to its semaphore: a busy device
owes exactly one interrupt, an idle one none, and there is a thread between the request and
the end of P just when the device is busy or the semaphore holds 1.  Since the
holder of a lock is one thread (`Sole`), nobody is there when the driver starts the
device.  For the stop, `Unmissed` adds that nobody sleeps on a semaphore that holds 1: with
an empty list of interrupts, or the timer alone, nobody can then be asleep, so that no
holder of a lock is, and nobody waits for one (`NobodyLeft`).  The lines need to know
how far a holder has got: what is displayed and what it still has to write make up whole
lines (`LastLine`), and what it has read is at the end of what was handed out (`LastRead`).
Interrupts keep `Driver` because `SortedInsert` and `SortedRemove` keep the
entries of the list (`Inserted`, `Taken`), whatever their order; the order matters to
`RequestsReturn`, which stays with TLC.

The latency needs one more fact about the state, `Aligned`: the track buffer was started
at the start of a sector.  `UpdateLast` starts it when the head has arrived and the sector
under it has ended (`Arrival`), and the time of day is kept modulo a revolution, which is a
whole number of sectors.  `ModuloDiffFacts` says that `ModuloDiff` is the number of
sectors that pass before the wanted one, and the first that is it; the rest is
arithmetic on quotients and remainders, which the lemmas `Multiples`, `Division` and
`DivisionUnique` take out of the prover's sight.

### File system

| Theorem | Statement |
|---|---|
| `SpaceExactHolds` | the bit map marks exactly the sectors of the files and of the file system, no sector is in two files, no name is there twice |
| `ImplementsStoreHolds` | `Spec => ImplementsStore`: every call is a call of `FileStore` or changes nothing there |

They hold for any sector size, disk, directory, file table, names, file sizes and strings,
from `FileAssumption` (the disk has room for the file system's own sectors, the constants are
numbers, `NoFile` is neither a string of bytes nor a record), and for callers that
close a file before they remove it, which is in `Next`.

That the space is exact needs that repeated `Find` returns as many different clear
bits as there are (`FindAllFacts`): the k-th clear bit is the one with k - 1 clear
bits below it, and the ranks are a bijection (`RankBounds`, `RankExists`).
`StoreInv` adds what the refinement needs: each header has as many sectors as its
length asks for, all different and none of them its own (`Shapes`), and an open file's copy
of the header is the one on the disk (`Opens`).  Then
`WriteFacts` says that `WriteAt` changes the bytes written and no other: a byte of a touched
sector that is not written is one that was read back (`ReadBackFacts`).
`RoomFacts` shows that Create refuses just what does not fit, by a bijection between
the sectors of the files and those the store counts (`SpaceCount`).

### Only model-checked

- Liveness (`AcquireReturns`, `SignalledReturns`, `FaultsEnd`, `CallsEnd`,
  `SendReturns`, `EveryMailRead`, `RequestsReturn`), which is
  out of the prover's reach.
- `OneAnswerPerRequest` of `ServerUse` says that no request is answered twice, which is
  proved (`NoSecondAnswerHolds`), and that none is lost.  The second half is false for
  programs that use two locks with a condition: a Wait with another lock than the first
  waiter's (`synch.cc:413`) is not answered, and a Broadcast never ends (`server.cc:516` below).
  It is checked for the one lock of the run.
- `OneObjectPerName`, `OneAnswerPerRequest` and `StuckOnlyInCircles` of `ServerCreate`: not proved, and
  checked for tables with room, since a full table refuses what another server has.
- The refinements of `MailChannel` and of the loose `MipsIsa`: not proved.
  `MipsSim` and its arithmetic stay with TLC.

## Read off the models

What the code does besides, outside the limits of the runs or in what their properties
except, with the constants that show it:

- `exception.cc:660`: DestroyLock deletes at once a lock that others hold and sleep for, and
  defers when nobody has it, the reverse of its comments (`waived` with "inUse" and Destroy
  breaks `NobodyStranded`).  `server.cc:354` repeats the test.
- `exception.cc:940` and `1144`: the last page of a thread's stack is taken to be one past the
  last, so that its exit frees the first page of the next thread's stack and not of its own.
- `exception.cc:1121`: Exit frees the frames that still name its space, even one that
  another thread has evicted and is loading into; two threads then load into one
  frame (`Exits = "any"` breaks `BitmapExact`, and with a thread each in three processes and
  `Policy = "RAND"` `OneLoaderPerFrame`).
- `server.cc:835` and `806`: three servers, each asked by a client of its own, can defer to
  one another in a circle, and nobody is answered (in the run `create`: the states with empty channels
  and a pending create).
- `server.cc:1042`: a denial for a create that is settled leaves `temp` and `tempIndex` uninitialised; a
  settled create is then carried out again and another erased, whose clients wait for
  ever (`forgotten` is not empty in the run `create`).
- `server.cc:1213`: CREATE_MV asks the others about bytes 2.. of the request and
  not about the name at 10..; two servers create the same variable (`Kind = "MV"`
  breaks `OneObjectPerName`).
- `server.cc:935`: a server denies the object with index 0, so a request for it
  that goes through another server is never answered (the last disjunct of `GivenUpRightly` is needed
  in the run `use`).
- `server.cc:1767`: WAIT with a condition of one server and a lock of another asks
  for the release in the server's own name; `isHeldByRequester` refuses and the
  client sleeps with the lock (`CVNums = {1}` breaks `SleepersGaveUpLock` without its condition that one
  server has both, also when no RELEASE is under way).
- `mipssim.cc:374`: OR combines rs with itself; `mipssim.cc:444`: SRL and SRLV keep the sign
  (each is needed in `Faulty` for the run `mips` to pass).
- `synch.cc:105`: the uninitialised owner, `FreshOwner` with a thread in it breaks
  `MutualExclusion`.
- `synch.cc:311`: a Wait refused because the caller does not own the lock still
  leaves that lock remembered; on a condition nobody waits on, later correct
  Waits are refused for ever, while the comment at line 362 assumes it is reset.
- `scheduler.cc:124`: a thread that runs for the first time does not delete the
  carcass of the one before; if it finishes itself, that carcass leaks.
- `exception.cc:287`: an index is visible before its entry is filled; a stale
  index used then reaches a freed object (`waived` with "staleId" and Destroy).
- `exception.cc:591`: two threads woken from a condition marked for deletion both
  find its queue empty, the second uses what the first deleted ("manyWaiters").
- `exception.cc:591`: DestroyCondition deletes at once a condition whose woken waiter has
  not yet returned; that waiter tests the entry by its index, which another
  process has reused and marked by then, and deletes that one's condition (two processes of
  two threads, `MaxIndex = 2`, `waived` with "wokenWaiter").
- `exception.cc:1088`: Exit frees by an owner field that DestroyLock leaves behind ("exitAfterDestroy").
- `server.cc:1335`: denials count for the oldest query only.
- `server.cc:1525` and `1633`: DESTROY_LOCK and DESTROY_CV are not answered while
  the stubs wait (`exception.cc:688`, `742`); DESTROY_CV passes the number for the index.
- `server.cc:1970`: a WAIT with a lock that is gone is not answered; `server.cc:516`:
  a Broadcast with a wrong lock never ends.
- `exception.cc:963`: Fork tests the thread limit in one critical section and takes
  the number in another; racing Forks pass the limit.
- `exception.cc:988`: Exec does not test whether the executable could be opened;
  `exception.cc:933`: threads started by Fork have no mailbox number of their own.
- `exception.cc:101`: copyout gives up after a store that faulted, copyin repeats.
- `network.cc:111`: `sendBusy` is never set, so the assertion cannot fire;
  the post office's lock is what keeps senders apart.
- `console.cc:101`: a typed byte with the value of EOF (255) marks the one-character buffer as empty
  although the reader is told of it; the next character overwrites it, and is read
  twice or followed by EOF (`"EOF"` in `Keyboard` breaks `LinesWhole`).
- `interrupt.cc:329`: the head that is not due is put back behind others of its time.
- `mipssim.cc:200`: DIV of the smallest number by -1 is a division the host traps, where
  the processor goes on (`DivideTraps`).
- `filesys.cc:257`: Remove frees the sectors of a file that is open (`filesys.h:82`
  promises what UNIX does); `exception.cc:114`: Create_Syscall makes files of
  size 0, which can never grow; `filehdr.cc:41`: a file larger than the header
  has room for is not refused.

## Plan

Done: the modules above and the proofs about `NachosSynch`, `SyncSyscalls`,
`VirtualMemory`, `Processes`, `ServerUse`, `Devices` and `FileSystem`.  What remains:

1. Proofs of the refinement of `MailChannel`.
2. Proofs about `ServerCreate`, for tables with room.
3. `MesaMonitor`, an abstract monitor that `NachosSynch` and `ServerLock` implement.

## Not modelled

- The supermarket (`test/*.c`, `threads/threadtest.cc`): application programs over
  the system calls; `threadtest.cc` is commented out of the build.
- The debugger and the wrappers of UNIX calls in `machine/sysdep.cc` other than
  sockets, register save and restore.
- Crashes in the middle of a file system call, and concurrent calls:
  `filesys.cc:32` says they are not supported.
- LWL, LWR, SWL and SWR at unaligned addresses, where the simulator asserts.
- `LockWatcher` (`server.cc:863`), which pings the owners of server locks and
  releases a lock when the ping cannot be sent: its index and addressee are
  uninitialised, so what it does depends on the memory it finds.
- `bin/`, offline tools for object files; start-up options; output.
