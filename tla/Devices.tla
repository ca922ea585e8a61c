------------------------------- MODULE Devices -------------------------------
(***************************************************************************)
(* The simulated machine's clock and interrupts (machine/interrupt.cc,     *)
(* machine/timer.cc), the disk and the console behind it (machine/disk.cc, *)
(* machine/console.cc), and the two drivers that make them synchronous     *)
(* (filesys/synchdisk.cc, userprog/synchconsole.cc).                       *)
(*                                                                         *)
(* One thread has the processor.  An action is what happens between two    *)
(* places where interrupts may be taken: the end of a call of the thread   *)
(* module (SetLevel(IntOn) calls OneTick), of a user instruction, of a     *)
(* handler.  Times are kept relative to now, and the time of day modulo a  *)
(* revolution of the disk: nothing in the code depends on more.            *)
(***************************************************************************)
EXTENDS Integers, Sequences

CONSTANTS
    NumThreads,                 \* threads 1 (main), 2, ...
    MaxCalls,                   \* bound: calls and instructions of each thread
    LineLength, BufferSize,     \* sizes given to WriteLine and ReadLine
    Keyboard,                   \* what is typed, "nl" for '\n'
    SystemTick, UserTick, TimerTicks, ConsoleTime,          \* stats.h
    RotationTime, SeekTime, SectorsPerTrack, NumTracks      \* stats.h, disk.h

Threads == 1 .. NumThreads
Sectors == 0 .. SectorsPerTrack * NumTracks - 1
Revolution == RotationTime * SectorsPerTrack

ASSUME DeviceAssumption ==
    /\ {SystemTick, UserTick, TimerTicks, ConsoleTime, RotationTime, SeekTime, SectorsPerTrack,
        NumTracks, LineLength, BufferSize} \subseteq Nat \ {0}
    /\ NumThreads \in Nat \ {0} /\ MaxCalls \in [Threads -> Nat]
    /\ Keyboard \in Seq(STRING)

VARIABLES
    pending,          \* interrupts to come, sorted: [type, in], "in" ticks from now
    clock,            \* stats->totalTicks, modulo Revolution
    yieldOnReturn,
    phase,            \* "run", "due" and "yield" (OneTick), "idle", "idleLoop", "resume", "halted"
    running, ready,   \* currentThread and the ready list
    pc, left,         \* where each thread is, and how many calls it may still make
    locks, sems,      \* queues of the drivers' locks; value and queue of their semaphores
    active, lastSector, bufferAge,    \* the disk; bufferAge is totalTicks - bufferInit
    putBusy, incoming, typed,         \* the console; typed counts characters read from the file
    count,            \* characters left of a WriteLine, or read by a ReadLine
    display, taken    \* characters written, and handed out: [by, char]

time == <<pending, clock, bufferAge>>
cpu == <<running, ready, phase, yieldOnReturn>>
disk == <<active, lastSector>>
console == <<putBusy, incoming, typed>>
io == <<count, display, taken>>
vars == <<time, cpu, pc, left, locks, sems, disk, console, io>>

EOF_ == "EOF"
Nobody == 0

LockNames == {"disk", "input", "output"}
SemNames == {"disk", "inputAvailable", "outputDone"}

-----------------------------------------------------------------------------
(* threads/list.cc                                                          *)

SortedInsert(list, e) ==
    LET before == {i \in DOMAIN list : list[i].in <= e.in}
        n == IF before = {} THEN 0 ELSE CHOOSE i \in before : \A j \in before : j <= i
    IN  SubSeq(list, 1, n) \o <<e>> \o SubSeq(list, n + 1, Len(list))

Later(type, in) == [type |-> type, in |-> in]

(* Timer::TimeOfNextInterrupt; with -rs the time slice is random.           *)
TimeOfNextInterrupt == 1 .. 2 * TimerTicks

(* A timer only with -rs, and a console only where one was made.            *)
Init ==
    /\ \E timer, cons \in BOOLEAN : \E first \in TimeOfNextInterrupt :
         pending = LET t == IF timer THEN <<Later("timer", first)>> ELSE <<>>
                   IN  IF cons THEN SortedInsert(t, Later("consoleRead", ConsoleTime)) ELSE t
    /\ clock = 0 /\ yieldOnReturn = FALSE /\ phase = "run"
    /\ running = 1 /\ ready = [i \in 1 .. NumThreads - 1 |-> i + 1]
    /\ pc = [t \in Threads |-> "user"]
    /\ left = MaxCalls
    /\ locks = [l \in LockNames |-> <<>>]
    /\ sems = [s \in SemNames |-> [value |-> 0, queue |-> <<>>]]
    /\ active = FALSE /\ lastSector = 0 /\ bufferAge = 0
    /\ putBusy = FALSE /\ incoming = EOF_ /\ typed = 0
    /\ count = [t \in Threads |-> 0]
    /\ display = <<>> /\ taken = <<>>

-----------------------------------------------------------------------------
(* Time.  bufferAge past one revolution tells the disk nothing more.        *)

Aged(list, d) == [i \in DOMAIN list |-> [list[i] EXCEPT !.in = @ - d]]

Advance(d) ==
    /\ clock' = (clock + d) % Revolution
    /\ bufferAge' = IF bufferAge + d > Revolution THEN Revolution ELSE bufferAge + d

(* Interrupt::OneTick up to the loop over the interrupts that are due.      *)
OneTick(d) ==
    /\ pending' = Aged(pending, d)
    /\ Advance(d)
    /\ phase' = "due"
    /\ UNCHANGED yieldOnReturn

(* The first of queue q gets the processor, or the machine idles.           *)
Dispatch(q) ==
    /\ running' = IF q = <<>> THEN Nobody ELSE Head(q)
    /\ ready' = IF q = <<>> THEN q ELSE Tail(q)
    /\ phase' = IF q = <<>> THEN "idle" ELSE "resume"

Sleep == Dispatch(ready) /\ UNCHANGED <<time, yieldOnReturn>>

-----------------------------------------------------------------------------
(* Interrupt::CheckIfDue, in the loop of OneTick ("due"), as the first call
   of Idle, which moves the clock ("idle"), and in the loop of Idle.        *)

Elapsed == IF phase = "idle" /\ Head(pending).in > 0 THEN Head(pending).in ELSE 0
Rest == Aged(Tail(pending), Elapsed)

(* Deviation: Idle gives up when a time slice is next, whatever follows.    *)
TimerAloneNoTest == /\ phase \in {"idle", "idleLoop"} /\ pending # <<>>
                    /\ Head(pending).type = "timer"

TimerAlone == /\ phase \in {"idle", "idleLoop"} /\ Len(pending) = 1
              /\ Head(pending).type = "timer"

Due(type) ==
    /\ phase \in {"due", "idle", "idleLoop"} /\ pending # <<>>
    /\ Head(pending).type = type
    /\ phase = "idle" \/ Head(pending).in <= 0
    /\ ~TimerAlone

NothingDue == pending # <<>> => Head(pending).in > 0 \/ TimerAlone

(* After the handler, the loop is entered again.                            *)
Loop ==
    /\ Advance(Elapsed)
    /\ phase' = IF phase = "due" THEN "due" ELSE "idleLoop"
    /\ UNCHANGED <<running, pc, left, locks>>

(* An interrupt that is not due is taken from the list and put back.        *)
PutBack == pending' = IF pending = <<>> THEN <<>> ELSE SortedInsert(Tail(pending), Head(pending))

Return ==
    /\ phase = "due" /\ NothingDue
    /\ PutBack
    /\ phase' = IF yieldOnReturn THEN "yield" ELSE "run"
    /\ yieldOnReturn' = FALSE
    /\ UNCHANGED <<clock, bufferAge, running, ready, pc, left, locks, sems, disk, console, io>>

(* Thread::Yield, whose last statement turns interrupts on: a tick for who
   finds nobody ready, and for the thread that comes back from it.          *)
Yield ==
    /\ phase = "yield"
    /\ IF ready = <<>> THEN OneTick(SystemTick) /\ UNCHANGED <<running, ready>>
                       ELSE Dispatch(Append(ready, running)) /\ UNCHANGED <<time, yieldOnReturn>>
    /\ UNCHANGED <<pc, left, locks, sems, disk, console, io>>

(* Interrupt::Idle finds nothing, or a time slice only.                     *)
IdleHalt ==
    /\ phase = "idle" /\ (pending = <<>> \/ TimerAlone)
    /\ phase' = "halted"
    /\ UNCHANGED <<time, running, ready, yieldOnReturn, pc, left, locks, sems, disk, console, io>>

(* The end of Idle: back in Sleep, which looks for a thread to run.         *)
IdleReturn ==
    /\ phase = "idleLoop" /\ NothingDue
    /\ PutBack
    /\ Dispatch(ready)
    /\ yieldOnReturn' = FALSE
    /\ UNCHANGED <<clock, bufferAge, pc, left, locks, sems, disk, console, io>>

-----------------------------------------------------------------------------
(* The handlers.  V, with interrupts already off, takes no time.            *)

(* Deviation: V hands the processor to a waiter and counts nothing.         *)
VNoCount(s) ==
    LET q == sems[s].queue
    IN  /\ sems' = [sems EXCEPT ![s] = [value |-> IF q = <<>> THEN @.value + 1 ELSE @.value,
                                        queue |-> IF q = <<>> THEN q ELSE Tail(q)]]
        /\ ready' = IF q = <<>> THEN ready ELSE Append(ready, Head(q))

V(s) ==
    LET q == sems[s].queue
    IN  /\ sems' = [sems EXCEPT ![s] = [value |-> @.value + 1,
                                        queue |-> IF q = <<>> THEN q ELSE Tail(q)]]
        /\ ready' = IF q = <<>> THEN ready ELSE Append(ready, Head(q))

(* Timer::TimerExpired and TimerInterruptHandler.  CheckIfDue has set the
   status to SystemMode, so that the handler always asks for the yield.     *)
TimerExpired(n) ==
    /\ Due("timer") /\ Loop
    /\ pending' = SortedInsert(Rest, Later("timer", n))
    /\ yieldOnReturn' = TRUE
    /\ UNCHANGED <<ready, sems, disk, console, io>>

(* Disk::HandleInterrupt and SynchDisk::RequestDone                         *)
DiskDone ==
    /\ Due("disk") /\ Loop
    /\ pending' = Rest
    /\ active' = FALSE
    /\ V("disk")
    /\ UNCHANGED <<yieldOnReturn, lastSector, console, io>>

ConsoleWriteDone ==
    /\ Due("consoleWrite") /\ Loop
    /\ pending' = Rest
    /\ putBusy' = FALSE
    /\ V("outputDone")
    /\ UNCHANGED <<yieldOnReturn, disk, incoming, typed, io>>

(* Console::CheckCharAvail: nothing was typed, or the buffer is full ...    *)
PollNothing ==
    /\ Due("consoleRead") /\ Loop
    /\ pending' = SortedInsert(Rest, Later("consoleRead", ConsoleTime))
    /\ UNCHANGED <<ready, yieldOnReturn, sems, disk, console, io>>

(* ... or a character goes to the empty buffer.                             *)
CheckCharAvail ==
    /\ Due("consoleRead") /\ Loop
    /\ incoming = EOF_ /\ typed < Len(Keyboard)
    /\ pending' = SortedInsert(Rest, Later("consoleRead", ConsoleTime))
    /\ incoming' = Keyboard[typed + 1] /\ typed' = typed + 1
    /\ V("inputAvailable")
    /\ UNCHANGED <<yieldOnReturn, disk, putBusy, io>>

-----------------------------------------------------------------------------
(* Calls of the thread module by the running thread, each of which ends by
   turning interrupts on.                                                   *)

At(t, from, to) == phase = "run" /\ running = t /\ pc[t] = from /\ pc' = [pc EXCEPT ![t] = to]

Acquire(t, l) ==
    /\ locks' = [locks EXCEPT ![l] = Append(@, t)]
    /\ IF locks[l] = <<>> THEN OneTick(SystemTick) /\ UNCHANGED <<running, ready>> ELSE Sleep

Release(l) ==
    /\ locks' = [locks EXCEPT ![l] = Tail(@)]
    /\ ready' = IF Len(locks[l]) > 1 THEN Append(ready, locks[l][2]) ELSE ready
    /\ OneTick(SystemTick)
    /\ UNCHANGED running

(* Semaphore::P, from the call or from the Sleep inside it.                 *)
P(t, s, call, asleep, to) ==
    /\ running = t
    /\ (phase = "run" /\ pc[t] = call) \/ (phase = "resume" /\ pc[t] = asleep)
    /\ IF sems[s].value = 0
       THEN /\ sems' = [sems EXCEPT ![s].queue = Append(@, t)]
            /\ pc' = [pc EXCEPT ![t] = asleep]
            /\ Sleep
       ELSE /\ sems' = [sems EXCEPT ![s].value = @ - 1]
            /\ pc' = [pc EXCEPT ![t] = to]
            /\ OneTick(SystemTick) /\ UNCHANGED <<running, ready>>

(* Back from the Sleep in Acquire, from Yield, or at the start of a thread. *)
Resume ==
    /\ phase = "resume" /\ pc[running] \notin {"diskWait", "readWait", "writeWait"}
    /\ OneTick(SystemTick)
    /\ UNCHANGED <<running, ready, pc, left, locks, sems, disk, console, io>>

(* Bound: a thread makes at most MaxCalls[t] calls.                           *)
Call(t) == left[t] > 0 /\ left' = [left EXCEPT ![t] = @ - 1]

(* An instruction of a user program.                                        *)
Instruction(t) ==
    /\ At(t, "user", "user") /\ Call(t)
    /\ OneTick(UserTick)
    /\ UNCHANGED <<running, ready, locks, sems, disk, console, io>>

Finish(t) ==
    /\ At(t, "user", "done")
    /\ Sleep
    /\ UNCHANGED <<left, locks, sems, disk, console, io>>

-----------------------------------------------------------------------------
(* The disk.                                                                *)

Track(s) == s \div SectorsPerTrack
Seek(s) == SeekTime * (IF Track(s) > Track(lastSector) THEN Track(s) - Track(lastSector)
                                                       ELSE Track(lastSector) - Track(s))
(* Disk::TimeToSeek: the rest of the sector that the head arrives in.       *)
Rotation(s) == (RotationTime - ((clock + Seek(s)) % RotationTime)) % RotationTime

ModuloDiff(to, from) ==
    ((to % SectorsPerTrack) - (from % SectorsPerTrack) + SectorsPerTrack) % SectorsPerTrack

(* Deviation: the time to transfer the sector is left out.                  *)
ComputeLatencyNoTransfer(s, writing) ==
    Seek(s) + Rotation(s)
        + ModuloDiff(s, (clock + Seek(s) + Rotation(s)) \div RotationTime) * RotationTime

(* The track buffer, which reads ahead since bufferInit, or the sector.     *)
ComputeLatency(s, writing) ==
    LET timeAfter == clock + Seek(s) + Rotation(s)
        bufferInit == (clock - bufferAge) % Revolution
        inBuffer == /\ ~writing /\ Seek(s) = 0
                    /\ (Rotation(s) + bufferAge) \div RotationTime
                         > ModuloDiff(s, bufferInit \div RotationTime)
    IN  IF inBuffer THEN RotationTime
        ELSE Seek(s) + Rotation(s) + ModuloDiff(s, timeAfter \div RotationTime) * RotationTime
               + RotationTime

(* Deviation: the disk's mutex is not taken.                                *)
DiskCallNoMutex(t) ==
    /\ At(t, "user", "diskGo") /\ Call(t)
    /\ OneTick(SystemTick)
    /\ locks' = [locks EXCEPT !["disk"] = <<t>>]
    /\ UNCHANGED <<running, ready, sems, disk, console, io>>

(* SynchDisk::ReadSector and WriteSector                                    *)
DiskCall(t) ==
    /\ At(t, "user", "diskGo") /\ Call(t)
    /\ Acquire(t, "disk")
    /\ UNCHANGED <<sems, disk, console, io>>

(* Disk::UpdateLast: a new track, a new track buffer.                       *)
UpdateLast(s) ==
    /\ lastSector' = s
    /\ bufferAge' = IF Seek(s) # 0 THEN -(Seek(s) + Rotation(s)) ELSE bufferAge

(* Disk::ReadRequest and WriteRequest.  Nothing happens between it and P.   *)
DiskRequest(t, s, writing) ==
    /\ At(t, "diskGo", "diskP")
    /\ active' = TRUE
    /\ UpdateLast(s)
    /\ pending' = SortedInsert(pending, Later("disk", ComputeLatency(s, writing)))
    /\ UNCHANGED <<clock, cpu, left, locks, sems, console, io>>

DiskWait(t) ==
    /\ P(t, "disk", "diskP", "diskWait", "diskRelease")
    /\ UNCHANGED <<left, locks, disk, console, io>>

DiskRelease(t) ==
    /\ At(t, "diskRelease", "user")
    /\ Release("disk")
    /\ UNCHANGED <<left, sems, disk, console, io>>

-----------------------------------------------------------------------------
(* SynchConsole::WriteLine and ReadLine, where there is a console.          *)

HasConsole == \E i \in DOMAIN pending : pending[i].type = "consoleRead"

WriteLine(t) ==
    /\ HasConsole
    /\ At(t, "user", "writePut") /\ Call(t)
    /\ count' = [count EXCEPT ![t] = LineLength]
    /\ Acquire(t, "output")
    /\ UNCHANGED <<sems, disk, console, display, taken>>

(* Console::PutChar                                                         *)
PutChar(t) ==
    /\ At(t, "writePut", "writeP")
    /\ putBusy' = TRUE
    /\ display' = Append(display, t)
    /\ count' = [count EXCEPT ![t] = @ - 1]
    /\ pending' = SortedInsert(pending, Later("consoleWrite", ConsoleTime))
    /\ UNCHANGED <<clock, bufferAge, cpu, left, locks, sems, disk, incoming, typed, taken>>

WriteWait(t) ==
    /\ P(t, "outputDone", "writeP", "writeWait", IF count[t] > 0 THEN "writePut" ELSE "writeRelease")
    /\ UNCHANGED <<left, locks, disk, console, io>>

WriteRelease(t) ==
    /\ At(t, "writeRelease", "user")
    /\ Release("output")
    /\ UNCHANGED <<left, sems, disk, console, io>>

(* Deviation: the input mutex is not taken.                                 *)
ReadLineNoMutex(t) ==
    /\ HasConsole
    /\ At(t, "user", "readP") /\ Call(t)
    /\ count' = [count EXCEPT ![t] = 0]
    /\ OneTick(SystemTick)
    /\ locks' = [locks EXCEPT !["input"] = <<t>>]
    /\ UNCHANGED <<running, ready, sems, disk, console, display, taken>>

ReadLine(t) ==
    /\ HasConsole
    /\ At(t, "user", "readP") /\ Call(t)
    /\ count' = [count EXCEPT ![t] = 0]
    /\ Acquire(t, "input")
    /\ UNCHANGED <<sems, disk, console, display, taken>>

ReadWait(t) ==
    /\ P(t, "inputAvailable", "readP", "readWait", "readGet")
    /\ UNCHANGED <<left, locks, disk, console, io>>

(* Console::GetChar                                                         *)
GetChar(t) ==
    /\ count' = [count EXCEPT ![t] = @ + 1]
    /\ At(t, "readGet", IF incoming # "nl" /\ count'[t] < BufferSize THEN "readP" ELSE "readRelease")
    /\ taken' = Append(taken, [by |-> t, char |-> incoming])
    /\ incoming' = EOF_
    /\ UNCHANGED <<time, cpu, left, locks, sems, disk, putBusy, typed, display>>

ReadRelease(t) ==
    /\ At(t, "readRelease", "user")
    /\ Release("input")
    /\ UNCHANGED <<left, sems, disk, console, io>>

-----------------------------------------------------------------------------
Thread(t) ==
    \/ Instruction(t) \/ Finish(t)
    \/ DiskCall(t) \/ DiskWait(t) \/ DiskRelease(t)
    \/ \E s \in Sectors, writing \in BOOLEAN : DiskRequest(t, s, writing)
    \/ WriteLine(t) \/ PutChar(t) \/ WriteWait(t) \/ WriteRelease(t)
    \/ ReadLine(t) \/ ReadWait(t) \/ GetChar(t) \/ ReadRelease(t)

Next ==
    \/ \E t \in Threads : Thread(t)
    \/ Resume \/ Return \/ Yield \/ IdleHalt \/ IdleReturn
    \/ \E n \in TimeOfNextInterrupt : TimerExpired(n)
    \/ DiskDone \/ ConsoleWriteDone \/ PollNothing \/ CheckCharAvail

Spec == Init /\ [][Next]_vars

(* The machine goes on while there is something to do; and the random time
   slice, of 1 to 2 * TimerTicks, is not for ever shorter than the one tick
   that a Yield takes.                                                      *)
LongSlice == \E n \in TimeOfNextInterrupt : n > SystemTick /\ TimerExpired(n)
FairSpec == Spec /\ WF_vars(Next) /\ SF_vars(LongSlice)

-----------------------------------------------------------------------------
(* Properties                                                               *)

(* "No threads ready or runnable, and no pending interrupts.  Assuming the
   program completed" (interrupt.cc:241): when the machine stops by itself
   every thread has finished; none waits for a device.                      *)
HaltsOnlyWhenDone == phase = "halted" => \A t \in Threads : pc[t] = "done"

(* The latency of the disk is the time until the sector has passed under the
   head once: from now, the seek, and the first start of the sector at or
   after that, and its length.  The track buffer answers only for a sector
   that has passed since the buffer was started, and never later.           *)
Passes(s, from, to) ==
    \E b \in from .. to - RotationTime :
        /\ b % RotationTime = 0
        /\ (b \div RotationTime) % SectorsPerTrack = s % SectorsPerTrack
LatencyExact ==
    ~active => \A s \in Sectors :
        LET write == ComputeLatency(s, TRUE)
            read == ComputeLatency(s, FALSE)
        IN  /\ Passes(s, clock + Seek(s), clock + write)
            /\ ~Passes(s, clock + Seek(s), clock + write - 1)
            /\ read # write => /\ read = RotationTime /\ read <= write
                               /\ Seek(s) = 0
                               /\ bufferAge < Revolution =>
                                    Passes(s, clock - bufferAge, clock + Rotation(s))

(* A driver starts its device only when the device is idle, as ReadRequest,
   WriteRequest and PutChar assert.                                         *)
OneRequestAtATime ==
    phase = "run" => /\ pc[running] = "diskGo" => ~active
                     /\ pc[running] = "writePut" => ~putBusy

(* Lines are whole: a WriteLine's characters stay together on the display,
   and the characters typed are handed out each once and in order, a line
   or a full buffer at a time.                                              *)
LinesWhole ==
    /\ \A i \in 1 .. Len(display) - 1 :
         i % LineLength # 0 => display[i] = display[i + 1]
    /\ \A i \in DOMAIN taken : taken[i].char = Keyboard[i]
    /\ \A i \in 1 .. Len(taken) - 1 :
         taken[i].by # taken[i + 1].by =>
            \/ taken[i].char = "nl"
            \/ i >= BufferSize /\ \A j \in i - BufferSize + 1 .. i : taken[j].by = taken[i].by

(* Every disk request and every line to be written is done in the end; only
   ReadLine waits for the outside.                                          *)
RequestsReturn ==
    \A t \in Threads :
        pc[t] \in {"diskGo", "diskP", "diskWait", "diskRelease",
                   "writePut", "writeP", "writeWait", "writeRelease"} ~> pc[t] \in {"user", "done"}
=============================================================================
