--------------------------- MODULE DevicesProofs ---------------------------
(***************************************************************************)
(* The machine stops by itself only when every thread has finished, the    *)
(* drivers never start a busy device, lines are whole, and the latency of  *)
(* the disk is exact: for any number of threads and calls, any sizes and   *)
(* any times.                                                              *)
(*                                                                         *)
(* Core says where the threads are: each one that has not finished is      *)
(* running, ready, behind the holder of a lock, or asleep in a semaphore,  *)
(* and only there.  Driver ties a device to the interrupt it still owes,   *)
(* to its semaphore and to the thread that waits for it.                   *)
(***************************************************************************)
EXTENDS Devices, TLAPS, SequenceTheorems, WellFoundedInduction

Types == {"timer", "disk", "consoleRead", "consoleWrite"}
Entries == [type : Types, in : Int]
Phases == {"run", "due", "yield", "idle", "idleLoop", "resume", "halted"}

(* Where a thread is from its call of Acquire to the end of Release.        *)
Section(l) == CASE l = "disk"   -> {"diskGo", "diskP", "diskWait", "diskRelease"}
                [] l = "output" -> {"writePut", "writeP", "writeWait", "writeRelease"}
                [] l = "input"  -> {"readP", "readWait", "readGet", "readRelease"}
Entry(l) == CASE l = "disk" -> "diskGo" [] l = "output" -> "writePut" [] l = "input" -> "readP"
PCs == {"user", "done"} \cup Section("disk") \cup Section("output") \cup Section("input")

(* Where the sleepers of a semaphore are.                                   *)
WaitAt(s) == CASE s = "disk" -> "diskWait" [] s = "outputDone" -> "writeWait"
               [] s = "inputAvailable" -> "readWait"

(* Typed characters, and the mark of the empty buffer.                      *)
Chars == STRING \cup {EOF_}

KernelType ==
    /\ pending \in Seq(Entries) /\ clock \in 0 .. Revolution - 1 /\ bufferAge \in Int
    /\ yieldOnReturn \in BOOLEAN /\ phase \in Phases
    /\ running \in Threads \cup {Nobody} /\ ready \in Seq(Threads)
    /\ pc \in [Threads -> PCs]
    /\ locks \in [LockNames -> Seq(Threads)]
    /\ sems \in [SemNames -> [value : Nat, queue : Seq(Threads)]]

DeviceType ==
    /\ left \in [Threads -> Nat]
    /\ active \in BOOLEAN /\ lastSector \in Sectors
    /\ putBusy \in BOOLEAN /\ incoming \in Chars /\ typed \in 0 .. Len(Keyboard)
    /\ count \in [Threads -> Int] /\ display \in Seq(Threads)
    /\ taken \in Seq([by : Threads, char : Chars])

TypeOK == KernelType /\ DeviceType

Is(q, t) == \E i \in 1 .. Len(q) : q[i] = t
Behind(q, t) == \E i \in 2 .. Len(q) : q[i] = t
Distinct(q) == \A i, j \in 1 .. Len(q) : q[i] = q[j] => i = j

Waiting(t) == \E l \in LockNames : Behind(locks[l], t)
Asleep(t)  == \E s \in SemNames : Is(sems[s].queue, t)
Runnable(t) == t = running \/ Is(ready, t)

(* The queue of a lock has its holder, first, and the threads that came
   back to Acquire since.                                                   *)
LocksOK ==
    \A l \in LockNames :
        /\ Distinct(locks[l])
        /\ \A t \in Threads : pc[t] \in Section(l) <=> Is(locks[l], t)
        /\ \A t \in Threads : Behind(locks[l], t) => pc[t] = Entry(l)

SemsOK ==
    \A s \in SemNames :
        /\ Distinct(sems[s].queue)
        /\ \A t \in Threads : Is(sems[s].queue, t) => pc[t] = WaitAt(s)

Places ==
    /\ Distinct(ready) /\ ~Is(ready, running)
    /\ \A t \in Threads : Runnable(t) => pc[t] # "done" /\ ~Waiting(t) /\ ~Asleep(t)
    /\ \A t \in Threads : pc[t] = "done" \/ Runnable(t) \/ Waiting(t) \/ Asleep(t)

PhasesOK ==
    /\ phase \in {"run", "due", "yield", "resume"} <=> running # Nobody
    /\ phase = "idle" => ready = <<>>

Core == LocksOK /\ SemsOK /\ Places /\ PhasesOK

Comes(list, type) == \E i \in 1 .. Len(list) : list[i].type = type
Once(list, type) ==
    \A i, j \in 1 .. Len(list) : list[i].type = type /\ list[j].type = type => i = j

(* A device is busy as long as its one interrupt is to come; then, until the
   thread that gave the request has noticed, the semaphore holds 1.         *)
Driver(list, type, busy, value, W) ==
    /\ Once(list, type)
    /\ Comes(list, type) <=> busy
    /\ busy => value = 0
    /\ value <= 1
    /\ W # {} <=> busy \/ value = 1

DiskUsers   == {t \in Threads : pc[t] \in {"diskP", "diskWait"}}
OutputUsers == {t \in Threads : pc[t] \in {"writeP", "writeWait"}}
DiskOK   == Driver(pending, "disk", active, sems["disk"].value, DiskUsers)
OutputOK == Driver(pending, "consoleWrite", putBusy, sems["outputDone"].value, OutputUsers)

(* Only a console is read from, and it polls the keyboard for ever.         *)
InputOK == \A t \in Threads : pc[t] \in Section("input") => Comes(pending, "consoleRead")

Inv == TypeOK /\ Core /\ DiskOK /\ OutputOK /\ InputOK

-----------------------------------------------------------------------------
(* Queues and the list of interrupts                                        *)

(* What the constants are.                                                  *)
LEMMA Constants ==
    /\ {SystemTick, UserTick, TimerTicks, ConsoleTime, RotationTime, SeekTime, SectorsPerTrack,
        NumTracks, LineLength, BufferSize} \subseteq Nat \ {0}
    /\ Revolution \in Nat \ {0} /\ Nobody \notin Threads /\ Sectors \subseteq Nat /\ 1 \in Threads
    /\ Keyboard \in Seq(STRING) /\ Len(Keyboard) \in Nat /\ LockNames # {} /\ 0 \in Sectors
    /\ \A i \in 1 .. Len(Keyboard) : Keyboard[i] \in STRING
<1>1. /\ {SystemTick, UserTick, TimerTicks, ConsoleTime, RotationTime, SeekTime, SectorsPerTrack,
           NumTracks, LineLength, BufferSize} \subseteq Nat \ {0}
      /\ NumThreads \in Nat \ {0} /\ Keyboard \in Seq(STRING)
  BY DeviceAssumption
<1>2. \A a, b \in Nat \ {0} : a * b \in Nat \ {0}
  OBVIOUS
<1>3. RotationTime * SectorsPerTrack \in Nat \ {0} /\ SectorsPerTrack * NumTracks \in Nat \ {0}
  BY <1>1, <1>2
<1>4. Revolution \in Nat \ {0}
  BY <1>3 DEF Revolution
<1>5. Sectors \subseteq Nat /\ 0 \in Sectors
  <2> DEFINE m == SectorsPerTrack * NumTracks
  <2>1. Sectors = 0 .. m - 1 /\ m \in Nat \ {0}
    BY <1>3 DEF Sectors
  <2> HIDE DEF m
  <2> QED BY <2>1
<1>6. Nobody \notin Threads /\ 1 \in Threads /\ LockNames # {}
  BY <1>1 DEF Nobody, Threads, LockNames
<1>7. /\ Keyboard \in Seq(STRING) /\ Len(Keyboard) \in Nat
      /\ \A i \in 1 .. Len(Keyboard) : Keyboard[i] \in STRING
  BY <1>1
<1> QED BY <1>1, <1>4, <1>5, <1>6, <1>7

(* A thread comes to the end of a queue.                                    *)
LEMMA Appended ==
    ASSUME NEW q \in Seq(Threads), NEW t \in Threads
    PROVE  /\ Append(q, t) \in Seq(Threads) /\ Append(q, t) # <<>>
           /\ \A u \in Threads : Is(Append(q, t), u) <=> Is(q, u) \/ u = t
           /\ \A u \in Threads : Behind(Append(q, t), u) <=> Behind(q, u) \/ (q # <<>> /\ u = t)
           /\ Distinct(q) /\ ~Is(q, t) => Distinct(Append(q, t))
           /\ q # <<>> => Append(q, t)[1] = q[1]
           /\ q = <<>> => Append(q, t)[1] = t
<1> DEFINE r == Append(q, t)
<1>1. /\ r \in Seq(Threads) /\ Len(r) = Len(q) + 1 /\ r[Len(q) + 1] = t /\ Len(q) \in Nat
      /\ \A i \in 1 .. Len(q) : r[i] = q[i]
  OBVIOUS
<1>2. q = <<>> <=> Len(q) = 0
  OBVIOUS
<1> HIDE DEF r
<1>3. \A u \in Threads : Is(r, u) <=> Is(q, u) \/ u = t
  BY <1>1 DEF Is
<1>4. \A u \in Threads : Behind(r, u) <=> Behind(q, u) \/ (q # <<>> /\ u = t)
  BY <1>1, <1>2 DEF Behind
<1>5. Distinct(q) /\ ~Is(q, t) => Distinct(r)
  BY <1>1 DEF Distinct, Is
<1> QED BY <1>1, <1>2, <1>3, <1>4, <1>5 DEF r

(* The first thread leaves a queue.                                         *)
LEMMA Tailed ==
    ASSUME NEW q \in Seq(Threads), q # <<>>
    PROVE  /\ Tail(q) \in Seq(Threads) /\ Head(q) = q[1] /\ q[1] \in Threads
           /\ \A u \in Threads : Is(q, u) <=> u = q[1] \/ Is(Tail(q), u)
           /\ \A u \in Threads : Is(Tail(q), u) <=> Behind(q, u)
           /\ \A u \in Threads : Behind(Tail(q), u) => Behind(q, u)
           /\ \A u \in Threads : Behind(q, u) => Len(q) > 1 /\ (u = q[2] \/ Behind(Tail(q), u))
           /\ Len(q) > 1 => q[2] \in Threads /\ Behind(q, q[2]) /\ Tail(q) # <<>> /\ Tail(q)[1] = q[2]
           /\ Len(q) <= 1 => Tail(q) = <<>>
           /\ Distinct(q) => /\ Distinct(Tail(q)) /\ ~Is(Tail(q), q[1])
                             /\ Len(q) > 1 => ~Behind(Tail(q), q[2])
<1> DEFINE r == Tail(q)
<1>1. /\ r \in Seq(Threads) /\ Len(r) = Len(q) - 1 /\ Len(q) \in Nat \ {0} /\ Head(q) = q[1]
      /\ \A i \in 1 .. Len(r) : r[i] = q[i + 1]
      /\ \A i \in 1 .. Len(q) : q[i] \in Threads
  OBVIOUS
<1> HIDE DEF r
<1>2. r = <<>> <=> Len(r) = 0
  BY <1>1
<1>3. /\ \A i \in 2 .. Len(q) : i - 1 \in 1 .. Len(r) /\ q[i] = r[i - 1]
      /\ \A i \in 1 .. Len(r) : i + 1 \in 2 .. Len(q)
      /\ \A i \in 2 .. Len(q) : i \in 1 .. Len(q) /\ (i # 2 => i - 1 \in 2 .. Len(r))
      /\ \A i \in 1 .. Len(q) : i = 1 \/ i \in 2 .. Len(q)
      /\ \A i \in 2 .. Len(r) : i \in 1 .. Len(r)
  BY <1>1
<1>4. \A u \in Threads : Is(r, u) <=> Behind(q, u)
  BY <1>1, <1>3 DEF Is, Behind
<1>5. \A u \in Threads : Is(q, u) <=> u = q[1] \/ Behind(q, u)
  BY <1>1, <1>3 DEF Is, Behind
<1>6. \A u \in Threads : Behind(r, u) => Is(r, u)
  BY <1>3 DEF Is, Behind
<1>7. \A u \in Threads : Behind(q, u) => Len(q) > 1 /\ (u = q[2] \/ Behind(r, u))
  BY <1>1, <1>3 DEF Behind
<1>8. Len(q) > 1 => q[2] \in Threads /\ Behind(q, q[2]) /\ r # <<>> /\ r[1] = q[2]
  BY <1>1, <1>2 DEF Behind
<1>9. Distinct(q) => Distinct(r)
  BY <1>1 DEF Distinct
<1>10. Distinct(q) => ~Is(r, q[1])
  BY <1>1 DEF Distinct, Is
<1>11. Distinct(q) /\ Len(q) > 1 => ~Behind(r, q[2])
  BY <1>1 DEF Distinct, Behind
<1> QED BY <1>1, <1>2, <1>4, <1>5, <1>6, <1>7, <1>8, <1>9, <1>10, <1>11 DEF r

(* Nobody is in an empty queue.                                             *)
LEMMA EmptyQueue ==
    /\ <<>> \in Seq(Threads) /\ Distinct(<<>>)
    /\ \A t : ~Is(<<>>, t) /\ ~Behind(<<>>, t)
BY DEF Distinct, Is, Behind

(* A queue, its holder and those behind.                                    *)
LEMMA QueueParts ==
    ASSUME NEW q \in Seq(Threads), NEW u \in Threads
    PROVE  /\ Is(q, u) => q # <<>>
           /\ Is(q, u) <=> q # <<>> /\ (u = q[1] \/ Behind(q, u))
<1>1. CASE q = <<>>
  BY <1>1, EmptyQueue
<1>2. CASE q # <<>>
  BY <1>2, Tailed
<1> QED BY <1>1, <1>2

(* The lowest number of a nonempty set is one of its numbers.               *)
LEMMA LowestExists ==
    ASSUME NEW S \in SUBSET Nat, S # {}
    PROVE  \E n \in S : \A m \in S : n <= m
<1> DEFINE R == OpToRel(<, Nat)
<1>1. IsWellFoundedOn(R, Nat)
  BY NatLessThanWellFounded
<1>2. \A m, n \in Nat : m < n => <<m, n>> \in R
  BY DEF OpToRel
<1> HIDE DEF R
<1>3. PICK n \in S : \A m \in S : ~ (<<m, n>> \in R)
  BY <1>1, WFMin
<1>4. \A m \in S : m \in Nat /\ n \in Nat /\ ~ (m < n)
  BY <1>2, <1>3
<1> QED BY <1>3, <1>4

(* SortedInsert puts e in and keeps the rest.                               *)
LEMMA Inserted ==
    ASSUME NEW list \in Seq(Entries), NEW e \in Entries
    PROVE  /\ SortedInsert(list, e) \in Seq(Entries)
           /\ \A type : Comes(SortedInsert(list, e), type) <=> Comes(list, type) \/ e.type = type
           /\ \A type : Once(list, type) /\ (e.type = type => ~Comes(list, type))
                          => Once(SortedInsert(list, e), type)
<1> DEFINE before == {i \in DOMAIN list : list[i].in <= e.in}
           n == IF before = {} THEN 0 ELSE CHOOSE i \in before : \A j \in before : j <= i
           r == SubSeq(list, 1, n) \o <<e>> \o SubSeq(list, n + 1, Len(list))
<1>1. SortedInsert(list, e) = r
  BY DEF SortedInsert
<1>2. Len(list) \in Nat /\ DOMAIN list = 1 .. Len(list)
  OBVIOUS
<1>3. n \in 0 .. Len(list)
  <2>1. CASE before = {}
    BY <2>1, <1>2
  <2>2. CASE before # {}
    <3> DEFINE S == {Len(list) - i : i \in before}
    <3>1. S \in SUBSET Nat /\ S # {}
      BY <2>2, <1>2
    <3>2. PICK m \in S : \A k \in S : m <= k
      BY <3>1, LowestExists
    <3>3. PICK x \in before : m = Len(list) - x
      BY <3>2
    <3>4. \A j \in before : j <= x
      <4>1. ASSUME NEW j \in before PROVE j <= x
        <5>1. m <= Len(list) - j /\ j \in Nat /\ x \in Nat
          BY <3>2, <1>2
        <5> QED BY <5>1, <3>3, <1>2
      <4> QED BY <4>1
    <3>5. \E i \in before : \A j \in before : j <= i
      BY <3>3, <3>4
    <3> HIDE DEF before
    <3>6. n \in before
      BY <3>5, <2>2
    <3> QED BY <3>6, <1>2 DEF before
  <2> QED BY <2>1, <2>2
<1> HIDE DEF before, n
<1> DEFINE a == SubSeq(list, 1, n)
           b == SubSeq(list, n + 1, Len(list))
<1>4. /\ a \in Seq(Entries) /\ Len(a) = n /\ \A i \in 1 .. n : a[i] = list[i]
      /\ b \in Seq(Entries) /\ Len(b) = Len(list) - n /\ \A i \in 1 .. Len(list) - n : b[i] = list[n + i]
  <2>1. \A i \in 1 .. Len(list) : list[i] \in Entries
    OBVIOUS
  <2>2. \A i \in 1 .. n : list[i] \in Entries
    BY <2>1, <1>2, <1>3
  <2>3. \A i \in n + 1 .. Len(list) : list[i] \in Entries
    BY <2>1, <1>2, <1>3
  <2>4. a \in Seq(Entries) /\ Len(a) = n /\ \A i \in 1 .. n : a[i] = list[i]
    <3>1. /\ a \in Seq(Entries) /\ Len(a) = IF 1 <= n THEN n - 1 + 1 ELSE 0
          /\ \A i \in 1 .. n - 1 + 1 : a[i] = list[1 + i - 1]
      BY <2>2, <1>3, SubSeqProperties
    <3> QED BY <3>1, <1>3, <1>2
  <2>5. /\ b \in Seq(Entries) /\ Len(b) = Len(list) - n
        /\ \A i \in 1 .. Len(list) - n : b[i] = list[n + i]
    <3>1. n + 1 \in Int /\ Len(list) \in Int
      BY <1>2, <1>3
    <3>2. /\ b \in Seq(Entries)
          /\ Len(b) = IF n + 1 <= Len(list) THEN Len(list) - (n + 1) + 1 ELSE 0
          /\ \A i \in 1 .. Len(list) - (n + 1) + 1 : b[i] = list[n + 1 + i - 1]
      BY <2>3, <3>1, SubSeqProperties
    <3> HIDE DEF b
    <3>3. Len(b) = Len(list) - n
      <4>1. PICK k \in Nat : k = Len(list)
        BY <1>2
      <4>2. n \in 0 .. k
        BY <4>1, <1>3
      <4>3. Len(b) = IF n + 1 <= k THEN k - (n + 1) + 1 ELSE 0
        BY <3>2, <4>1
      <4>4. Len(b) = k - n
        BY <4>2, <4>3
      <4> QED BY <4>1, <4>4
    <3>4. \A i \in 1 .. Len(list) - n : i \in 1 .. Len(list) - (n + 1) + 1 /\ n + 1 + i - 1 = n + i
      BY <1>3, <1>2
    <3>5. \A i \in 1 .. Len(list) - n : b[i] = list[n + i]
      BY <3>2, <3>4
    <3> QED BY <3>2, <3>3, <3>5
  <2> QED BY <2>4, <2>5
<1>5. r = a \o <<e>> \o b
  OBVIOUS
<1> HIDE DEF a, b, r
<1>6. /\ r \in Seq(Entries) /\ Len(r) = Len(list) + 1
      /\ \A i \in 1 .. n : r[i] = list[i]
      /\ r[n + 1] = e
      /\ \A i \in n + 2 .. Len(list) + 1 : r[i] = list[i - 1]
  <2> DEFINE c == a \o <<e>>
  <2>1. /\ c \in Seq(Entries) /\ Len(c) = n + 1 /\ \A i \in 1 .. n : c[i] = a[i]
        /\ c[n + 1] = e
    BY <1>3, <1>4
  <2> HIDE DEF c
  <2>2. /\ c \o b \in Seq(Entries) /\ Len(c \o b) = Len(list) + 1
        /\ \A i \in 1 .. n + 1 : (c \o b)[i] = c[i]
        /\ \A i \in n + 2 .. Len(list) + 1 : (c \o b)[i] = b[i - (n + 1)]
    <3>1. /\ c \o b \in Seq(Entries)
          /\ Len(c \o b) = Len(c) + Len(b)
          /\ \A i \in 1 .. Len(c) + Len(b) : (c \o b)[i] = IF i <= Len(c) THEN c[i] ELSE b[i - Len(c)]
      BY <1>4, <2>1, ConcatProperties
    <3>2. Len(c) + Len(b) = Len(list) + 1
      BY <1>2, <1>3, <1>4, <2>1
    <3> QED BY <3>1, <3>2, <2>1, <1>2, <1>3
  <2>3. r = c \o b
    BY <1>5 DEF c
  <2>4. \A i \in n + 2 .. Len(list) + 1 : b[i - (n + 1)] = list[i - 1]
    BY <1>2, <1>3, <1>4
  <2> QED BY <1>3, <1>4, <2>1, <2>2, <2>3, <2>4
<1>7. ASSUME NEW type PROVE Comes(r, type) <=> Comes(list, type) \/ e.type = type
  <2>1. ASSUME Comes(r, type) PROVE Comes(list, type) \/ e.type = type
    <3>1. PICK i \in 1 .. Len(list) + 1 : r[i].type = type
      BY <2>1, <1>6 DEF Comes
    <3>2. CASE i \in 1 .. n
      BY <3>1, <3>2, <1>2, <1>3, <1>6 DEF Comes
    <3>3. CASE i = n + 1
      BY <3>1, <3>3, <1>6
    <3>4. CASE i \in n + 2 .. Len(list) + 1
      <4>1. i - 1 \in 1 .. Len(list) /\ list[i - 1].type = type
        BY <3>1, <3>4, <1>2, <1>3, <1>6
      <4> QED BY <4>1 DEF Comes
    <3> QED BY <3>1, <3>2, <3>3, <3>4, <1>2, <1>3
  <2>2. ASSUME Comes(list, type) PROVE Comes(r, type)
    <3>1. PICK i \in 1 .. Len(list) : list[i].type = type
      BY <2>2 DEF Comes
    <3>2. CASE i <= n
      BY <3>1, <3>2, <1>2, <1>3, <1>6 DEF Comes
    <3>3. CASE i > n
      <4>1. i + 1 \in n + 2 .. Len(list) + 1 /\ r[i + 1] = list[i] /\ i + 1 \in 1 .. Len(r)
        BY <3>1, <3>3, <1>2, <1>3, <1>6
      <4> QED BY <3>1, <4>1 DEF Comes
    <3> QED BY <3>1, <3>2, <3>3, <1>2, <1>3
  <2>3. ASSUME e.type = type PROVE Comes(r, type)
    BY <2>3, <1>2, <1>3, <1>6 DEF Comes
  <2> QED BY <2>1, <2>2, <2>3
<1>8. ASSUME NEW type, Once(list, type), e.type = type => ~Comes(list, type)
      PROVE  Once(r, type)
  <2> SUFFICES ASSUME NEW i \in 1 .. Len(list) + 1, NEW j \in 1 .. Len(list) + 1,
                      r[i].type = type, r[j].type = type
               PROVE  i = j
    BY <1>6 DEF Once
  <2> DEFINE g(k) == IF k <= n THEN k ELSE k - 1
  <2>1. \A k \in 1 .. Len(list) + 1 : k # n + 1 => g(k) \in 1 .. Len(list) /\ r[k] = list[g(k)]
    BY <1>2, <1>3, <1>6
  <2>2. CASE i = n + 1 /\ j # n + 1
    BY <2>1, <2>2, <1>6, <1>8 DEF Comes
  <2>3. CASE i # n + 1 /\ j = n + 1
    BY <2>1, <2>3, <1>6, <1>8 DEF Comes
  <2>4. CASE i # n + 1 /\ j # n + 1
    <3>1. g(i) = g(j)
      <4> HIDE DEF g
      <4> QED BY <2>1, <2>4, <1>8 DEF Once
    <3> QED BY <3>1, <2>4, <1>2, <1>3
  <2> QED BY <2>2, <2>3, <2>4
<1> QED BY <1>1, <1>6, <1>7, <1>8

(* Time passes.                                                             *)
LEMMA AgedFacts ==
    ASSUME NEW list \in Seq(Entries), NEW d \in Int
    PROVE  /\ Aged(list, d) \in Seq(Entries) /\ Len(Aged(list, d)) = Len(list)
           /\ \A type : Comes(Aged(list, d), type) <=> Comes(list, type)
           /\ \A type : Once(list, type) => Once(Aged(list, d), type)
<1> DEFINE r == Aged(list, d)
<1>1. /\ Len(list) \in Nat /\ DOMAIN list = 1 .. Len(list)
      /\ \A i \in 1 .. Len(list) : list[i] \in Entries
  OBVIOUS
<1>2. r = [i \in 1 .. Len(list) |-> [list[i] EXCEPT !.in = @ - d]]
  BY <1>1 DEF Aged
<1>3. \A i \in 1 .. Len(list) : r[i] \in Entries /\ r[i].type = list[i].type
  BY <1>1, <1>2 DEF Entries
<1>4. r \in Seq(Entries) /\ Len(r) = Len(list)
  BY <1>1, <1>2, <1>3
<1> HIDE DEF r
<1>5. \A type : Comes(r, type) <=> Comes(list, type)
  BY <1>3, <1>4 DEF Comes
<1>6. \A type : Once(list, type) => Once(r, type)
  BY <1>3, <1>4 DEF Once
<1> QED BY <1>4, <1>5, <1>6 DEF r

(* The first interrupt is taken from the list.                              *)
LEMMA Taken ==
    ASSUME NEW list \in Seq(Entries), list # <<>>
    PROVE  /\ Tail(list) \in Seq(Entries) /\ Head(list) \in Entries
           /\ \A type : Comes(list, type) <=> Comes(Tail(list), type) \/ Head(list).type = type
           /\ \A type : Once(list, type) =>
                 /\ Once(Tail(list), type)
                 /\ Head(list).type = type => ~Comes(Tail(list), type)
<1> DEFINE r == Tail(list)
<1>1. /\ r \in Seq(Entries) /\ Len(r) = Len(list) - 1 /\ Len(list) \in Nat \ {0} /\ Head(list) = list[1]
      /\ \A i \in 1 .. Len(r) : r[i] = list[i + 1]
      /\ list[1] \in Entries
  OBVIOUS
<1> HIDE DEF r
<1>2. /\ \A i \in 2 .. Len(list) : i - 1 \in 1 .. Len(r) /\ list[i] = r[i - 1]
      /\ \A i \in 1 .. Len(r) : i + 1 \in 2 .. Len(list) /\ i + 1 \in 1 .. Len(list)
      /\ \A i \in 1 .. Len(list) : i = 1 \/ i \in 2 .. Len(list)
      /\ 1 \in 1 .. Len(list)
  BY <1>1
<1>3. \A type : Comes(list, type) <=> Comes(r, type) \/ list[1].type = type
  BY <1>1, <1>2 DEF Comes
<1>4. \A type : Once(list, type) => Once(r, type)
  <2> SUFFICES ASSUME NEW type, Once(list, type), NEW i \in 1 .. Len(r), NEW j \in 1 .. Len(r),
                      r[i].type = type, r[j].type = type
               PROVE  i = j
    BY DEF Once
  <2>1. i + 1 = j + 1
    BY <1>1, <1>2 DEF Once
  <2> QED BY <2>1, <1>1
<1>5. \A type : Once(list, type) /\ list[1].type = type => ~Comes(r, type)
  <2> SUFFICES ASSUME NEW type, Once(list, type), list[1].type = type, NEW i \in 1 .. Len(r),
                      r[i].type = type
               PROVE  FALSE
    BY DEF Comes
  <2>1. i + 1 = 1
    BY <1>1, <1>2 DEF Once
  <2> QED BY <2>1, <1>1
<1> QED BY <1>1, <1>3, <1>4, <1>5 DEF r

Same(list, new) ==
    \A type : /\ Comes(new, type) <=> Comes(list, type)
              /\ Once(list, type) => Once(new, type)

(* The clock moves.                                                         *)
LEMMA Advanced ==
    ASSUME TypeOK, NEW d \in Int, Advance(d)
    PROVE  clock' \in 0 .. Revolution - 1 /\ bufferAge' \in Int
<1>1. \A n \in Int : n % Revolution \in 0 .. Revolution - 1
  <2>1. Revolution \in Int /\ Revolution > 0
    BY Constants
  <2> QED BY <2>1
<1>2. clock + d \in Int /\ bufferAge + d \in Int /\ Revolution \in Int
  BY Constants DEF TypeOK, KernelType
<1> QED BY <1>1, <1>2 DEF Advance

LEMMA Ticked ==
    ASSUME TypeOK, NEW d \in Int, OneTick(d)
    PROVE  /\ pending' \in Seq(Entries) /\ Same(pending, pending')
           /\ clock' \in 0 .. Revolution - 1 /\ bufferAge' \in Int
           /\ phase' = "due" /\ yieldOnReturn' = yieldOnReturn
<1>1. pending \in Seq(Entries) /\ pending' = Aged(pending, d) /\ Advance(d)
      /\ phase' = "due" /\ yieldOnReturn' = yieldOnReturn
  BY DEF OneTick, TypeOK, KernelType
<1>2. pending' \in Seq(Entries) /\ Same(pending, pending')
  BY <1>1, AgedFacts DEF Same
<1> QED BY <1>1, <1>2, Advanced

(* The head is put back.                                                    *)
LEMMA PutBackSame ==
    ASSUME TypeOK, PutBack
    PROVE  pending' \in Seq(Entries) /\ Same(pending, pending')
<1>0. pending \in Seq(Entries)
  BY DEF TypeOK, KernelType
<1>1. CASE pending = <<>>
  BY <1>0, <1>1 DEF PutBack, Same
<1>2. CASE pending # <<>>
  <2>1. /\ Tail(pending) \in Seq(Entries) /\ Head(pending) \in Entries
        /\ pending' = SortedInsert(Tail(pending), Head(pending))
    BY <1>0, <1>2, Taken DEF PutBack
  <2> QED BY <2>1, <1>0, <1>2, Taken, Inserted DEF Same
<1> QED BY <1>1, <1>2

(* An interrupt is taken.                                                   *)
LEMMA Interrupted ==
    ASSUME TypeOK, NEW type, Due(type), Loop
    PROVE  /\ Rest \in Seq(Entries)
           /\ \A other : other # type => (Comes(Rest, other) <=> Comes(pending, other))
           /\ \A other : Once(pending, other) => Once(Rest, other)
           /\ Comes(pending, type) /\ (Once(pending, type) => ~Comes(Rest, type))
           /\ clock' \in 0 .. Revolution - 1 /\ bufferAge' \in Int
           /\ phase \in {"due", "idle", "idleLoop"}
           /\ phase' = IF phase = "due" THEN "due" ELSE "idleLoop"
           /\ UNCHANGED <<running, pc, left, locks>>
<1>1. /\ pending \in Seq(Entries) /\ pending # <<>> /\ Head(pending).type = type
      /\ Advance(Elapsed)
      /\ phase \in {"due", "idle", "idleLoop"}
      /\ phase' = IF phase = "due" THEN "due" ELSE "idleLoop"
      /\ UNCHANGED <<running, pc, left, locks>>
  BY DEF TypeOK, KernelType, Due, Loop
<1>2. Head(pending) \in Entries /\ Tail(pending) \in Seq(Entries)
  BY <1>1, Taken
<1>3. Elapsed \in Int
  BY <1>2 DEF Elapsed, Entries
<1>4. /\ Rest \in Seq(Entries)
      /\ \A other : Comes(Rest, other) <=> Comes(Tail(pending), other)
      /\ \A other : Once(Tail(pending), other) => Once(Rest, other)
  BY <1>2, <1>3, AgedFacts DEF Rest
<1>5. clock' \in 0 .. Revolution - 1 /\ bufferAge' \in Int
  BY <1>1, <1>3, Advanced
<1> QED BY <1>1, <1>4, <1>5, Taken

-----------------------------------------------------------------------------
(* Core                                                                     *)

(* Sections do not meet, nor does one hold "user" or "done".                *)
LEMMA Sections ==
    /\ \A l \in LockNames : Entry(l) \in Section(l) /\ Section(l) \subseteq PCs
    /\ \A l \in LockNames : "user" \notin Section(l) /\ "done" \notin Section(l)
    /\ \A l, m \in LockNames, p \in PCs : p \in Section(l) /\ p \in Section(m) => l = m
BY DEF LockNames, Section, Entry, PCs

(* What a sleeper's place says.                                             *)
LEMMA WaitPlaces ==
    /\ \A s, r \in SemNames : WaitAt(s) = WaitAt(r) => s = r
    /\ \A s \in SemNames, l \in LockNames : WaitAt(s) # Entry(l)
    /\ \A s \in SemNames : WaitAt(s) # "done"
    /\ WaitAt("disk") = "diskWait" /\ WaitAt("outputDone") = "writeWait"
    /\ WaitAt("inputAvailable") = "readWait"
BY DEF SemNames, LockNames, WaitAt, Entry

(* Someone else gets the processor.                                         *)
LEMMA Dispatched ==
    ASSUME NEW q \in Seq(Threads), Distinct(q), Dispatch(q)
    PROVE  /\ ready' \in Seq(Threads) /\ running' \in Threads \cup {Nobody} /\ phase' \in Phases
           /\ \A u \in Threads : Runnable(u)' <=> Is(q, u)
           /\ Distinct(ready') /\ ~Is(ready', running')
           /\ PhasesOK'
<1>1. CASE q = <<>>
  <2>1. running' = Nobody /\ ready' = <<>> /\ phase' = "idle"
    BY <1>1 DEF Dispatch
  <2>2. \A u \in Threads : u # Nobody /\ ~Is(<<>>, u)
    BY Constants, EmptyQueue
  <2> QED BY <1>1, <2>1, <2>2, EmptyQueue DEF Runnable, PhasesOK, Phases
<1>2. CASE q # <<>>
  <2>1. running' = q[1] /\ ready' = Tail(q) /\ phase' = "resume"
    BY <1>2, Tailed DEF Dispatch
  <2>2. running' \in Threads /\ running' # Nobody
    BY <1>2, <2>1, Tailed, Constants
  <2> QED BY <1>2, <2>1, <2>2, Tailed DEF Runnable, PhasesOK, Phases
<1> QED BY <1>1, <1>2

QueuesKept == \A s \in SemNames : sems'[s].queue = sems[s].queue

(* Nothing that Core is about changes, but the phase.                       *)
LEMMA CoreKept ==
    ASSUME Core, UNCHANGED <<pc, locks, ready, running>>, QueuesKept, PhasesOK'
    PROVE  Core'
<1>1. \A t : (Waiting(t)' <=> Waiting(t)) /\ (Asleep(t)' <=> Asleep(t)) /\ (Runnable(t)' <=> Runnable(t))
  BY DEF Waiting, Asleep, Runnable, QueuesKept
<1>2. LocksOK'
  BY DEF Core, LocksOK
<1>3. SemsOK'
  BY DEF Core, SemsOK, QueuesKept
<1>4. Places'
  BY <1>1 DEF Core, Places
<1> QED BY <1>2, <1>3, <1>4 DEF Core

(* The running thread goes on within its section, or outside of all.        *)
LEMMA CoreMove ==
    ASSUME TypeOK, Core, NEW t \in Threads, running = t, NEW to,
           pc' = [pc EXCEPT ![t] = to], to # "done",
           \A l \in LockNames : pc[t] \in Section(l) <=> to \in Section(l),
           UNCHANGED <<locks, ready, running>>, QueuesKept, PhasesOK'
    PROVE  Core'
<1>0. pc' \in [Threads -> PCs \cup {to}] /\ pc'[t] = to /\ \A u \in Threads \ {t} : pc'[u] = pc[u]
  BY DEF TypeOK, KernelType
<1>1. \A u : (Waiting(u)' <=> Waiting(u)) /\ (Asleep(u)' <=> Asleep(u)) /\ (Runnable(u)' <=> Runnable(u))
  BY DEF Waiting, Asleep, Runnable, QueuesKept
<1>2. Runnable(t) /\ ~Waiting(t) /\ ~Asleep(t)
  BY DEF Core, Places, Runnable
<1>3. LocksOK'
  <2>1. \A l \in LockNames : ~Behind(locks[l], t)
    BY <1>2 DEF Waiting
  <2>2. \A l \in LockNames : locks'[l] = locks[l]
    OBVIOUS
  <2> QED BY <1>0, <2>1, <2>2 DEF Core, LocksOK
<1>4. SemsOK'
  <2>1. \A s \in SemNames : ~Is(sems[s].queue, t)
    BY <1>2 DEF Asleep
  <2> QED BY <1>0, <2>1 DEF Core, SemsOK, QueuesKept
<1>5. Places'
  BY <1>0, <1>1, <1>2 DEF Core, Places
<1> QED BY <1>3, <1>4, <1>5 DEF Core

(* A thread comes to a lock.                                                *)
LEMMA CoreAcquire ==
    ASSUME TypeOK, Core, NEW t \in Threads, NEW l \in LockNames, running = t, pc[t] = "user",
           pc' = [pc EXCEPT ![t] = Entry(l)], Acquire(t, l), UNCHANGED sems
    PROVE  Core'
<1>0. /\ pc'[t] = Entry(l) /\ \A u \in Threads \ {t} : pc'[u] = pc[u]
      /\ ready \in Seq(Threads) /\ \A k \in LockNames : locks[k] \in Seq(Threads)
      /\ locks'[l] = Append(locks[l], t) /\ \A k \in LockNames \ {l} : locks'[k] = locks[k]
  BY DEF TypeOK, KernelType, Acquire
<1>1. Runnable(t) /\ ~Waiting(t) /\ ~Asleep(t)
  BY DEF Core, Places, Runnable
<1>2. \A u \in Threads : Asleep(u)' <=> Asleep(u)
  BY DEF Asleep
<1>3. /\ \A k \in LockNames : ~Is(locks[k], t) /\ ~Behind(locks[k], t)
  <2>1. \A k \in LockNames : ~Is(locks[k], t)
    BY Sections DEF Core, LocksOK
  <2> QED BY <2>1, <1>1 DEF Waiting
<1>4. LocksOK'
  <2>1. \A k \in LockNames \ {l} : Entry(l) \notin Section(k)
    BY Sections
  <2>2. Entry(l) \in Section(l)
    BY Sections
  <2>3. ASSUME NEW k \in LockNames
        PROVE  /\ Distinct(locks'[k])
               /\ \A u \in Threads : pc'[u] \in Section(k) <=> Is(locks'[k], u)
               /\ \A u \in Threads : Behind(locks'[k], u) => pc'[u] = Entry(k)
    <3>1. CASE k = l
      BY <3>1, <1>0, <1>3, <2>2, Appended DEF Core, LocksOK
    <3>2. CASE k # l
      BY <3>2, <1>0, <1>3, <2>1 DEF Core, LocksOK
    <3> QED BY <3>1, <3>2
  <2> QED BY <2>3 DEF LocksOK
<1>5. SemsOK'
  <2>1. \A s \in SemNames : ~Is(sems[s].queue, t)
    BY <1>1 DEF Asleep
  <2> QED BY <1>0, <2>1 DEF Core, SemsOK
<1>6. \A u \in Threads \ {t} : Waiting(u)' <=> Waiting(u)
  <2>1. \A k \in LockNames, u \in Threads \ {t} : Behind(locks'[k], u) <=> Behind(locks[k], u)
    <3> SUFFICES ASSUME NEW k \in LockNames, NEW u \in Threads \ {t}
                 PROVE  Behind(locks'[k], u) <=> Behind(locks[k], u)
      OBVIOUS
    <3>1. CASE k = l
      BY <3>1, <1>0, Appended
    <3>2. CASE k # l
      BY <3>2, <1>0
    <3> QED BY <3>1, <3>2
  <2> QED BY <2>1 DEF Waiting
<1>7. "done" # Entry(l)
  BY Sections
<1>8. CASE locks[l] = <<>>
  <2>1. OneTick(SystemTick) /\ UNCHANGED <<running, ready>>
    BY <1>8 DEF Acquire
  <2>2. \A u \in Threads : Runnable(u)' <=> Runnable(u)
    BY <2>1 DEF Runnable
  <2>3. ~Waiting(t)'
    <3>1. ASSUME NEW k \in LockNames PROVE ~Behind(locks'[k], t)
      <4>1. CASE k = l
        <5>1. Behind(Append(locks[l], t), t) <=> Behind(locks[l], t) \/ locks[l] # <<>>
          BY <1>0, Appended
        <5> QED BY <4>1, <5>1, <1>0, <1>3, <1>8
      <4>2. CASE k # l
        BY <4>2, <1>0, <1>3
      <4> QED BY <4>1, <4>2
    <3> QED BY <3>1 DEF Waiting
  <2>4. Places'
    BY <1>0, <1>1, <1>2, <1>6, <1>7, <2>1, <2>2, <2>3 DEF Core, Places
  <2>5. PhasesOK'
    BY <2>1, Constants DEF PhasesOK, OneTick
  <2> QED BY <1>4, <1>5, <2>4, <2>5 DEF Core
<1>9. CASE locks[l] # <<>>
  <2>1. Dispatch(ready)
    BY <1>9 DEF Acquire, Sleep
  <2>2. Distinct(ready) /\ ~Is(ready, t)
    BY DEF Core, Places
  <2>3. Waiting(t)'
    <3>1. Behind(locks'[l], t)
      BY <1>0, <1>9, Appended
    <3> QED BY <3>1 DEF Waiting
  <2>4. /\ \A u \in Threads : Runnable(u)' <=> Is(ready, u)
        /\ Distinct(ready') /\ ~Is(ready', running') /\ PhasesOK'
    BY <1>0, <2>1, <2>2, Dispatched
  <2>5. \A u \in Threads : Is(ready, u) => Runnable(u)
    BY DEF Runnable
  <2>6. \A u \in Threads \ {t} : Runnable(u) => Is(ready, u)
    BY DEF Runnable
  <2>7. Places'
    BY <1>0, <1>2, <1>6, <2>2, <2>3, <2>4, <2>5, <2>6 DEF Core, Places
  <2> QED BY <1>4, <1>5, <2>4, <2>7 DEF Core
<1> QED BY <1>8, <1>9

(* The holder of a lock leaves, and the first behind it follows.            *)
LEMMA CoreRelease ==
    ASSUME TypeOK, Core, NEW t \in Threads, NEW l \in LockNames, running = t, pc[t] \in Section(l),
           pc' = [pc EXCEPT ![t] = "user"], Release(l), UNCHANGED sems
    PROVE  Core' /\ ready' \in Seq(Threads)
<1> DEFINE q == locks[l]
<1>0. /\ pc'[t] = "user" /\ \A u \in Threads \ {t} : pc'[u] = pc[u]
      /\ ready \in Seq(Threads) /\ \A k \in LockNames : locks[k] \in Seq(Threads)
      /\ locks'[l] = Tail(q) /\ \A k \in LockNames \ {l} : locks'[k] = locks[k]
      /\ ready' = IF Len(q) > 1 THEN Append(ready, q[2]) ELSE ready
      /\ running' = running /\ phase' = "due" /\ q \in Seq(Threads) /\ pc[t] \in PCs
  BY DEF TypeOK, KernelType, Release, OneTick
<1>1. Runnable(t) /\ ~Waiting(t) /\ ~Asleep(t)
  BY DEF Core, Places, Runnable
<1>2. \A k \in LockNames : ~Behind(locks[k], t)
  BY <1>1 DEF Waiting
<1>3. q # <<>> /\ t = q[1] /\ Distinct(q)
  BY <1>0, <1>2, QueueParts DEF Core, LocksOK
<1> HIDE DEF q
<1>4. \A u \in Threads : Asleep(u)' <=> Asleep(u)
  BY DEF Asleep
<1>5. LocksOK'
  <2>1. ASSUME NEW k \in LockNames
        PROVE  /\ Distinct(locks'[k])
               /\ \A u \in Threads : pc'[u] \in Section(k) <=> Is(locks'[k], u)
               /\ \A u \in Threads : Behind(locks'[k], u) => pc'[u] = Entry(k)
    <3>1. CASE k = l
      <4>1. /\ Distinct(q) /\ \A u \in Threads : pc[u] \in Section(l) <=> Is(q, u)
            /\ \A u \in Threads : Behind(q, u) => pc[u] = Entry(l)
        BY DEF Core, LocksOK, q
      <4>2. "user" \notin Section(l)
        BY Sections
      <4>3. ~Behind(q, t)
        BY <1>2 DEF q
      <4> QED BY <3>1, <4>1, <4>2, <4>3, <1>0, <1>3, Tailed
    <3>2. CASE k # l
      <4>1. pc[t] \notin Section(k) /\ "user" \notin Section(k)
        BY <3>2, <1>0, Sections
      <4> QED BY <3>2, <4>1, <1>0, <1>2 DEF Core, LocksOK
    <3> QED BY <3>1, <3>2
  <2> QED BY <2>1 DEF LocksOK
<1>6. SemsOK'
  <2>1. \A s \in SemNames : ~Is(sems[s].queue, t)
    BY <1>1 DEF Asleep
  <2> QED BY <1>0, <2>1 DEF Core, SemsOK
<1>7. PhasesOK'
  BY <1>0, Constants DEF PhasesOK
<1>8. CASE Len(q) > 1
  <2>1. PICK n \in Threads : n = q[2] /\ Behind(q, n) /\ ~Behind(Tail(q), n)
    BY <1>0, <1>3, <1>8, Tailed
  <2>2. Waiting(n) /\ pc[n] = Entry(l) /\ n # t
    BY <2>1, <1>2 DEF Waiting, Core, LocksOK, q
  <2>3. ~Runnable(n)
    BY <2>2 DEF Core, Places
  <2>4. ready' = Append(ready, n) /\ ~Is(ready, n) /\ n # running
    BY <1>0, <1>8, <2>1, <2>3 DEF Runnable
  <2>5. pc'[n] = Entry(l) /\ pc'[n] # "done"
    BY <2>2, <1>0, Sections
  <2>6. ~Asleep(n)
    BY <2>2, WaitPlaces DEF Asleep, Core, SemsOK
  <2>7. ~Waiting(n)'
    <3>1. ASSUME NEW k \in LockNames PROVE ~Behind(locks'[k], n)
      <4>1. CASE k = l
        BY <4>1, <1>0, <2>1
      <4>2. CASE k # l
        <5>1. Entry(l) # Entry(k)
          BY <4>2, Sections
        <5> QED BY <4>2, <5>1, <1>0, <2>2 DEF Core, LocksOK
      <4> QED BY <4>1, <4>2
    <3> QED BY <3>1 DEF Waiting
  <2>8. \A u \in Threads \ {n} : Waiting(u)' <=> Waiting(u)
    <3>1. \A k \in LockNames, u \in Threads \ {n} : Behind(locks'[k], u) <=> Behind(locks[k], u)
      <4> SUFFICES ASSUME NEW k \in LockNames, NEW u \in Threads \ {n}
                   PROVE  Behind(locks'[k], u) <=> Behind(locks[k], u)
        OBVIOUS
      <4>1. CASE k = l
        <5>1. Behind(Tail(q), u) <=> Behind(q, u)
          BY <1>0, <1>3, <2>1, Tailed
        <5> QED BY <4>1, <5>1, <1>0 DEF q
      <4>2. CASE k # l
        BY <4>2, <1>0
      <4> QED BY <4>1, <4>2
    <3> QED BY <3>1 DEF Waiting
  <2>9. \A u \in Threads : Runnable(u)' <=> Runnable(u) \/ u = n
    BY <1>0, <2>4, Appended DEF Runnable
  <2>10. Distinct(ready') /\ ~Is(ready', running') /\ ready' \in Seq(Threads)
    BY <1>0, <2>4, Appended DEF Core, Places
  <2>11. Places'
    BY <1>0, <1>1, <1>4, <2>5, <2>6, <2>7, <2>8, <2>9, <2>10 DEF Core, Places
  <2> QED BY <1>5, <1>6, <1>7, <2>10, <2>11 DEF Core
<1>9. CASE ~(Len(q) > 1)
  <2>1. \A u \in Threads : Waiting(u)' <=> Waiting(u)
    <3>1. \A k \in LockNames, u \in Threads : Behind(locks'[k], u) <=> Behind(locks[k], u)
      <4> SUFFICES ASSUME NEW k \in LockNames, NEW u \in Threads
                   PROVE  Behind(locks'[k], u) <=> Behind(locks[k], u)
        OBVIOUS
      <4>1. CASE k = l
        <5>1. Behind(Tail(q), u) <=> Behind(q, u)
          BY <1>0, <1>3, <1>9, Tailed
        <5> QED BY <4>1, <5>1, <1>0 DEF q
      <4>2. CASE k # l
        BY <4>2, <1>0
      <4> QED BY <4>1, <4>2
    <3> QED BY <3>1 DEF Waiting
  <2>2. \A u \in Threads : Runnable(u)' <=> Runnable(u)
    BY <1>0, <1>9 DEF Runnable
  <2>3. Places'
    BY <1>0, <1>1, <1>4, <1>9, <2>1, <2>2 DEF Core, Places
  <2> QED BY <1>0, <1>5, <1>6, <1>7, <1>9, <2>3 DEF Core
<1> QED BY <1>8, <1>9

(* The processor changes hands among those that can run.                    *)
LEMMA CoreDispatch ==
    ASSUME Core, NEW q \in Seq(Threads), Distinct(q), Dispatch(q),
           \A u \in Threads : Is(q, u) <=> Runnable(u), UNCHANGED <<pc, locks, sems>>
    PROVE  Core'
<1>1. \A u \in Threads : (Waiting(u)' <=> Waiting(u)) /\ (Asleep(u)' <=> Asleep(u))
  BY DEF Waiting, Asleep
<1>2. /\ \A u \in Threads : Runnable(u)' <=> Runnable(u)
      /\ Distinct(ready') /\ ~Is(ready', running') /\ PhasesOK'
  BY Dispatched
<1>3. Places'
  BY <1>1, <1>2 DEF Core, Places
<1> QED BY <1>2, <1>3 DEF Core, LocksOK, SemsOK

(* The running thread falls asleep or finishes: p is where it is left.      *)
LEMMA CoreSleep ==
    ASSUME TypeOK, Core, NEW t \in Threads, running = t, NEW p, pc' = [pc EXCEPT ![t] = p],
           \A l \in LockNames : pc[t] \in Section(l) <=> p \in Section(l),
           Dispatch(ready), UNCHANGED locks, SemsOK',
           \A u \in Threads : Asleep(u)' <=> Asleep(u) \/ (u = t /\ p # "done")
    PROVE  Core'
<1>0. /\ pc'[t] = p /\ \A u \in Threads \ {t} : pc'[u] = pc[u]
      /\ ready \in Seq(Threads)
  BY DEF TypeOK, KernelType
<1>1. Runnable(t) /\ ~Waiting(t) /\ ~Asleep(t) /\ Distinct(ready) /\ ~Is(ready, t)
  BY DEF Core, Places, Runnable
<1>2. \A u \in Threads : Waiting(u)' <=> Waiting(u)
  BY DEF Waiting
<1>3. LocksOK'
  <2>1. \A l \in LockNames : ~Behind(locks[l], t)
    BY <1>1 DEF Waiting
  <2>2. \A l \in LockNames : locks'[l] = locks[l]
    OBVIOUS
  <2> QED BY <1>0, <2>1, <2>2 DEF Core, LocksOK
<1>4. /\ \A u \in Threads : Runnable(u)' <=> Is(ready, u)
      /\ Distinct(ready') /\ ~Is(ready', running') /\ PhasesOK'
  BY <1>0, <1>1, Dispatched
<1>5. \A u \in Threads \ {t} : Is(ready, u) <=> Runnable(u)
  BY DEF Runnable
<1>6. Places'
  BY <1>0, <1>1, <1>2, <1>4, <1>5 DEF Core, Places
<1> QED BY <1>3, <1>4, <1>6 DEF Core

(* A handler wakes a thread, if one sleeps.                                 *)
LEMMA CoreV ==
    ASSUME TypeOK, Core, NEW s \in SemNames, V(s), UNCHANGED <<running, pc, locks>>, PhasesOK'
    PROVE  /\ Core' /\ ready' \in Seq(Threads)
           /\ sems' \in [SemNames -> [value : Nat, queue : Seq(Threads)]]
           /\ sems'[s].value = sems[s].value + 1
           /\ \A r \in SemNames \ {s} : sems'[r] = sems[r]
<1> DEFINE q == sems[s].queue
<1>0. /\ ready \in Seq(Threads) /\ q \in Seq(Threads) /\ sems[s].value \in Nat
      /\ sems'[s].queue = IF q = <<>> THEN q ELSE Tail(q)
      /\ sems'[s].value = sems[s].value + 1
      /\ \A r \in SemNames \ {s} : sems'[r] = sems[r]
      /\ ready' = IF q = <<>> THEN ready ELSE Append(ready, Head(q))
  BY DEF TypeOK, KernelType, V
<1>1. sems' \in [SemNames -> [value : Nat, queue : Seq(Threads)]]
  <2>1. sems'[s] = [value |-> sems[s].value + 1, queue |-> IF q = <<>> THEN q ELSE Tail(q)]
    BY DEF TypeOK, KernelType, V
  <2>2. sems'[s] \in [value : Nat, queue : Seq(Threads)]
    BY <1>0, <2>1, Tailed
  <2> QED BY <2>2 DEF TypeOK, KernelType, V
<1> HIDE DEF q
<1>2. CASE q = <<>>
  <2>1. QueuesKept /\ ready' = ready
    BY <1>0, <1>2 DEF QueuesKept, q
  <2> QED BY <1>0, <1>1, <2>1, CoreKept
<1>3. CASE q # <<>>
  <2>1. PICK w \in Threads : w = Head(q) /\ w = q[1] /\ Is(q, w) /\ ~Is(Tail(q), w)
    BY <1>0, <1>3, Tailed DEF Core, SemsOK, q
  <2>2. pc[w] = WaitAt(s) /\ Asleep(w)
    BY <2>1 DEF Core, SemsOK, Asleep, q
  <2>3. ~Runnable(w)
    BY <2>2 DEF Core, Places
  <2>4. ready' = Append(ready, w) /\ ~Is(ready, w) /\ w # running
    BY <1>0, <1>3, <2>1, <2>3 DEF Runnable
  <2>5. pc'[w] # "done"
    BY <2>2, WaitPlaces
  <2>6. ~Waiting(w)
    BY <2>2, WaitPlaces DEF Waiting, Core, LocksOK
  <2>7. ~Asleep(w)'
    <3>1. ASSUME NEW r \in SemNames PROVE ~Is(sems'[r].queue, w)
      <4>1. CASE r = s
        BY <4>1, <1>0, <1>3, <2>1
      <4>2. CASE r # s
        <5>1. WaitAt(r) # WaitAt(s)
          BY <4>2, WaitPlaces
        <5> QED BY <4>2, <5>1, <1>0, <2>2 DEF Core, SemsOK
      <4> QED BY <4>1, <4>2
    <3> QED BY <3>1 DEF Asleep
  <2>8. \A r \in SemNames, u \in Threads \ {w} : Is(sems'[r].queue, u) <=> Is(sems[r].queue, u)
    <3> SUFFICES ASSUME NEW r \in SemNames, NEW u \in Threads \ {w}
                 PROVE  Is(sems'[r].queue, u) <=> Is(sems[r].queue, u)
      OBVIOUS
    <3>1. CASE r = s
      <4>1. Is(q, u) <=> Is(Tail(q), u)
        BY <1>0, <1>3, <2>1, Tailed
      <4> QED BY <3>1, <4>1, <1>0, <1>3 DEF q
    <3>2. CASE r # s
      BY <3>2, <1>0
    <3> QED BY <3>1, <3>2
  <2>9. \A u \in Threads \ {w} : Asleep(u)' <=> Asleep(u)
    BY <2>8 DEF Asleep
  <2>10. \A u \in Threads : Waiting(u)' <=> Waiting(u)
    BY DEF Waiting
  <2>11. \A u \in Threads : Runnable(u)' <=> Runnable(u) \/ u = w
    BY <1>0, <2>4, Appended DEF Runnable
  <2>12. Distinct(ready') /\ ~Is(ready', running') /\ ready' \in Seq(Threads)
    <3>1. Distinct(ready) /\ ~Is(ready, running)
      BY DEF Core, Places
    <3>2. ready' \in Seq(Threads)
      BY <1>0, <2>4, Appended
    <3>3. CASE running = Nobody
      <4>1. ~Is(ready', Nobody)
        BY <3>2, Constants DEF Is
      <4> QED BY <3>1, <3>2, <3>3, <4>1, <1>0, <2>4, Appended
    <3>4. CASE running \in Threads
      BY <3>1, <3>2, <3>4, <1>0, <2>4, Appended
    <3> QED BY <3>3, <3>4 DEF TypeOK, KernelType
  <2>13. Places'
    BY <2>5, <2>6, <2>7, <2>9, <2>10, <2>11, <2>12 DEF Core, Places
  <2>14. SemsOK'
    <3>1. ASSUME NEW r \in SemNames
          PROVE  /\ Distinct(sems'[r].queue)
                 /\ \A u \in Threads : Is(sems'[r].queue, u) => pc'[u] = WaitAt(r)
      <4>1. Distinct(sems'[r].queue)
        <5>1. CASE r = s
          BY <5>1, <1>0, <1>3, Tailed DEF Core, SemsOK, q
        <5>2. CASE r # s
          BY <5>2, <1>0 DEF Core, SemsOK
        <5> QED BY <5>1, <5>2
      <4>2. ~Is(sems'[r].queue, w)
        BY <2>7 DEF Asleep
      <4> QED BY <4>1, <4>2, <2>8 DEF Core, SemsOK
    <3> QED BY <3>1 DEF SemsOK
  <2>15. LocksOK'
    BY DEF Core, LocksOK
  <2> QED BY <1>0, <1>1, <2>12, <2>13, <2>14, <2>15 DEF Core
<1> QED BY <1>2, <1>3

-----------------------------------------------------------------------------
(* The calls of the thread module                                           *)

(* A thread that goes on: it has the processor and a tick passes.           *)
LEMMA TickStep ==
    ASSUME Inv, NEW t \in Threads, running = t, NEW d \in Nat, OneTick(d), UNCHANGED <<running, ready>>,
           NEW p \in PCs \ {"done"}, pc' = [pc EXCEPT ![t] = p],
           \A l \in LockNames : pc[t] \in Section(l) <=> p \in Section(l),
           UNCHANGED locks, QueuesKept, sems' \in [SemNames -> [value : Nat, queue : Seq(Threads)]]
    PROVE  KernelType' /\ Core' /\ Same(pending, pending')
<1>0. TypeOK /\ Core /\ d \in Int
  BY DEF Inv
<1>1. /\ pending' \in Seq(Entries) /\ Same(pending, pending')
      /\ clock' \in 0 .. Revolution - 1 /\ bufferAge' \in Int
      /\ phase' = "due" /\ yieldOnReturn' = yieldOnReturn
  BY <1>0, Ticked
<1>2. PhasesOK'
  BY <1>1, Constants DEF PhasesOK
<1>3. Core'
  BY <1>0, <1>2, CoreMove
<1>4. KernelType'
  BY <1>0, <1>1 DEF TypeOK, KernelType, Phases
<1> QED BY <1>1, <1>3, <1>4

LEMMA AcquireStep ==
    ASSUME Inv, NEW t \in Threads, NEW l \in LockNames, running = t, pc[t] = "user",
           pc' = [pc EXCEPT ![t] = Entry(l)], Acquire(t, l), UNCHANGED sems
    PROVE  KernelType' /\ Core' /\ Same(pending, pending')
<1>0. TypeOK /\ Core /\ ready \in Seq(Threads) /\ Distinct(ready)
  BY DEF Inv, TypeOK, KernelType, Core, Places
<1>1. Core'
  BY <1>0, CoreAcquire
<1>2. pc' \in [Threads -> PCs] /\ locks' \in [LockNames -> Seq(Threads)]
  <2>1. Entry(l) \in PCs
    BY Sections
  <2>2. Append(locks[l], t) \in Seq(Threads)
    BY <1>0, Appended DEF TypeOK, KernelType
  <2> QED BY <1>0, <2>1, <2>2 DEF TypeOK, KernelType, Acquire
<1>3. CASE locks[l] = <<>>
  <2>1. OneTick(SystemTick) /\ UNCHANGED <<running, ready>> /\ SystemTick \in Int
    BY <1>3, Constants DEF Acquire
  <2>2. /\ pending' \in Seq(Entries) /\ Same(pending, pending')
        /\ clock' \in 0 .. Revolution - 1 /\ bufferAge' \in Int
        /\ phase' = "due" /\ yieldOnReturn' = yieldOnReturn
    BY <1>0, <2>1, Ticked
  <2> QED BY <1>0, <1>1, <1>2, <2>1, <2>2 DEF TypeOK, KernelType, Phases
<1>4. CASE locks[l] # <<>>
  <2>1. Dispatch(ready) /\ UNCHANGED <<time, yieldOnReturn>>
    BY <1>4 DEF Acquire, Sleep
  <2>2. ready' \in Seq(Threads) /\ running' \in Threads \cup {Nobody} /\ phase' \in Phases
    BY <1>0, <2>1, Dispatched
  <2>3. Same(pending, pending')
    BY <2>1 DEF Same, time
  <2> QED BY <1>0, <1>1, <1>2, <2>1, <2>2, <2>3 DEF TypeOK, KernelType, time
<1> QED BY <1>3, <1>4

LEMMA ReleaseStep ==
    ASSUME Inv, NEW t \in Threads, NEW l \in LockNames, running = t, pc[t] \in Section(l),
           pc' = [pc EXCEPT ![t] = "user"], Release(l), UNCHANGED sems
    PROVE  KernelType' /\ Core' /\ Same(pending, pending') /\ locks[l] # <<>> /\ locks[l][1] = t
<1>0. TypeOK /\ Core
  BY DEF Inv
<1>1. Core' /\ ready' \in Seq(Threads)
  BY <1>0, CoreRelease
<1>2. SystemTick \in Int
  BY Constants
<1>3. /\ pending' \in Seq(Entries) /\ Same(pending, pending')
      /\ clock' \in 0 .. Revolution - 1 /\ bufferAge' \in Int
      /\ phase' = "due" /\ yieldOnReturn' = yieldOnReturn
  BY <1>0, <1>2, Ticked DEF Release
<1>4. Is(locks[l], t) /\ ~Behind(locks[l], t)
  BY <1>0 DEF Core, LocksOK, Places, Runnable, Waiting
<1>5. locks[l] \in Seq(Threads) /\ locks[l] # <<>> /\ locks[l][1] = t
  BY <1>0, <1>4, QueueParts DEF TypeOK, KernelType
<1>6. locks' \in [LockNames -> Seq(Threads)]
  <2>1. Tail(locks[l]) \in Seq(Threads)
    BY <1>5, Tailed
  <2> QED BY <2>1, <1>0 DEF TypeOK, KernelType, Release
<1>7. pc' \in [Threads -> PCs] /\ running' = running
  BY <1>0 DEF TypeOK, KernelType, PCs, Release
<1>8. KernelType'
  BY <1>0, <1>1, <1>3, <1>6, <1>7 DEF TypeOK, KernelType, Phases
<1> QED BY <1>1, <1>3, <1>5, <1>8

(* P, by a thread that holds the driver's lock l.                           *)
LEMMA PStep ==
    ASSUME Inv, NEW t \in Threads, NEW l \in LockNames, NEW s \in SemNames, NEW call, NEW to \in PCs,
           P(t, s, call, WaitAt(s), to), UNCHANGED locks,
           {call, WaitAt(s), to} \subseteq Section(l)
    PROVE  /\ KernelType' /\ Core' /\ Same(pending, pending')
           /\ running = t /\ pc[t] \in {call, WaitAt(s)}
           /\ \A r \in SemNames \ {s} : sems'[r] = sems[r]
           /\ \/ /\ sems[s].value = 0 /\ sems'[s].value = 0
                 /\ pc' = [pc EXCEPT ![t] = WaitAt(s)]
              \/ /\ sems[s].value # 0 /\ sems'[s].value = sems[s].value - 1
                 /\ pc' = [pc EXCEPT ![t] = to]
<1>0. TypeOK /\ Core /\ ready \in Seq(Threads) /\ Distinct(ready) /\ running = t
      /\ pc[t] \in {call, WaitAt(s)} /\ sems[s].queue \in Seq(Threads) /\ sems[s].value \in Nat
  BY DEF Inv, TypeOK, KernelType, Core, Places, P
<1>1. /\ WaitAt(s) \in PCs /\ "done" \notin {WaitAt(s), to}
      /\ \A k \in LockNames : pc[t] \in Section(k) <=> WaitAt(s) \in Section(k)
      /\ \A k \in LockNames : pc[t] \in Section(k) <=> to \in Section(k)
  <2>1. WaitAt(s) \in PCs /\ call \in PCs /\ "done" \notin {WaitAt(s), to}
    BY Sections
  <2>2. \A k \in LockNames \ {l} : call \notin Section(k) /\ WaitAt(s) \notin Section(k) /\ to \notin Section(k)
    BY <2>1, Sections
  <2> QED BY <1>0, <2>1, <2>2
<1>2. CASE sems[s].value = 0
  <2>1. /\ sems' = [sems EXCEPT ![s].queue = Append(@, t)] /\ pc' = [pc EXCEPT ![t] = WaitAt(s)]
        /\ Dispatch(ready) /\ UNCHANGED <<time, yieldOnReturn>>
    BY <1>2 DEF P, Sleep
  <2>2. /\ sems'[s].value = 0 /\ \A r \in SemNames \ {s} : sems'[r] = sems[r]
        /\ sems'[s].queue = Append(sems[s].queue, t)
        /\ sems' \in [SemNames -> [value : Nat, queue : Seq(Threads)]]
    <3>1. sems'[s] = [value |-> sems[s].value, queue |-> Append(sems[s].queue, t)]
      BY <1>0, <2>1 DEF TypeOK, KernelType
    <3>2. Append(sems[s].queue, t) \in Seq(Threads)
      BY <1>0, Appended
    <3> QED BY <3>1, <3>2, <1>0, <1>2, <2>1 DEF TypeOK, KernelType
  <2>3. ~Asleep(t) /\ \A r \in SemNames : ~Is(sems[r].queue, t)
    BY <1>0 DEF Core, Places, Runnable, Asleep
  <2>4. \A r \in SemNames, u \in Threads :
            Is(sems'[r].queue, u) <=> Is(sems[r].queue, u) \/ (r = s /\ u = t)
    <3> SUFFICES ASSUME NEW r \in SemNames, NEW u \in Threads
                 PROVE  Is(sems'[r].queue, u) <=> Is(sems[r].queue, u) \/ (r = s /\ u = t)
      OBVIOUS
    <3>1. CASE r = s
      BY <3>1, <1>0, <2>2, Appended
    <3>2. CASE r # s
      BY <3>2, <2>2
    <3> QED BY <3>1, <3>2
  <2>5. \A u \in Threads : Asleep(u)' <=> Asleep(u) \/ (u = t /\ WaitAt(s) # "done")
    BY <2>4, <1>1 DEF Asleep
  <2>6. SemsOK'
    <3>1. ASSUME NEW r \in SemNames
          PROVE  /\ Distinct(sems'[r].queue)
                 /\ \A u \in Threads : Is(sems'[r].queue, u) => pc'[u] = WaitAt(r)
      <4>1. Distinct(sems'[r].queue)
        <5>1. CASE r = s
          BY <5>1, <1>0, <2>2, <2>3, Appended DEF Core, SemsOK
        <5>2. CASE r # s
          BY <5>2, <1>0, <2>2 DEF Core, SemsOK
        <5> QED BY <5>1, <5>2
      <4>2. pc'[t] = WaitAt(s) /\ \A u \in Threads \ {t} : pc'[u] = pc[u]
        BY <1>0, <2>1 DEF TypeOK, KernelType
      <4> QED BY <4>1, <4>2, <1>0, <2>3, <2>4 DEF Core, SemsOK
    <3> QED BY <3>1 DEF SemsOK
  <2>7. Core'
    BY <1>0, <1>1, <2>1, <2>5, <2>6, CoreSleep
  <2>8. ready' \in Seq(Threads) /\ running' \in Threads \cup {Nobody} /\ phase' \in Phases
    BY <1>0, <2>1, Dispatched
  <2>9. Same(pending, pending')
    BY <2>1 DEF Same, time
  <2>10. KernelType'
    BY <1>0, <1>1, <2>1, <2>2, <2>8 DEF TypeOK, KernelType, time
  <2> QED BY <1>0, <1>2, <2>1, <2>2, <2>7, <2>9, <2>10
<1>3. CASE sems[s].value # 0
  <2>1. /\ sems' = [sems EXCEPT ![s].value = @ - 1] /\ pc' = [pc EXCEPT ![t] = to]
        /\ OneTick(SystemTick) /\ UNCHANGED <<running, ready>>
    BY <1>3 DEF P
  <2>2. /\ sems'[s].value = sems[s].value - 1 /\ \A r \in SemNames \ {s} : sems'[r] = sems[r]
        /\ QueuesKept
        /\ sems' \in [SemNames -> [value : Nat, queue : Seq(Threads)]]
    <3>1. sems'[s] = [value |-> sems[s].value - 1, queue |-> sems[s].queue]
      BY <1>0, <2>1 DEF TypeOK, KernelType
    <3>2. sems[s].value - 1 \in Nat
      BY <1>0, <1>3
    <3> QED BY <3>1, <3>2, <1>0, <2>1 DEF TypeOK, KernelType, QueuesKept
  <2>3. to \in PCs \ {"done"} /\ SystemTick \in Nat
    BY <1>1, Constants
  <2>4. KernelType' /\ Core' /\ Same(pending, pending')
    BY <1>0, <1>1, <2>1, <2>2, <2>3, TickStep
  <2> QED BY <1>0, <1>3, <2>1, <2>2, <2>4
<1> QED BY <1>2, <1>3

-----------------------------------------------------------------------------
(* The devices                                                              *)

(* What a driver's state survives.                                          *)
LEMMA DriverKept ==
    ASSUME NEW list, NEW new, NEW type, NEW busy, NEW value, NEW W,
           Driver(list, type, busy, value, W),
           Comes(new, type) <=> Comes(list, type), Once(list, type) => Once(new, type)
    PROVE  Driver(new, type, busy, value, W)
BY DEF Driver

LEMMA DiskKept ==
    ASSUME DiskOK, Comes(pending', "disk") <=> Comes(pending, "disk"),
           Once(pending, "disk") => Once(pending', "disk"), UNCHANGED active,
           sems'["disk"].value = sems["disk"].value, DiskUsers' = DiskUsers
    PROVE  DiskOK'
<1>1. Driver(pending', "disk", active, sems["disk"].value, DiskUsers)
  BY DriverKept DEF DiskOK
<1> QED BY <1>1 DEF DiskOK

LEMMA OutputKept ==
    ASSUME OutputOK, Comes(pending', "consoleWrite") <=> Comes(pending, "consoleWrite"),
           Once(pending, "consoleWrite") => Once(pending', "consoleWrite"), UNCHANGED putBusy,
           sems'["outputDone"].value = sems["outputDone"].value, OutputUsers' = OutputUsers
    PROVE  OutputOK'
<1>1. Driver(pending', "consoleWrite", putBusy, sems["outputDone"].value, OutputUsers)
  BY DriverKept DEF OutputOK
<1> QED BY <1>1 DEF OutputOK

LEMMA InputKept ==
    ASSUME InputOK, Comes(pending, "consoleRead") => Comes(pending', "consoleRead"),
           \A t \in Threads : pc'[t] \in Section("input") =>
               pc[t] \in Section("input") \/ Comes(pending, "consoleRead")
    PROVE  InputOK'
BY DEF InputOK

(* A thread moves within a set of places, or outside it.                    *)
LEMMA UsersMoved ==
    ASSUME pc \in [Threads -> PCs], NEW t \in Threads, NEW p, pc' = [pc EXCEPT ![t] = p], NEW S,
           pc[t] \in S <=> p \in S
    PROVE  {u \in Threads : pc'[u] \in S} = {u \in Threads : pc[u] \in S}
<1>1. pc'[t] = p /\ \A u \in Threads \ {t} : pc'[u] = pc[u]
  OBVIOUS
<1> QED BY <1>1

(* A thread's step that is not about a device.                              *)
LEMMA DevicesKept ==
    ASSUME Inv, NEW t \in Threads, NEW p, pc' = [pc EXCEPT ![t] = p], Same(pending, pending'),
           pc[t] \in {"diskP", "diskWait"} <=> p \in {"diskP", "diskWait"},
           pc[t] \in {"writeP", "writeWait"} <=> p \in {"writeP", "writeWait"},
           p \in Section("input") => pc[t] \in Section("input") \/ Comes(pending, "consoleRead"),
           \A s \in SemNames : sems'[s].value = sems[s].value, UNCHANGED <<active, putBusy>>
    PROVE  DiskOK' /\ OutputOK' /\ InputOK'
<1>0. /\ pc \in [Threads -> PCs] /\ pc'[t] = p /\ \A u \in Threads \ {t} : pc'[u] = pc[u]
      /\ DiskOK /\ OutputOK /\ InputOK /\ {"disk", "outputDone", "inputAvailable"} \subseteq SemNames
  BY DEF Inv, TypeOK, KernelType, SemNames
<1>1. DiskUsers' = DiskUsers
  BY <1>0, UsersMoved DEF DiskUsers
<1>2. OutputUsers' = OutputUsers
  BY <1>0, UsersMoved DEF OutputUsers
<1>3. DiskOK'
  BY <1>0, <1>1, DiskKept DEF Same
<1>4. OutputOK'
  BY <1>0, <1>2, OutputKept DEF Same
<1>5. InputOK'
  BY <1>0, InputKept DEF Same
<1> QED BY <1>3, <1>4, <1>5

(* The machine's step that leaves threads and devices alone.                *)
LEMMA DevicesUntouched ==
    ASSUME Inv, Same(pending, pending'), UNCHANGED <<pc, sems, disk, console>>
    PROVE  DiskOK' /\ OutputOK' /\ InputOK'
<1>0. DiskOK /\ OutputOK /\ InputOK
  BY DEF Inv
<1>1. DiskUsers' = DiskUsers /\ OutputUsers' = OutputUsers
  BY DEF DiskUsers, OutputUsers
<1>2. DiskOK'
  BY <1>0, <1>1, DiskKept DEF Same, disk
<1>3. OutputOK'
  BY <1>0, <1>1, OutputKept DEF Same, console
<1>4. InputOK'
  BY <1>0, InputKept DEF Same, console
<1> QED BY <1>2, <1>3, <1>4

(* The running thread and any other thread past Acquire are one: a lock has
   one holder.                                                              *)
LEMMA Sole ==
    ASSUME TypeOK, Core, NEW l \in LockNames, NEW t \in Threads, NEW u \in Threads,
           pc[t] \in Section(l), pc[u] \in Section(l),
           running = t \/ pc[t] # Entry(l), running = u \/ pc[u] # Entry(l)
    PROVE  t = u /\ locks[l] # <<>> /\ locks[l][1] = t
<1>1. \A v \in Threads : pc[v] \in Section(l) /\ (running = v \/ pc[v] # Entry(l)) =>
         Is(locks[l], v) /\ ~Behind(locks[l], v)
  BY DEF Core, LocksOK, Places, Runnable, Waiting
<1>2. locks[l] \in Seq(Threads)
  BY DEF TypeOK, KernelType
<1>3. \A v \in Threads : pc[v] \in Section(l) /\ (running = v \/ pc[v] # Entry(l)) =>
         locks[l] # <<>> /\ v = locks[l][1]
  BY <1>1, <1>2, QueueParts
<1> QED BY <1>3

-----------------------------------------------------------------------------
(* The steps of the threads                                                 *)

LEMMA InstructionInv == ASSUME Inv, NEW t \in Threads, Instruction(t) PROVE Inv'
<1>0. /\ TypeOK /\ Core /\ running = t /\ pc[t] = "user" /\ pc' = [pc EXCEPT ![t] = "user"]
      /\ OneTick(UserTick) /\ UNCHANGED <<running, ready, locks, sems, disk, console, io>>
      /\ left[t] > 0 /\ left' = [left EXCEPT ![t] = @ - 1]
  BY DEF Inv, Instruction, At, Call
<1>1. QueuesKept /\ sems' \in [SemNames -> [value : Nat, queue : Seq(Threads)]]
  BY <1>0 DEF QueuesKept, TypeOK, KernelType
<1>2. UserTick \in Nat /\ "user" \in PCs \ {"done"}
  BY Constants DEF PCs
<1>3. KernelType' /\ Core' /\ Same(pending, pending')
  BY <1>0, <1>1, <1>2, TickStep
<1>4. "user" \notin Section("input")
  BY Sections DEF LockNames
<1>5. DiskOK' /\ OutputOK' /\ InputOK'
  BY <1>0, <1>3, <1>4, DevicesKept DEF disk, console
<1>6. DeviceType'
  BY <1>0 DEF TypeOK, DeviceType, disk, console, io
<1> QED BY <1>3, <1>5, <1>6 DEF Inv, TypeOK

LEMMA FinishInv == ASSUME Inv, NEW t \in Threads, Finish(t) PROVE Inv'
<1>0. /\ TypeOK /\ Core /\ running = t /\ pc[t] = "user" /\ pc' = [pc EXCEPT ![t] = "done"]
      /\ Dispatch(ready) /\ UNCHANGED <<time, yieldOnReturn>>
      /\ UNCHANGED <<left, locks, sems, disk, console, io>>
  BY DEF Inv, Finish, At, Sleep
<1>1. ready \in Seq(Threads) /\ Distinct(ready)
  BY <1>0 DEF TypeOK, KernelType, Core, Places
<1>2. \A l \in LockNames : "user" \notin Section(l) /\ "done" \notin Section(l)
  BY Sections
<1>3. \A u \in Threads : Asleep(u)' <=> Asleep(u)
  BY <1>0 DEF Asleep
<1>4. SemsOK'
  <2>1. \A s \in SemNames : ~Is(sems[s].queue, t)
    BY <1>0 DEF Asleep, Core, Places, Runnable
  <2>2. \A u \in Threads \ {t} : pc'[u] = pc[u]
    BY <1>0 DEF TypeOK, KernelType
  <2> QED BY <1>0, <2>1, <2>2 DEF Core, SemsOK
<1>5. Core'
  <2>1. \A u \in Threads : Asleep(u)' <=> Asleep(u) \/ (u = t /\ "done" # "done")
    BY <1>3
  <2>2. \A l \in LockNames : pc[t] \in Section(l) <=> "done" \in Section(l)
    BY <1>0, <1>2
  <2> QED BY <1>0, <1>4, <2>1, <2>2, CoreSleep
<1>6. ready' \in Seq(Threads) /\ running' \in Threads \cup {Nobody} /\ phase' \in Phases
  BY <1>0, <1>1, Dispatched
<1>7. KernelType'
  BY <1>0, <1>6 DEF TypeOK, KernelType, PCs, time
<1>8. Same(pending, pending')
  BY <1>0 DEF Same, time
<1>9. DiskOK' /\ OutputOK' /\ InputOK'
  <2>1. "done" \notin Section("input")
    BY <1>2 DEF LockNames
  <2> QED BY <1>0, <1>8, <2>1, DevicesKept DEF disk, console
<1>10. DeviceType'
  BY <1>0 DEF TypeOK, DeviceType, disk, console, io
<1> QED BY <1>5, <1>7, <1>9, <1>10 DEF Inv, TypeOK

(* The start of a call of a driver.                                         *)
LEMMA CallInv ==
    ASSUME Inv, NEW t \in Threads, NEW l \in LockNames, At(t, "user", Entry(l)), Call(t), Acquire(t, l),
           UNCHANGED <<sems, disk, console, display, taken>>, count' \in [Threads -> Int],
           l = "input" => Comes(pending, "consoleRead")
    PROVE  Inv'
<1>0. /\ TypeOK /\ running = t /\ pc[t] = "user" /\ pc' = [pc EXCEPT ![t] = Entry(l)]
      /\ left[t] > 0 /\ left' = [left EXCEPT ![t] = @ - 1]
  BY DEF Inv, At, Call
<1>1. KernelType' /\ Core' /\ Same(pending, pending')
  BY <1>0, AcquireStep
<1>2. /\ Entry(l) \notin {"diskP", "diskWait", "writeP", "writeWait", "readGet"}
      /\ Entry(l) \in Section("input") => l = "input"
  BY DEF LockNames, Entry, Section
<1>3. DiskOK' /\ OutputOK' /\ InputOK'
  BY <1>0, <1>1, <1>2, DevicesKept DEF disk, console
<1>4. DeviceType'
  BY <1>0 DEF TypeOK, DeviceType, disk, console
<1> QED BY <1>1, <1>3, <1>4 DEF Inv, TypeOK

LEMMA CallsInv ==
    ASSUME Inv, NEW t \in Threads, DiskCall(t) \/ WriteLine(t) \/ ReadLine(t)
    PROVE  Inv'
<1>0. /\ {"disk", "output", "input"} \subseteq LockNames /\ LineLength \in Nat
      /\ Entry("disk") = "diskGo" /\ Entry("output") = "writePut" /\ Entry("input") = "readP"
      /\ count \in [Threads -> Int]
  BY Constants DEF LockNames, Entry, Inv, TypeOK, DeviceType
<1>1. CASE DiskCall(t)
  BY <1>0, <1>1, CallInv DEF DiskCall, io
<1>2. CASE WriteLine(t)
  <2>1. count' \in [Threads -> Int]
    BY <1>0, <1>2 DEF WriteLine
  <2> QED BY <1>0, <1>2, <2>1, CallInv DEF WriteLine
<1>3. CASE ReadLine(t)
  <2>1. count' \in [Threads -> Int]
    BY <1>0, <1>3 DEF ReadLine
  <2>2. Comes(pending, "consoleRead")
    BY <1>3 DEF ReadLine, HasConsole, Comes, Inv, TypeOK, KernelType
  <2> QED BY <1>0, <1>3, <2>1, <2>2, CallInv DEF ReadLine
<1> QED BY <1>1, <1>2, <1>3

(* Its end.                                                                 *)
LEMMA ReturnInv ==
    ASSUME Inv, NEW t \in Threads, NEW l \in LockNames, NEW from \in Section(l), At(t, from, "user"),
           from \notin {"diskP", "diskWait", "writeP", "writeWait"},
           Release(l), UNCHANGED <<left, sems, disk, console, io>>
    PROVE  Inv'
<1>0. TypeOK /\ running = t /\ pc[t] = from /\ pc' = [pc EXCEPT ![t] = "user"]
  BY DEF Inv, At
<1>1. KernelType' /\ Core' /\ Same(pending, pending')
  BY <1>0, ReleaseStep
<1>2. "user" \notin Section("input")
  BY Sections DEF LockNames
<1>3. DiskOK' /\ OutputOK' /\ InputOK'
  BY <1>0, <1>1, <1>2, DevicesKept DEF disk, console
<1>4. DeviceType'
  BY <1>0 DEF TypeOK, DeviceType, disk, console, io
<1> QED BY <1>1, <1>3, <1>4 DEF Inv, TypeOK

LEMMA ReturnsInv ==
    ASSUME Inv, NEW t \in Threads, DiskRelease(t) \/ WriteRelease(t) \/ ReadRelease(t)
    PROVE  Inv'
<1>0. /\ {"disk", "output", "input"} \subseteq LockNames
      /\ "diskRelease" \in Section("disk") /\ "writeRelease" \in Section("output")
      /\ "readRelease" \in Section("input")
  BY DEF LockNames, Section
<1>1. CASE DiskRelease(t)
  BY <1>0, <1>1, ReturnInv DEF DiskRelease
<1>2. CASE WriteRelease(t)
  BY <1>0, <1>2, ReturnInv DEF WriteRelease
<1>3. CASE ReadRelease(t)
  BY <1>0, <1>3, ReturnInv DEF ReadRelease
<1> QED BY <1>1, <1>2, <1>3

(* A request while the device is idle.                                      *)
LEMMA DriverAsked ==
    ASSUME NEW list, NEW new, NEW type, NEW busy \in BOOLEAN, NEW value \in Nat, NEW W,
           Driver(list, type, busy, value, {}),
           Once(list, type) /\ ~Comes(list, type) => Once(new, type), Comes(new, type), W # {}
    PROVE  Driver(new, type, TRUE, value, W)
BY DEF Driver

(* The device is done.                                                      *)
LEMMA DriverDone ==
    ASSUME NEW list, NEW new, NEW type, NEW busy \in BOOLEAN, NEW value \in Nat, NEW W,
           Driver(list, type, busy, value, W), Comes(list, type),
           Once(new, type), ~Comes(new, type)
    PROVE  Driver(new, type, FALSE, value + 1, W)
<1>1. busy = TRUE /\ value = 0 /\ W # {}
  BY DEF Driver
<1> QED BY <1>1 DEF Driver

(* The thread has noticed.                                                  *)
LEMMA DriverNoticed ==
    ASSUME NEW list, NEW new, NEW type, NEW busy \in BOOLEAN, NEW value \in Nat, NEW W,
           Driver(list, type, busy, value, W), value # 0,
           Comes(new, type) <=> Comes(list, type), Once(list, type) => Once(new, type)
    PROVE  Driver(new, type, busy, value - 1, {})
<1>1. busy = FALSE /\ value = 1
  BY DEF Driver
<1> QED BY <1>1 DEF Driver

(* A driver's request: with the lock, so that nobody else waits.            *)
LEMMA DiskRequestInv ==
    ASSUME Inv, NEW t \in Threads, NEW s \in Sectors, NEW writing \in BOOLEAN,
           DiskRequest(t, s, writing)
    PROVE  Inv'
<1>0. /\ TypeOK /\ Core /\ DiskOK /\ OutputOK /\ InputOK
      /\ phase = "run" /\ running = t /\ pc[t] = "diskGo" /\ pc' = [pc EXCEPT ![t] = "diskP"]
      /\ active' = TRUE /\ lastSector' = s /\ UpdateLast(s)
      /\ pending' = SortedInsert(pending, Later("disk", ComputeLatency(s, writing)))
      /\ UNCHANGED <<clock, running, ready, phase, yieldOnReturn, left, locks, sems, console, io>>
  BY DEF Inv, DiskRequest, At, UpdateLast, cpu
<1>1. Later("disk", ComputeLatency(s, writing)) \in Entries /\ bufferAge' \in Int
  <2>1. /\ SeekTime \in Int /\ RotationTime \in Int /\ RotationTime > 0 /\ SectorsPerTrack \in Int
        /\ SectorsPerTrack > 0 /\ Revolution \in Int /\ Revolution > 0
        /\ s \in Int /\ lastSector \in Int /\ clock \in Int /\ bufferAge \in Int
    <3>1. /\ lastSector \in Sectors /\ clock \in 0 .. Revolution - 1 /\ bufferAge \in Int
          /\ Sectors \subseteq Nat /\ Revolution \in Nat \ {0}
          /\ {SeekTime, RotationTime, SectorsPerTrack} \subseteq Nat \ {0}
      BY <1>0, Constants DEF TypeOK, KernelType, DeviceType
    <3>2. s \in Nat /\ lastSector \in Nat
      BY <3>1
    <3> QED BY <3>1, <3>2
  <2>2. Track(s) \in Int /\ Track(lastSector) \in Int
    BY <2>1 DEF Track
  <2>3. Seek(s) \in Int
    <3>1. \A a, b \in Int : a * b \in Int
      OBVIOUS
    <3> HIDE DEF Track
    <3> QED BY <2>1, <2>2, <3>1 DEF Seek
  <2>4. \A n \in Int : n % RotationTime \in Int /\ n \div RotationTime \in Int
    BY <2>1
  <2>5. \A n \in Int : n % SectorsPerTrack \in Int /\ n % Revolution \in Int
    BY <2>1
  <2>6. Rotation(s) \in Int
    BY <2>1, <2>3, <2>4 DEF Rotation
  <2>7. \A n \in Int : ModuloDiff(s, n) \in Int
    BY <2>1, <2>5 DEF ModuloDiff
  <2>8. ComputeLatency(s, writing) \in Int
    <3>1. clock + Seek(s) + Rotation(s) \in Int
      BY <2>1, <2>3, <2>6
    <3>2. ModuloDiff(s, (clock + Seek(s) + Rotation(s)) \div RotationTime) \in Int
      BY <3>1, <2>4, <2>7
    <3>3. ModuloDiff(s, (clock + Seek(s) + Rotation(s)) \div RotationTime) * RotationTime \in Int
      <4> DEFINE m == ModuloDiff(s, (clock + Seek(s) + Rotation(s)) \div RotationTime)
      <4>1. m \in Int
        BY <3>2
      <4> HIDE DEF m
      <4>2. m * RotationTime \in Int
        BY <4>1, <2>1
      <4> QED BY <4>2 DEF m
    <3>4. \/ ComputeLatency(s, writing) = RotationTime
          \/ ComputeLatency(s, writing) = Seek(s) + Rotation(s)
               + ModuloDiff(s, (clock + Seek(s) + Rotation(s)) \div RotationTime) * RotationTime
               + RotationTime
      BY Zenon DEF ComputeLatency
    <3> QED BY <3>3, <3>4, <2>1, <2>3, <2>6
  <2>9. bufferAge' \in Int
    BY <1>0, <2>1, <2>3, <2>6 DEF UpdateLast
  <2> QED BY <2>8, <2>9 DEF Later, Entries, Types
<1>2. /\ pending' \in Seq(Entries)
      /\ \A type : Comes(pending', type) <=> Comes(pending, type) \/ type = "disk"
      /\ \A type : Once(pending, type) /\ (type = "disk" => ~Comes(pending, type)) => Once(pending', type)
  <2>1. pending \in Seq(Entries)
    BY <1>0 DEF TypeOK, KernelType
  <2>2. Later("disk", ComputeLatency(s, writing)).type = "disk"
    BY DEF Later
  <2> QED BY <1>0, <1>1, <2>1, <2>2, Inserted
<1>3. /\ {"disk", "output", "input"} \subseteq LockNames /\ "diskGo" \in Section("disk") /\ "diskP" \in PCs
      /\ Section("disk") = {"diskGo", "diskP", "diskWait", "diskRelease"}
      /\ "diskP" \notin Section("output") /\ "diskP" \notin Section("input")
      /\ "diskGo" \notin Section("output") /\ "diskGo" \notin Section("input")
      /\ Entry("disk") = "diskGo" /\ LockNames = {"disk", "input", "output"}
  BY DEF LockNames, Section, PCs, Entry
<1>4. KernelType'
  BY <1>0, <1>1, <1>2, <1>3 DEF TypeOK, KernelType
<1>5. PhasesOK' /\ QueuesKept
  BY <1>0 DEF Core, PhasesOK, QueuesKept
<1>6. Core'
  <2>1. \A l \in LockNames : pc[t] \in Section(l) <=> "diskP" \in Section(l)
    BY <1>0, <1>3
  <2> QED BY <1>0, <1>5, <2>1, CoreMove
<1>7. DiskUsers = {}
  BY <1>0, <1>3, Sole DEF DiskUsers
<1>8. DiskUsers' # {}
  BY <1>0, <1>4 DEF DiskUsers, TypeOK, KernelType
<1>9. DiskOK'
  <2>1. active \in BOOLEAN /\ sems["disk"].value \in Nat
    BY <1>0 DEF TypeOK, KernelType, DeviceType, SemNames
  <2>2. Driver(pending', "disk", TRUE, sems["disk"].value, DiskUsers')
    BY <1>0, <1>2, <1>7, <1>8, <2>1, DriverAsked DEF DiskOK
  <2> QED BY <1>0, <2>2 DEF DiskOK
<1>10. OutputOK'
  <2>1. OutputUsers' = OutputUsers
    BY <1>0, UsersMoved DEF OutputUsers, TypeOK, KernelType
  <2> QED BY <1>0, <1>2, <2>1, OutputKept DEF console
<1>11. InputOK'
  <2>1. \A u \in Threads : pc'[u] = pc[u] \/ pc'[u] = "diskP"
    BY <1>0 DEF TypeOK, KernelType
  <2> QED BY <1>0, <1>2, <1>3, <2>1, InputKept DEF console
<1>12. DeviceType'
  BY <1>0 DEF TypeOK, DeviceType, console, io
<1> QED BY <1>4, <1>6, <1>9, <1>10, <1>11, <1>12 DEF Inv, TypeOK

LEMMA PutCharInv == ASSUME Inv, NEW t \in Threads, PutChar(t) PROVE Inv'
<1>0. /\ TypeOK /\ Core /\ DiskOK /\ OutputOK /\ InputOK
      /\ phase = "run" /\ running = t /\ pc[t] = "writePut" /\ pc' = [pc EXCEPT ![t] = "writeP"]
      /\ putBusy' = TRUE /\ display' = Append(display, t) /\ count' = [count EXCEPT ![t] = @ - 1]
      /\ pending' = SortedInsert(pending, Later("consoleWrite", ConsoleTime))
      /\ UNCHANGED <<clock, bufferAge, running, ready, phase, yieldOnReturn, left, locks, sems, disk,
                     incoming, typed, taken>>
  BY DEF Inv, PutChar, At, cpu
<1>1. Later("consoleWrite", ConsoleTime) \in Entries
  BY Constants DEF Later, Entries, Types
<1>2. /\ pending' \in Seq(Entries)
      /\ \A type : Comes(pending', type) <=> Comes(pending, type) \/ type = "consoleWrite"
      /\ \A type : Once(pending, type) /\ (type = "consoleWrite" => ~Comes(pending, type))
                     => Once(pending', type)
  <2>1. pending \in Seq(Entries)
    BY <1>0 DEF TypeOK, KernelType
  <2>2. Later("consoleWrite", ConsoleTime).type = "consoleWrite"
    BY DEF Later
  <2> QED BY <1>0, <1>1, <2>1, <2>2, Inserted
<1>3. /\ {"disk", "output", "input"} \subseteq LockNames /\ "writePut" \in Section("output") /\ "writeP" \in PCs
      /\ Section("output") = {"writePut", "writeP", "writeWait", "writeRelease"}
      /\ "writeP" \notin Section("disk") /\ "writeP" \notin Section("input")
      /\ "writePut" \notin Section("disk") /\ "writePut" \notin Section("input")
      /\ Entry("output") = "writePut" /\ LockNames = {"disk", "input", "output"}
  BY DEF LockNames, Section, PCs, Entry
<1>4. KernelType'
  BY <1>0, <1>1, <1>2, <1>3 DEF TypeOK, KernelType
<1>5. PhasesOK' /\ QueuesKept
  BY <1>0 DEF Core, PhasesOK, QueuesKept
<1>6. Core'
  <2>1. \A l \in LockNames : pc[t] \in Section(l) <=> "writeP" \in Section(l)
    BY <1>0, <1>3
  <2> QED BY <1>0, <1>5, <2>1, CoreMove
<1>7. OutputUsers = {}
  BY <1>0, <1>3, Sole DEF OutputUsers
<1>8. OutputUsers' # {}
  BY <1>0, <1>4 DEF OutputUsers, TypeOK, KernelType
<1>9. OutputOK'
  <2>1. putBusy \in BOOLEAN /\ sems["outputDone"].value \in Nat
    BY <1>0 DEF TypeOK, KernelType, DeviceType, SemNames
  <2>2. Driver(pending', "consoleWrite", TRUE, sems["outputDone"].value, OutputUsers')
    BY <1>0, <1>2, <1>7, <1>8, <2>1, DriverAsked DEF OutputOK
  <2> QED BY <1>0, <2>2 DEF OutputOK
<1>10. DiskOK'
  <2>1. DiskUsers' = DiskUsers
    BY <1>0, UsersMoved DEF DiskUsers, TypeOK, KernelType
  <2> QED BY <1>0, <1>2, <2>1, DiskKept DEF disk
<1>11. InputOK'
  <2>1. \A u \in Threads : pc'[u] = pc[u] \/ pc'[u] = "writeP"
    BY <1>0 DEF TypeOK, KernelType
  <2> QED BY <1>0, <1>2, <1>3, <2>1, InputKept
<1>12. DeviceType'
  BY <1>0 DEF TypeOK, DeviceType, disk
<1> QED BY <1>4, <1>6, <1>9, <1>10, <1>11, <1>12 DEF Inv, TypeOK


(* The wait for a device: the thread sleeps, or notices that it is done.    *)
LEMMA DiskWaitInv == ASSUME Inv, NEW t \in Threads, DiskWait(t) PROVE Inv'
<1>0. /\ TypeOK /\ Core /\ DiskOK /\ OutputOK /\ InputOK
      /\ P(t, "disk", "diskP", WaitAt("disk"), "diskRelease")
      /\ UNCHANGED <<left, locks, disk, console, io>>
  BY WaitPlaces DEF Inv, DiskWait
<1>1. /\ "disk" \in LockNames /\ "disk" \in SemNames /\ "diskRelease" \in PCs
      /\ {"diskP", WaitAt("disk"), "diskRelease"} \subseteq Section("disk")
      /\ "diskWait" \notin Section("input") /\ "diskRelease" \notin Section("input")
      /\ SemNames = {"disk", "inputAvailable", "outputDone"} /\ Entry("disk") = "diskGo"
      /\ {"diskP", "diskWait"} \subseteq Section("disk")
  BY WaitPlaces DEF LockNames, SemNames, PCs, Section, Entry
<1>2. /\ KernelType' /\ Core' /\ Same(pending, pending')
      /\ running = t /\ pc[t] \in {"diskP", "diskWait"}
      /\ \A r \in SemNames \ {"disk"} : sems'[r] = sems[r]
      /\ \/ /\ sems["disk"].value = 0 /\ sems'["disk"].value = 0
            /\ pc' = [pc EXCEPT ![t] = "diskWait"]
         \/ /\ sems["disk"].value # 0 /\ sems'["disk"].value = sems["disk"].value - 1
            /\ pc' = [pc EXCEPT ![t] = "diskRelease"]
  BY <1>0, <1>1, PStep, WaitPlaces
<1>3. DeviceType'
  BY <1>0 DEF TypeOK, DeviceType, disk, console, io
<1>4. CASE sems["disk"].value = 0 /\ sems'["disk"].value = 0 /\ pc' = [pc EXCEPT ![t] = "diskWait"]
  <2>1. \A s \in SemNames : sems'[s].value = sems[s].value
    BY <1>2, <1>4
  <2>2. DiskOK' /\ OutputOK' /\ InputOK'
    BY <1>0, <1>1, <1>2, <1>4, <2>1, DevicesKept DEF disk, console
  <2> QED BY <1>2, <1>3, <2>2 DEF Inv, TypeOK
<1>5. CASE /\ sems["disk"].value # 0 /\ sems'["disk"].value = sems["disk"].value - 1
           /\ pc' = [pc EXCEPT ![t] = "diskRelease"]
  <2>1. DiskUsers' = {}
    <3>1. \A u \in Threads \ {t} : pc[u] \notin {"diskP", "diskWait"}
      BY <1>0, <1>1, <1>2, Sole
    <3>2. pc'[t] = "diskRelease" /\ \A u \in Threads \ {t} : pc'[u] = pc[u]
      BY <1>0, <1>5 DEF TypeOK, KernelType
    <3> QED BY <3>1, <3>2 DEF DiskUsers
  <2>2. DiskOK'
    <3>1. active \in BOOLEAN /\ sems["disk"].value \in Nat /\ active' = active
      BY <1>0, <1>1 DEF TypeOK, KernelType, DeviceType, disk
    <3>2. Driver(pending', "disk", active, sems["disk"].value - 1, {})
      BY <1>0, <1>2, <1>5, <3>1, DriverNoticed DEF DiskOK, Same
    <3> QED BY <1>5, <2>1, <3>1, <3>2 DEF DiskOK
  <2>3. OutputOK'
    <3>1. OutputUsers' = OutputUsers
      BY <1>0, <1>2, <1>5, UsersMoved DEF OutputUsers, TypeOK, KernelType
    <3> QED BY <1>0, <1>1, <1>2, <3>1, OutputKept DEF console, Same
  <2>4. InputOK'
    <3>1. \A u \in Threads : pc'[u] = pc[u] \/ pc'[u] = "diskRelease"
      BY <1>0, <1>5 DEF TypeOK, KernelType
    <3> QED BY <1>0, <1>1, <1>2, <3>1, InputKept DEF console, Same
  <2> QED BY <1>2, <1>3, <2>2, <2>3, <2>4 DEF Inv, TypeOK
<1> QED BY <1>2, <1>4, <1>5

LEMMA WriteWaitInv == ASSUME Inv, NEW t \in Threads, WriteWait(t) PROVE Inv'
<1> DEFINE to == IF count[t] > 0 THEN "writePut" ELSE "writeRelease"
<1>0. /\ TypeOK /\ Core /\ DiskOK /\ OutputOK /\ InputOK
      /\ P(t, "outputDone", "writeP", WaitAt("outputDone"), to)
      /\ UNCHANGED <<left, locks, disk, console, io>> /\ to \in {"writePut", "writeRelease"}
  BY WaitPlaces DEF Inv, WriteWait
<1> HIDE DEF to
<1>1. /\ "output" \in LockNames /\ "outputDone" \in SemNames /\ to \in PCs
      /\ {"writeP", WaitAt("outputDone"), to} \subseteq Section("output")
      /\ "writeWait" \notin Section("input") /\ to \notin Section("input")
      /\ SemNames = {"disk", "inputAvailable", "outputDone"} /\ Entry("output") = "writePut"
      /\ {"writeP", "writeWait"} \subseteq Section("output")
  BY <1>0, WaitPlaces DEF LockNames, SemNames, PCs, Section, Entry
<1>2. /\ KernelType' /\ Core' /\ Same(pending, pending')
      /\ running = t /\ pc[t] \in {"writeP", "writeWait"}
      /\ \A r \in SemNames \ {"outputDone"} : sems'[r] = sems[r]
      /\ \/ /\ sems["outputDone"].value = 0 /\ sems'["outputDone"].value = 0
            /\ pc' = [pc EXCEPT ![t] = "writeWait"]
         \/ /\ sems["outputDone"].value # 0
            /\ sems'["outputDone"].value = sems["outputDone"].value - 1
            /\ pc' = [pc EXCEPT ![t] = to]
  BY <1>0, <1>1, PStep, WaitPlaces
<1>3. DeviceType'
  BY <1>0 DEF TypeOK, DeviceType, disk, console, io
<1>4. CASE /\ sems["outputDone"].value = 0 /\ sems'["outputDone"].value = 0
           /\ pc' = [pc EXCEPT ![t] = "writeWait"]
  <2>1. \A s \in SemNames : sems'[s].value = sems[s].value
    BY <1>2, <1>4
  <2>2. DiskOK' /\ OutputOK' /\ InputOK'
    BY <1>0, <1>1, <1>2, <1>4, <2>1, DevicesKept DEF disk, console
  <2> QED BY <1>2, <1>3, <2>2 DEF Inv, TypeOK
<1>5. CASE /\ sems["outputDone"].value # 0
           /\ sems'["outputDone"].value = sems["outputDone"].value - 1
           /\ pc' = [pc EXCEPT ![t] = to]
  <2>1. OutputUsers' = {}
    <3>1. \A u \in Threads \ {t} : pc[u] \notin {"writeP", "writeWait"}
      BY <1>0, <1>1, <1>2, Sole
    <3>2. pc'[t] = to /\ \A u \in Threads \ {t} : pc'[u] = pc[u]
      BY <1>0, <1>5 DEF TypeOK, KernelType
    <3> QED BY <1>0, <3>1, <3>2 DEF OutputUsers
  <2>2. OutputOK'
    <3>1. putBusy \in BOOLEAN /\ sems["outputDone"].value \in Nat /\ putBusy' = putBusy
      BY <1>0, <1>1 DEF TypeOK, KernelType, DeviceType, console
    <3>2. /\ Driver(pending, "consoleWrite", putBusy, sems["outputDone"].value, OutputUsers)
          /\ Comes(pending', "consoleWrite") <=> Comes(pending, "consoleWrite")
          /\ Once(pending, "consoleWrite") => Once(pending', "consoleWrite")
      BY <1>0, <1>2 DEF OutputOK, Same
    <3>3. Driver(pending', "consoleWrite", putBusy, sems["outputDone"].value - 1, {})
      BY <1>5, <3>1, <3>2, DriverNoticed
    <3> QED BY <1>5, <2>1, <3>1, <3>3 DEF OutputOK
  <2>3. DiskOK'
    <3>1. DiskUsers' = DiskUsers
      BY <1>0, <1>2, <1>5, UsersMoved DEF DiskUsers, TypeOK, KernelType
    <3> QED BY <1>0, <1>1, <1>2, <3>1, DiskKept DEF disk, Same
  <2>4. InputOK'
    <3>1. \A u \in Threads : pc'[u] = pc[u] \/ pc'[u] = to
      BY <1>0, <1>5 DEF TypeOK, KernelType
    <3> QED BY <1>0, <1>1, <1>2, <3>1, InputKept DEF console, Same
  <2> QED BY <1>2, <1>3, <2>2, <2>3, <2>4 DEF Inv, TypeOK
<1> QED BY <1>2, <1>4, <1>5

LEMMA ReadWaitInv == ASSUME Inv, NEW t \in Threads, ReadWait(t) PROVE Inv'
<1>0. /\ TypeOK /\ Core /\ DiskOK /\ OutputOK /\ InputOK
      /\ P(t, "inputAvailable", "readP", WaitAt("inputAvailable"), "readGet")
      /\ UNCHANGED <<left, locks, disk, console, io>>
  BY WaitPlaces DEF Inv, ReadWait
<1>1. /\ "input" \in LockNames /\ "inputAvailable" \in SemNames /\ "readGet" \in PCs
      /\ {"readP", WaitAt("inputAvailable"), "readGet"} \subseteq Section("input")
      /\ {"readP", "readWait"} \subseteq Section("input")
      /\ SemNames = {"disk", "inputAvailable", "outputDone"} /\ Entry("input") = "readP"
  BY WaitPlaces DEF LockNames, SemNames, PCs, Section, Entry
<1>2. /\ KernelType' /\ Core' /\ Same(pending, pending')
      /\ running = t /\ pc[t] \in {"readP", "readWait"}
      /\ \A r \in SemNames \ {"inputAvailable"} : sems'[r] = sems[r]
      /\ \/ /\ sems["inputAvailable"].value = 0 /\ sems'["inputAvailable"].value = 0
            /\ pc' = [pc EXCEPT ![t] = "readWait"]
         \/ /\ sems["inputAvailable"].value # 0
            /\ sems'["inputAvailable"].value = sems["inputAvailable"].value - 1
            /\ pc' = [pc EXCEPT ![t] = "readGet"]
  BY <1>0, <1>1, PStep, WaitPlaces
<1>3. DeviceType'
  BY <1>0 DEF TypeOK, DeviceType, disk, console, io
<1>4. CASE /\ sems["inputAvailable"].value = 0 /\ sems'["inputAvailable"].value = 0
           /\ pc' = [pc EXCEPT ![t] = "readWait"]
  <2>1. \A s \in SemNames : sems'[s].value = sems[s].value
    BY <1>2, <1>4
  <2>2. DiskOK' /\ OutputOK' /\ InputOK'
    BY <1>0, <1>1, <1>2, <1>4, <2>1, DevicesKept DEF disk, console
  <2> QED BY <1>2, <1>3, <2>2 DEF Inv, TypeOK
<1>5. CASE /\ sems["inputAvailable"].value # 0
           /\ sems'["inputAvailable"].value = sems["inputAvailable"].value - 1
           /\ pc' = [pc EXCEPT ![t] = "readGet"]
  <2>1. pc[t] \in Section("input") /\ \A u \in Threads : u = t \/ pc'[u] = pc[u]
    BY <1>0, <1>1, <1>2, <1>5 DEF TypeOK, KernelType
  <2>2. InputOK'
    BY <1>0, <1>2, <2>1 DEF InputOK, Same
  <2>3. DiskUsers' = DiskUsers /\ OutputUsers' = OutputUsers
    BY <1>0, <1>2, <1>5, UsersMoved DEF DiskUsers, OutputUsers, TypeOK, KernelType
  <2>4. DiskOK'
    BY <1>0, <1>1, <1>2, <2>3, DiskKept DEF disk, Same
  <2>5. OutputOK'
    BY <1>0, <1>1, <1>2, <2>3, OutputKept DEF console, Same
  <2> QED BY <1>2, <1>3, <2>2, <2>4, <2>5 DEF Inv, TypeOK
<1> QED BY <1>2, <1>4, <1>5

LEMMA GetCharInv == ASSUME Inv, NEW t \in Threads, GetChar(t) PROVE Inv'
<1>0. PICK to \in {"readP", "readRelease"} :
        /\ TypeOK /\ Core /\ DiskOK /\ OutputOK /\ InputOK
        /\ phase = "run" /\ running = t /\ pc[t] = "readGet" /\ pc' = [pc EXCEPT ![t] = to]
        /\ count' = [count EXCEPT ![t] = @ + 1] /\ incoming' = EOF_
        /\ taken' = Append(taken, [by |-> t, char |-> incoming])
        /\ UNCHANGED <<pending, clock, bufferAge, running, ready, phase, yieldOnReturn, left, locks, sems,
                       disk, putBusy, typed, display>>
  BY DEF Inv, GetChar, At, time, cpu
<1>1. /\ "input" \in LockNames /\ "inputAvailable" \in SemNames /\ to \in PCs /\ to # "done"
      /\ Section("input") = {"readP", "readWait", "readGet", "readRelease"}
      /\ to \notin Section("disk") /\ to \notin Section("output")
      /\ "readGet" \notin Section("disk") /\ "readGet" \notin Section("output")
      /\ Entry("input") = "readP" /\ LockNames = {"disk", "input", "output"}
      /\ SemNames = {"disk", "inputAvailable", "outputDone"}
  BY DEF LockNames, SemNames, Section, PCs, Entry
<1>2. KernelType'
  BY <1>0, <1>1 DEF TypeOK, KernelType
<1>3. DeviceType'
  <2>1. incoming \in Chars /\ taken \in Seq([by : Threads, char : Chars]) /\ count \in [Threads -> Int]
    BY <1>0 DEF TypeOK, DeviceType
  <2>2. taken' \in Seq([by : Threads, char : Chars]) /\ count' \in [Threads -> Int]
    BY <1>0, <2>1
  <2>3. /\ left' \in [Threads -> Nat] /\ active' \in BOOLEAN /\ lastSector' \in Sectors
        /\ putBusy' \in BOOLEAN /\ typed' \in 0 .. Len(Keyboard) /\ display' \in Seq(Threads)
    BY <1>0 DEF TypeOK, DeviceType, disk
  <2>4. incoming' \in Chars
    BY <1>0 DEF Chars
  <2> QED BY <2>2, <2>3, <2>4 DEF DeviceType
<1>4. PhasesOK' /\ QueuesKept
  BY <1>0 DEF Core, PhasesOK, QueuesKept
<1>5. Core'
  <2>1. \A l \in LockNames : pc[t] \in Section(l) <=> to \in Section(l)
    BY <1>0, <1>1
  <2> QED BY <1>0, <1>1, <1>4, <2>1, CoreMove
<1>6. DiskUsers' = DiskUsers /\ OutputUsers' = OutputUsers
  BY <1>0, <1>1, UsersMoved DEF DiskUsers, OutputUsers, TypeOK, KernelType
<1>7. DiskOK'
  BY <1>0, <1>6, DiskKept DEF disk
<1>8. OutputOK'
  BY <1>0, <1>6, OutputKept
<1>9. InputOK'
  <2>1. \A u \in Threads : u = t \/ pc'[u] = pc[u]
    BY <1>0 DEF TypeOK, KernelType
  <2>2. pc[t] \in Section("input")
    BY <1>0, <1>1
  <2> QED BY <1>0, <2>1, <2>2 DEF InputOK
<1> QED BY <1>2, <1>3, <1>5, <1>7, <1>8, <1>9 DEF Inv, TypeOK

-----------------------------------------------------------------------------
(* The handlers                                                             *)

LEMMA LoopPhases ==
    ASSUME TypeOK, Core, NEW type, Due(type), Loop
    PROVE  PhasesOK' /\ phase' \in Phases
<1>1. /\ phase \in {"due", "idle", "idleLoop"} /\ phase' = IF phase = "due" THEN "due" ELSE "idleLoop"
      /\ running' = running
  BY DEF Due, Loop
<1> QED BY <1>1 DEF Core, PhasesOK, Phases

(* A handler that raises a semaphore.                                       *)
LEMMA RaiseStep ==
    ASSUME Inv, NEW type, NEW s \in SemNames, Due(type), Loop, V(s), UNCHANGED yieldOnReturn,
           pending' \in Seq(Entries)
    PROVE  /\ KernelType' /\ Core' /\ sems'[s].value = sems[s].value + 1
           /\ \A r \in SemNames \ {s} : sems'[r] = sems[r]
<1>0. TypeOK /\ Core /\ UNCHANGED <<running, pc, left, locks>>
  BY DEF Inv, Loop
<1>1. PhasesOK' /\ phase' \in Phases
  BY <1>0, LoopPhases
<1>2. /\ Core' /\ ready' \in Seq(Threads)
      /\ sems' \in [SemNames -> [value : Nat, queue : Seq(Threads)]]
      /\ sems'[s].value = sems[s].value + 1
      /\ \A r \in SemNames \ {s} : sems'[r] = sems[r]
  BY <1>0, <1>1, CoreV
<1>3. clock' \in 0 .. Revolution - 1 /\ bufferAge' \in Int
  BY <1>0, Interrupted
<1>4. KernelType'
  BY <1>0, <1>1, <1>2, <1>3 DEF TypeOK, KernelType
<1> QED BY <1>2, <1>4

LEMMA DiskDoneInv == ASSUME Inv, DiskDone PROVE Inv'
<1>0. /\ TypeOK /\ DiskOK /\ OutputOK /\ InputOK
      /\ Due("disk") /\ Loop /\ pending' = Rest /\ active' = FALSE /\ V("disk")
      /\ UNCHANGED <<yieldOnReturn, lastSector, console, io, pc, left>>
  BY DEF Inv, DiskDone, Loop
<1>1. /\ Rest \in Seq(Entries)
      /\ \A other : other # "disk" => (Comes(Rest, other) <=> Comes(pending, other))
      /\ \A other : Once(pending, other) => Once(Rest, other)
      /\ Comes(pending, "disk") /\ (Once(pending, "disk") => ~Comes(Rest, "disk"))
  BY <1>0, Interrupted
<1>2. SemNames = {"disk", "inputAvailable", "outputDone"}
  BY DEF SemNames
<1>3. /\ KernelType' /\ Core' /\ sems'["disk"].value = sems["disk"].value + 1
      /\ \A r \in SemNames \ {"disk"} : sems'[r] = sems[r]
  BY <1>0, <1>1, <1>2, RaiseStep
<1>4. DeviceType'
  BY <1>0 DEF TypeOK, DeviceType, console, io
<1>5. DiskUsers' = DiskUsers /\ OutputUsers' = OutputUsers
  BY <1>0 DEF DiskUsers, OutputUsers
<1>6. DiskOK'
  <2>1. active \in BOOLEAN /\ sems["disk"].value \in Nat
    BY <1>0, <1>2 DEF TypeOK, KernelType, DeviceType
  <2>2. Driver(pending, "disk", active, sems["disk"].value, DiskUsers)
    BY <1>0 DEF DiskOK
  <2>3. Once(pending, "disk")
    BY <2>2 DEF Driver
  <2>4. Driver(Rest, "disk", FALSE, sems["disk"].value + 1, DiskUsers)
    BY <1>1, <2>1, <2>2, <2>3, DriverDone
  <2> QED BY <1>0, <1>3, <1>5, <2>4 DEF DiskOK
<1>7. OutputOK'
  BY <1>0, <1>1, <1>2, <1>3, <1>5, OutputKept DEF console
<1>8. InputOK'
  BY <1>0, <1>1, <1>2, <1>3, InputKept DEF console
<1> QED BY <1>3, <1>4, <1>6, <1>7, <1>8 DEF Inv, TypeOK

LEMMA ConsoleWriteDoneInv == ASSUME Inv, ConsoleWriteDone PROVE Inv'
<1>0. /\ TypeOK /\ DiskOK /\ OutputOK /\ InputOK
      /\ Due("consoleWrite") /\ Loop /\ pending' = Rest /\ putBusy' = FALSE /\ V("outputDone")
      /\ UNCHANGED <<yieldOnReturn, disk, incoming, typed, io, pc, left>>
  BY DEF Inv, ConsoleWriteDone, Loop
<1>1. /\ Rest \in Seq(Entries)
      /\ \A other : other # "consoleWrite" => (Comes(Rest, other) <=> Comes(pending, other))
      /\ \A other : Once(pending, other) => Once(Rest, other)
      /\ Comes(pending, "consoleWrite") /\ (Once(pending, "consoleWrite") => ~Comes(Rest, "consoleWrite"))
  BY <1>0, Interrupted
<1>2. SemNames = {"disk", "inputAvailable", "outputDone"}
  BY DEF SemNames
<1>3. /\ KernelType' /\ Core' /\ sems'["outputDone"].value = sems["outputDone"].value + 1
      /\ \A r \in SemNames \ {"outputDone"} : sems'[r] = sems[r]
  BY <1>0, <1>1, <1>2, RaiseStep
<1>4. DeviceType'
  BY <1>0 DEF TypeOK, DeviceType, disk, io
<1>5. DiskUsers' = DiskUsers /\ OutputUsers' = OutputUsers
  BY <1>0 DEF DiskUsers, OutputUsers
<1>6. OutputOK'
  <2>1. putBusy \in BOOLEAN /\ sems["outputDone"].value \in Nat
    BY <1>0, <1>2 DEF TypeOK, KernelType, DeviceType
  <2>2. Driver(pending, "consoleWrite", putBusy, sems["outputDone"].value, OutputUsers)
    BY <1>0 DEF OutputOK
  <2>3. Once(pending, "consoleWrite")
    BY <2>2 DEF Driver
  <2>4. Driver(Rest, "consoleWrite", FALSE, sems["outputDone"].value + 1, OutputUsers)
    BY <1>1, <2>1, <2>2, <2>3, DriverDone
  <2> QED BY <1>0, <1>3, <1>5, <2>4 DEF OutputOK
<1>7. DiskOK'
  BY <1>0, <1>1, <1>2, <1>3, <1>5, DiskKept DEF disk
<1>8. InputOK'
  BY <1>0, <1>1, <1>2, <1>3, InputKept
<1> QED BY <1>3, <1>4, <1>6, <1>7, <1>8 DEF Inv, TypeOK

(* A handler that asks to be called again.                                  *)
LEMMA AskedAgain ==
    ASSUME TypeOK, NEW type \in Types, NEW in \in Int, Due(type), Loop,
           pending' = SortedInsert(Rest, Later(type, in))
    PROVE  pending' \in Seq(Entries) /\ Same(pending, pending')
<1>1. /\ Rest \in Seq(Entries)
      /\ \A other : other # type => (Comes(Rest, other) <=> Comes(pending, other))
      /\ \A other : Once(pending, other) => Once(Rest, other)
      /\ Comes(pending, type) /\ (Once(pending, type) => ~Comes(Rest, type))
  BY Interrupted
<1>2. Later(type, in) \in Entries /\ Later(type, in).type = type
  BY DEF Later, Entries
<1>3. /\ pending' \in Seq(Entries)
      /\ \A other : Comes(pending', other) <=> Comes(Rest, other) \/ type = other
      /\ \A other : Once(Rest, other) /\ (type = other => ~Comes(Rest, other)) => Once(pending', other)
  BY <1>1, <1>2, Inserted
<1> QED BY <1>1, <1>3 DEF Same

LEMMA QuietHandlersInv ==
    ASSUME Inv, (\E n \in TimeOfNextInterrupt : TimerExpired(n)) \/ PollNothing
    PROVE  Inv'
<1>1. PICK type \in Types, in \in Int :
        /\ Due(type) /\ Loop /\ pending' = SortedInsert(Rest, Later(type, in))
        /\ yieldOnReturn' \in BOOLEAN /\ UNCHANGED <<ready, sems, disk, console, io>>
  <2>1. CASE \E n \in TimeOfNextInterrupt : TimerExpired(n)
    <3>1. PICK n \in TimeOfNextInterrupt : TimerExpired(n)
      BY <2>1
    <3>2. n \in Int /\ "timer" \in Types
      BY DEF TimeOfNextInterrupt, Types
    <3>3. /\ Due("timer") /\ Loop /\ pending' = SortedInsert(Rest, Later("timer", n))
          /\ yieldOnReturn' \in BOOLEAN /\ UNCHANGED <<ready, sems, disk, console, io>>
      BY <3>1 DEF TimerExpired
    <3> QED BY <3>2, <3>3
  <2>2. CASE PollNothing
    <3>1. ConsoleTime \in Int /\ "consoleRead" \in Types
      BY Constants DEF Types
    <3>2. /\ Due("consoleRead") /\ Loop /\ pending' = SortedInsert(Rest, Later("consoleRead", ConsoleTime))
          /\ yieldOnReturn' \in BOOLEAN /\ UNCHANGED <<ready, sems, disk, console, io>>
      BY <2>2 DEF PollNothing, Inv, TypeOK, KernelType
    <3> QED BY <3>1, <3>2
  <2> QED BY <2>1, <2>2
<1>2. TypeOK /\ Core /\ UNCHANGED <<running, pc, left, locks>>
  BY <1>1 DEF Inv, Loop
<1>3. pending' \in Seq(Entries) /\ Same(pending, pending')
  BY <1>1, <1>2, AskedAgain
<1>4. PhasesOK' /\ phase' \in Phases
  BY <1>1, <1>2, LoopPhases
<1>5. clock' \in 0 .. Revolution - 1 /\ bufferAge' \in Int
  BY <1>1, <1>2, Interrupted
<1>6. KernelType'
  BY <1>1, <1>2, <1>3, <1>4, <1>5 DEF TypeOK, KernelType
<1>7. QueuesKept
  BY <1>1 DEF QueuesKept
<1>8. Core'
  BY <1>1, <1>2, <1>4, <1>7, CoreKept
<1>9. DeviceType'
  BY <1>1, <1>2 DEF TypeOK, DeviceType, disk, console, io
<1>10. DiskOK' /\ OutputOK' /\ InputOK'
  BY <1>1, <1>2, <1>3, DevicesUntouched
<1> QED BY <1>6, <1>8, <1>9, <1>10 DEF Inv, TypeOK

LEMMA CheckCharAvailInv == ASSUME Inv, CheckCharAvail PROVE Inv'
<1>0. /\ TypeOK /\ DiskOK /\ OutputOK /\ InputOK
      /\ Due("consoleRead") /\ Loop /\ incoming = EOF_ /\ typed < Len(Keyboard)
      /\ pending' = SortedInsert(Rest, Later("consoleRead", ConsoleTime))
      /\ incoming' = Keyboard[typed + 1] /\ typed' = typed + 1 /\ V("inputAvailable")
      /\ UNCHANGED <<yieldOnReturn, disk, putBusy, io, pc, left>>
  BY DEF Inv, CheckCharAvail, Loop
<1>1. pending' \in Seq(Entries) /\ Same(pending, pending')
  <2>1. ConsoleTime \in Int /\ "consoleRead" \in Types
    BY Constants DEF Types
  <2> QED BY <1>0, <2>1, AskedAgain
<1>2. SemNames = {"disk", "inputAvailable", "outputDone"}
  BY DEF SemNames
<1>3. /\ KernelType' /\ Core' /\ sems'["inputAvailable"].value = sems["inputAvailable"].value + 1
      /\ \A r \in SemNames \ {"inputAvailable"} : sems'[r] = sems[r]
  BY <1>0, <1>1, <1>2, RaiseStep
<1>4. incoming' \in Chars /\ typed' \in 0 .. Len(Keyboard)
  <2>1. typed \in 0 .. Len(Keyboard) /\ Len(Keyboard) \in Nat
    BY <1>0, Constants DEF TypeOK, DeviceType
  <2>2. typed + 1 \in 1 .. Len(Keyboard)
    BY <1>0, <2>1
  <2>3. Keyboard[typed + 1] \in STRING
    BY <2>2, Constants
  <2> QED BY <1>0, <2>1, <2>2, <2>3 DEF Chars
<1>5. DeviceType'
  BY <1>0, <1>4 DEF TypeOK, DeviceType, disk, io
<1>6. DiskUsers' = DiskUsers /\ OutputUsers' = OutputUsers
  BY <1>0 DEF DiskUsers, OutputUsers
<1>7. DiskOK'
  BY <1>0, <1>1, <1>2, <1>3, <1>6, DiskKept DEF disk, Same
<1>8. OutputOK'
  BY <1>0, <1>1, <1>2, <1>3, <1>6, OutputKept DEF Same
<1>9. InputOK'
  BY <1>0, <1>1, InputKept DEF Same
<1> QED BY <1>3, <1>5, <1>7, <1>8, <1>9 DEF Inv, TypeOK

-----------------------------------------------------------------------------
(* The machine                                                              *)

(* A step that changes the time or the phase only.                          *)
LEMMA PhaseStep ==
    ASSUME Inv, UNCHANGED <<running, ready, pc, left, locks, sems, disk, console, io>>,
           pending' \in Seq(Entries), Same(pending, pending'),
           clock' \in 0 .. Revolution - 1, bufferAge' \in Int, yieldOnReturn' \in BOOLEAN,
           phase' \in Phases, PhasesOK'
    PROVE  Inv'
<1>0. TypeOK /\ Core
  BY DEF Inv
<1>1. KernelType'
  BY <1>0 DEF TypeOK, KernelType
<1>2. Core'
  BY <1>0, CoreKept DEF QueuesKept
<1>3. DeviceType'
  BY <1>0 DEF TypeOK, DeviceType, disk, console, io
<1>4. DiskOK' /\ OutputOK' /\ InputOK'
  BY DevicesUntouched
<1> QED BY <1>1, <1>2, <1>3, <1>4 DEF Inv, TypeOK

LEMMA TickedInv ==
    ASSUME Inv, OneTick(SystemTick), running # Nobody,
           UNCHANGED <<running, ready, pc, left, locks, sems, disk, console, io>>
    PROVE  Inv'
<1>0. TypeOK /\ SystemTick \in Int /\ yieldOnReturn \in BOOLEAN
  BY Constants DEF Inv, TypeOK, KernelType
<1>1. /\ pending' \in Seq(Entries) /\ Same(pending, pending')
      /\ clock' \in 0 .. Revolution - 1 /\ bufferAge' \in Int
      /\ phase' = "due" /\ yieldOnReturn' = yieldOnReturn
  BY <1>0, Ticked
<1>2. PhasesOK' /\ phase' \in Phases
  BY <1>1 DEF PhasesOK, Phases
<1> QED BY <1>0, <1>1, <1>2, PhaseStep

LEMMA ResumeInv == ASSUME Inv, Resume PROVE Inv'
<1>1. running # Nobody
  BY DEF Inv, Core, PhasesOK, Resume
<1> QED BY <1>1, TickedInv DEF Resume

LEMMA ReturnDueInv == ASSUME Inv, Return PROVE Inv'
<1>0. /\ TypeOK /\ phase = "due" /\ PutBack /\ phase' = IF yieldOnReturn THEN "yield" ELSE "run"
      /\ yieldOnReturn' = FALSE
      /\ UNCHANGED <<clock, bufferAge, running, ready, pc, left, locks, sems, disk, console, io>>
  BY DEF Inv, Return
<1>1. pending' \in Seq(Entries) /\ Same(pending, pending')
  BY <1>0, PutBackSame
<1>2. PhasesOK' /\ phase' \in Phases
  BY <1>0 DEF Inv, Core, PhasesOK, Phases
<1>3. clock' \in 0 .. Revolution - 1 /\ bufferAge' \in Int /\ yieldOnReturn' \in BOOLEAN
  BY <1>0 DEF TypeOK, KernelType
<1> QED BY <1>0, <1>1, <1>2, <1>3, PhaseStep

(* Those that can run are a queue, before and after.                        *)
LEMMA DispatchInv ==
    ASSUME Inv, NEW q \in Seq(Threads), Distinct(q), Dispatch(q),
           \A u \in Threads : Is(q, u) <=> Runnable(u),
           UNCHANGED <<clock, bufferAge, pc, left, locks, sems, disk, console, io>>,
           pending' \in Seq(Entries), Same(pending, pending'), yieldOnReturn' \in BOOLEAN
    PROVE  Inv'
<1>0. TypeOK /\ Core
  BY DEF Inv
<1>1. ready' \in Seq(Threads) /\ running' \in Threads \cup {Nobody} /\ phase' \in Phases
  BY Dispatched
<1>2. KernelType'
  BY <1>0, <1>1 DEF TypeOK, KernelType
<1>3. Core'
  BY <1>0, CoreDispatch
<1>4. DeviceType'
  BY <1>0 DEF TypeOK, DeviceType, disk, console, io
<1>5. DiskOK' /\ OutputOK' /\ InputOK'
  BY DevicesUntouched
<1> QED BY <1>2, <1>3, <1>4, <1>5 DEF Inv, TypeOK

LEMMA YieldInv == ASSUME Inv, Yield PROVE Inv'
<1>0. /\ TypeOK /\ Core /\ running # Nobody /\ running \in Threads /\ ready \in Seq(Threads)
      /\ UNCHANGED <<pc, left, locks, sems, disk, console, io>>
  BY DEF Inv, Core, PhasesOK, Yield, TypeOK, KernelType
<1>1. CASE ready = <<>>
  BY <1>0, <1>1, TickedInv DEF Yield
<1>2. CASE ready # <<>>
  <2>1. Dispatch(Append(ready, running)) /\ UNCHANGED <<time, yieldOnReturn>>
    BY <1>2 DEF Yield
  <2>2. /\ Append(ready, running) \in Seq(Threads) /\ Distinct(Append(ready, running))
        /\ \A u \in Threads : Is(Append(ready, running), u) <=> Runnable(u)
    BY <1>0, Appended DEF Core, Places, Runnable
  <2>3. pending' \in Seq(Entries) /\ Same(pending, pending') /\ yieldOnReturn' \in BOOLEAN
        /\ UNCHANGED <<clock, bufferAge>>
    BY <1>0, <2>1 DEF TypeOK, KernelType, Same, time
  <2> QED BY <1>0, <2>1, <2>2, <2>3, DispatchInv
<1> QED BY <1>1, <1>2

LEMMA IdleHaltInv == ASSUME Inv, IdleHalt PROVE Inv'
<1>0. /\ TypeOK /\ phase = "idle" /\ phase' = "halted"
      /\ UNCHANGED <<time, running, ready, yieldOnReturn, pc, left, locks, sems, disk, console, io>>
  BY DEF Inv, IdleHalt
<1>1. PhasesOK' /\ phase' \in Phases
  BY <1>0 DEF Inv, Core, PhasesOK, Phases
<1>2. /\ pending' \in Seq(Entries) /\ Same(pending, pending') /\ yieldOnReturn' \in BOOLEAN
      /\ clock' \in 0 .. Revolution - 1 /\ bufferAge' \in Int
  BY <1>0 DEF TypeOK, KernelType, Same, time
<1> QED BY <1>0, <1>1, <1>2, PhaseStep

LEMMA IdleReturnInv == ASSUME Inv, IdleReturn PROVE Inv'
<1>0. /\ TypeOK /\ Core /\ phase = "idleLoop" /\ PutBack /\ Dispatch(ready) /\ yieldOnReturn' = FALSE
      /\ UNCHANGED <<clock, bufferAge, pc, left, locks, sems, disk, console, io>>
      /\ ready \in Seq(Threads)
  BY DEF Inv, IdleReturn, TypeOK, KernelType
<1>1. running = Nobody /\ Distinct(ready)
  BY <1>0 DEF Core, PhasesOK, Places
<1>2. \A u \in Threads : Is(ready, u) <=> Runnable(u)
  BY <1>1, Constants DEF Runnable
<1>3. pending' \in Seq(Entries) /\ Same(pending, pending')
  BY <1>0, PutBackSame
<1> QED BY <1>0, <1>1, <1>2, <1>3, DispatchInv

-----------------------------------------------------------------------------
(* The invariant                                                            *)

LEMMA InitInv == Init => Inv
<1> SUFFICES ASSUME Init PROVE Inv
  OBVIOUS
<1>0. /\ clock = 0 /\ yieldOnReturn = FALSE /\ phase = "run" /\ running = 1
      /\ ready = [i \in 1 .. NumThreads - 1 |-> i + 1]
      /\ pc = [t \in Threads |-> "user"] /\ left = MaxCalls
      /\ locks = [l \in LockNames |-> <<>>]
      /\ sems = [s \in SemNames |-> [value |-> 0, queue |-> <<>>]]
      /\ active = FALSE /\ lastSector = 0 /\ bufferAge = 0
      /\ putBusy = FALSE /\ incoming = EOF_ /\ typed = 0
      /\ count = [t \in Threads |-> 0] /\ display = <<>> /\ taken = <<>>
  BY DEF Init
<1>1. pending \in Seq(Entries) /\ \A type \in {"disk", "consoleWrite"} : ~Comes(pending, type)
  <2>1. PICK timer \in BOOLEAN, cons \in BOOLEAN, first \in TimeOfNextInterrupt :
          pending = LET t == IF timer THEN <<Later("timer", first)>> ELSE <<>>
                    IN  IF cons THEN SortedInsert(t, Later("consoleRead", ConsoleTime)) ELSE t
    BY DEF Init
  <2>2. first \in Int /\ ConsoleTime \in Int
    BY Constants DEF TimeOfNextInterrupt
  <2>3. PICK t : /\ t \in {<<Later("timer", first)>>, <<>>}
                 /\ pending \in {t, SortedInsert(t, Later("consoleRead", ConsoleTime))}
    BY <2>1
  <2>4. /\ Later("timer", first) \in Entries /\ Later("timer", first).type = "timer"
        /\ Later("consoleRead", ConsoleTime) \in Entries
        /\ Later("consoleRead", ConsoleTime).type = "consoleRead"
    BY <2>2 DEF Later, Entries, Types
  <2>5. t \in Seq(Entries) /\ \A type \in {"disk", "consoleWrite"} : ~Comes(t, type)
    <3>1. CASE t = <<>>
      BY <3>1 DEF Comes
    <3>2. CASE t = <<Later("timer", first)>>
      <4>1. t \in Seq(Entries) /\ Len(t) = 1 /\ t[1].type = "timer"
        BY <2>4, <3>2
      <4> QED BY <4>1 DEF Comes
    <3> QED BY <2>3, <3>1, <3>2
  <2>6. /\ SortedInsert(t, Later("consoleRead", ConsoleTime)) \in Seq(Entries)
        /\ \A type \in {"disk", "consoleWrite"} :
             ~Comes(SortedInsert(t, Later("consoleRead", ConsoleTime)), type)
    BY <2>4, <2>5, Inserted
  <2> QED BY <2>3, <2>5, <2>6
<1>2. /\ NumThreads \in Nat \ {0} /\ MaxCalls \in [Threads -> Nat] /\ Threads = 1 .. NumThreads
      /\ Revolution \in Nat \ {0} /\ Nobody = 0 /\ 1 \in Threads /\ 0 \in Sectors
      /\ Len(Keyboard) \in Nat
  BY DeviceAssumption, Constants DEF Threads, Nobody
<1>3. KernelType
  <2>1. ready \in Seq(Threads)
    BY <1>0, <1>2
  <2>2. locks \in [LockNames -> Seq(Threads)]
    BY <1>0, EmptyQueue
  <2>3. sems \in [SemNames -> [value : Nat, queue : Seq(Threads)]]
    BY <1>0, EmptyQueue
  <2>4. pc \in [Threads -> PCs] /\ phase \in Phases
    BY <1>0 DEF PCs, Phases
  <2>5. clock \in 0 .. Revolution - 1 /\ bufferAge \in Int
    BY <1>0, <1>2
  <2> QED BY <1>0, <1>1, <1>2, <2>1, <2>2, <2>3, <2>4, <2>5 DEF KernelType
<1>4. DeviceType
  <2>1. incoming \in Chars /\ typed \in 0 .. Len(Keyboard)
    BY <1>0, <1>2 DEF Chars
  <2>2. left \in [Threads -> Nat] /\ lastSector \in Sectors
    BY <1>0, <1>2
  <2>3. count \in [Threads -> Int]
    BY <1>0
  <2>4. display \in Seq(Threads) /\ taken \in Seq([by : Threads, char : Chars])
    BY <1>0
  <2> QED BY <1>0, <2>1, <2>2, <2>3, <2>4 DEF DeviceType
<1>5. Core
  <2>1. \A l \in LockNames : \A u : ~Is(locks[l], u) /\ ~Behind(locks[l], u) /\ Distinct(locks[l])
    BY <1>0, EmptyQueue
  <2>2. \A s \in SemNames : \A u : ~Is(sems[s].queue, u) /\ Distinct(sems[s].queue)
    BY <1>0, EmptyQueue
  <2>3. LocksOK
    BY <1>0, <2>1, Sections DEF LocksOK
  <2>4. SemsOK
    BY <2>2 DEF SemsOK
  <2>5. \A u : ~Waiting(u) /\ ~Asleep(u)
    BY <2>1, <2>2 DEF Waiting, Asleep
  <2>6. /\ Len(ready) = NumThreads - 1 /\ \A i \in 1 .. NumThreads - 1 : ready[i] = i + 1
    BY <1>0, <1>2
  <2>7. Distinct(ready) /\ ~Is(ready, running)
    BY <1>0, <1>2, <2>6 DEF Distinct, Is
  <2>8. \A u \in Threads : Runnable(u)
    <3>1. ASSUME NEW u \in Threads, u # 1 PROVE Is(ready, u)
      <4>1. u - 1 \in 1 .. NumThreads - 1 /\ ready[u - 1] = u
        BY <1>2, <2>6, <3>1
      <4> QED BY <4>1, <2>6 DEF Is
    <3> QED BY <3>1, <1>0 DEF Runnable
  <2>9. Places
    BY <1>0, <2>5, <2>7, <2>8 DEF Places
  <2>10. PhasesOK
    BY <1>0, <1>2 DEF PhasesOK
  <2> QED BY <2>3, <2>4, <2>9, <2>10 DEF Core
<1>6. DiskOK /\ OutputOK
  <2>1. DiskUsers = {} /\ OutputUsers = {}
    BY <1>0 DEF DiskUsers, OutputUsers
  <2>2. sems["disk"].value = 0 /\ sems["outputDone"].value = 0
    BY <1>0 DEF SemNames
  <2>3. Once(pending, "disk") /\ Once(pending, "consoleWrite")
    BY <1>1 DEF Once, Comes
  <2> QED BY <1>0, <1>1, <2>1, <2>2, <2>3 DEF DiskOK, OutputOK, Driver
<1>7. InputOK
  <2>1. "user" \notin Section("input")
    BY Sections DEF LockNames
  <2> QED BY <1>0, <2>1 DEF InputOK
<1> QED BY <1>3, <1>4, <1>5, <1>6, <1>7 DEF Inv, TypeOK

(* Every step of a thread keeps the invariant.                              *)
LEMMA ThreadInv == ASSUME Inv, NEW t \in Threads, Thread(t) PROVE Inv'
BY InstructionInv, FinishInv, CallsInv, ReturnsInv, DiskWaitInv, DiskRequestInv, PutCharInv,
   WriteWaitInv, ReadWaitInv, GetCharInv
   DEF Thread

LEMMA StutterInv == ASSUME Inv, UNCHANGED vars PROVE Inv'
<1>0. /\ UNCHANGED <<pending, clock, bufferAge, running, ready, phase, yieldOnReturn>>
      /\ UNCHANGED <<pc, left, locks, sems, disk, console, io>>
  BY DEF vars, time, cpu
<1>1. TypeOK'
  BY <1>0 DEF Inv, TypeOK, KernelType, DeviceType, disk, console, io
<1>2. Core'
  <2>1. PhasesOK'
    BY <1>0 DEF Inv, Core, PhasesOK
  <2> QED BY <1>0, <2>1, CoreKept DEF Inv, QueuesKept
<1>3. DiskOK' /\ OutputOK' /\ InputOK'
  BY <1>0, DevicesUntouched DEF Same
<1> QED BY <1>1, <1>2, <1>3 DEF Inv

LEMMA InvStep == Inv /\ [Next]_vars => Inv'
<1> SUFFICES ASSUME Inv, [Next]_vars PROVE Inv'
  OBVIOUS
<1>1. CASE \E t \in Threads : Thread(t)
  BY <1>1, ThreadInv
<1>2. CASE Resume \/ Return \/ Yield \/ IdleHalt \/ IdleReturn
  BY <1>2, ResumeInv, ReturnDueInv, YieldInv, IdleHaltInv, IdleReturnInv
<1>3. CASE (\E n \in TimeOfNextInterrupt : TimerExpired(n)) \/ PollNothing
  BY <1>3, QuietHandlersInv
<1>4. CASE DiskDone \/ ConsoleWriteDone \/ CheckCharAvail
  BY <1>4, DiskDoneInv, ConsoleWriteDoneInv, CheckCharAvailInv
<1>5. CASE UNCHANGED vars
  BY <1>5, StutterInv
<1> QED BY <1>1, <1>2, <1>3, <1>4, <1>5 DEF Next

(* A thread that has not finished is in one place, a busy device owes one
   interrupt, and somebody waits for it: the thread module, the devices and
   the two drivers together.                                                *)
THEOREM InvHolds == Spec => []Inv
<1>1. Init => Inv
  BY InitInv
<1>2. Inv /\ [Next]_vars => Inv'
  BY InvStep
<1> QED BY <1>1, <1>2, PTL DEF Spec

-----------------------------------------------------------------------------
(* One request at a time                                                    *)

LEMMA OneRequest == Inv => OneRequestAtATime
<1> SUFFICES ASSUME Inv, phase = "run"
             PROVE  /\ pc[running] = "diskGo" => ~active
                    /\ pc[running] = "writePut" => ~putBusy
  BY DEF OneRequestAtATime
<1>0. /\ TypeOK /\ Core /\ running \in Threads
      /\ Section("disk") = {"diskGo", "diskP", "diskWait", "diskRelease"}
      /\ Section("output") = {"writePut", "writeP", "writeWait", "writeRelease"}
      /\ Entry("disk") = "diskGo" /\ Entry("output") = "writePut"
      /\ "disk" \in LockNames /\ "output" \in LockNames
  BY DEF Inv, TypeOK, KernelType, Core, PhasesOK, Section, Entry, LockNames
<1>1. ASSUME pc[running] = "diskGo" PROVE ~active
  <2>1. DiskUsers = {}
    BY <1>0, <1>1, Sole DEF DiskUsers
  <2> QED BY <2>1 DEF Inv, DiskOK, Driver
<1>2. ASSUME pc[running] = "writePut" PROVE ~putBusy
  <2>1. OutputUsers = {}
    BY <1>0, <1>2, Sole DEF OutputUsers
  <2> QED BY <2>1 DEF Inv, OutputOK, Driver
<1> QED BY <1>1, <1>2

(* A driver never starts a busy device, whatever the interleaving: the
   assertions at disk.cc:120, disk.cc:140 and console.cc:145 never fail.    *)
THEOREM OneRequestAtATimeHolds == Spec => []OneRequestAtATime
BY InvHolds, OneRequest, PTL

-----------------------------------------------------------------------------
(* The machine stops by itself only when all is done                        *)

(* Nobody sleeps while there is something to take.                          *)
Unmissed == \A s \in SemNames : sems[s].queue # <<>> => sems[s].value = 0

(* A semaphore has at most one sleeper, the holder of the driver's lock.    *)
LEMMA OneSleeper ==
    ASSUME Inv, NEW s \in SemNames
    PROVE  Len(sems[s].queue) <= 1
<1> DEFINE q == sems[s].queue
<1>1. /\ TypeOK /\ Core /\ q \in Seq(Threads) /\ Distinct(q)
      /\ \A u \in Threads : Is(q, u) => pc[u] = WaitAt(s)
  BY DEF Inv, Core, SemsOK, TypeOK, KernelType
<1>2. PICK l \in LockNames : WaitAt(s) \in Section(l) /\ WaitAt(s) # Entry(l)
  BY DEF SemNames, LockNames, WaitAt, Section, Entry
<1>3. \A u, v \in Threads : Is(q, u) /\ Is(q, v) => u = v
  BY <1>1, <1>2, Sole
<1> HIDE DEF q
<1>4. SUFFICES ASSUME Len(q) > 1 PROVE FALSE
  BY <1>1 DEF q
<1>5. 1 \in 1 .. Len(q) /\ 2 \in 1 .. Len(q) /\ q[1] \in Threads /\ q[2] \in Threads
  BY <1>1, <1>4
<1>6. Is(q, q[1]) /\ Is(q, q[2])
  BY <1>5 DEF Is
<1>7. q[1] = q[2]
  BY <1>3, <1>5, <1>6
<1> QED BY <1>1, <1>5, <1>7 DEF Distinct

(* Only P and V touch a semaphore.                                          *)
LEMMA UnmissedStep == Inv /\ Unmissed /\ [Next]_vars => Unmissed'
<1> SUFFICES ASSUME Inv, Unmissed, [Next]_vars PROVE Unmissed'
  OBVIOUS
<1>0. \A s \in SemNames : /\ sems[s].value \in Nat /\ sems[s].queue \in Seq(Threads)
                          /\ sems[s] \in [value : Nat, queue : Seq(Threads)]
  BY DEF Inv, TypeOK, KernelType
<1>1. ASSUME UNCHANGED sems PROVE Unmissed'
  BY <1>1 DEF Unmissed
<1>2. ASSUME NEW t \in Threads, NEW s \in SemNames, NEW call, NEW asleep, NEW to, P(t, s, call, asleep, to)
      PROVE  Unmissed'
  <2>1. \A r \in SemNames \ {s} : sems'[r] = sems[r]
    BY <1>2 DEF P, Inv, TypeOK, KernelType
  <2>2. sems'[s].queue # <<>> => sems'[s].value = 0
    <3>1. CASE sems[s].value = 0
      BY <1>0, <1>2, <3>1 DEF P, Inv, TypeOK, KernelType
    <3>2. CASE sems[s].value # 0
      <4>1. sems'[s].queue = sems[s].queue
        BY <1>2, <3>2 DEF P, Inv, TypeOK, KernelType
      <4> QED BY <4>1, <3>2 DEF Unmissed
    <3> QED BY <3>1, <3>2
  <2> QED BY <2>1, <2>2 DEF Unmissed
<1>3. ASSUME NEW s \in SemNames, V(s) PROVE Unmissed'
  <2>1. \A r \in SemNames \ {s} : sems'[r] = sems[r]
    BY <1>3 DEF V, Inv, TypeOK, KernelType
  <2>2. sems'[s].queue = IF sems[s].queue = <<>> THEN sems[s].queue ELSE Tail(sems[s].queue)
    BY <1>3 DEF V, Inv, TypeOK, KernelType
  <2>3. sems'[s].queue = <<>>
    BY <1>0, <2>2, OneSleeper, Tailed
  <2> QED BY <2>1, <2>3 DEF Unmissed
<1>4. {"disk", "outputDone", "inputAvailable"} \subseteq SemNames
  BY DEF SemNames
<1>5. ASSUME NEW t \in Threads, Thread(t) PROVE Unmissed'
  <2>1. CASE UNCHANGED sems
    BY <2>1, <1>1
  <2>2. CASE DiskWait(t) \/ WriteWait(t) \/ ReadWait(t)
    BY <1>2, <1>4, <2>2 DEF DiskWait, WriteWait, ReadWait
  <2> QED BY <1>5, <2>1, <2>2 DEF Thread, Instruction, Finish, DiskCall, DiskRelease, DiskRequest,
          WriteLine, PutChar, WriteRelease, ReadLine, GetChar, ReadRelease
<1>6. CASE \E t \in Threads : Thread(t)
  BY <1>5, <1>6
<1>7. CASE Resume \/ Return \/ Yield \/ IdleHalt \/ IdleReturn
           \/ (\E n \in TimeOfNextInterrupt : TimerExpired(n)) \/ PollNothing \/ UNCHANGED vars
  BY <1>1, <1>7 DEF Resume, Return, Yield, IdleHalt, IdleReturn, TimerExpired, PollNothing, vars
<1>8. CASE DiskDone \/ ConsoleWriteDone \/ CheckCharAvail
  BY <1>3, <1>4, <1>8 DEF DiskDone, ConsoleWriteDone, CheckCharAvail
<1> QED BY <1>6, <1>7, <1>8 DEF Next

(* With nothing to come, nobody sleeps; so the holders of the locks are not
   asleep, and nobody waits for them.                                       *)
LEMMA NobodyLeft ==
    ASSUME Inv, Unmissed, phase = "idle", pending = <<>> \/ TimerAlone, NEW t \in Threads
    PROVE  pc[t] = "done"
<1>0. TypeOK /\ Core /\ \A l \in LockNames : locks[l] \in Seq(Threads)
  BY DEF Inv, TypeOK, KernelType
<1>1. \A u \in Threads : ~Runnable(u)
  BY <1>0, Constants, EmptyQueue DEF Core, PhasesOK, Runnable
<1>2. \A type : type # "timer" => ~Comes(pending, type)
  <2>1. pending \in Seq(Entries)
    BY <1>0 DEF TypeOK, KernelType
  <2>2. CASE pending = <<>>
    BY <2>2 DEF Comes
  <2>3. CASE TimerAlone
    <3>1. Len(pending) = 1 /\ pending[1].type = "timer"
      BY <2>1, <2>3 DEF TimerAlone
    <3> QED BY <3>1 DEF Comes
  <2> QED BY <2>2, <2>3
<1>3. \A u \in Threads : ~Asleep(u)
  <2> SUFFICES ASSUME NEW u \in Threads, NEW s \in SemNames, Is(sems[s].queue, u) PROVE FALSE
    BY DEF Asleep
  <2>1. pc[u] = WaitAt(s) /\ sems[s].queue \in Seq(Threads)
    BY <1>0 DEF Core, SemsOK, TypeOK, KernelType
  <2>2. sems[s].value = 0
    BY <2>1, QueueParts DEF Unmissed
  <2>3. CASE s = "disk"
    <3>1. DiskUsers # {}
      BY <2>1, <2>3, WaitPlaces DEF DiskUsers
    <3>2. Comes(pending, "disk")
      BY <2>2, <2>3, <3>1 DEF Inv, DiskOK, Driver
    <3> QED BY <1>2, <3>2
  <2>4. CASE s = "outputDone"
    <3>1. OutputUsers # {}
      BY <2>1, <2>4, WaitPlaces DEF OutputUsers
    <3>2. Comes(pending, "consoleWrite")
      BY <2>2, <2>4, <3>1 DEF Inv, OutputOK, Driver
    <3> QED BY <1>2, <3>2
  <2>5. CASE s = "inputAvailable"
    <3>1. pc[u] \in Section("input")
      BY <2>1, <2>5, WaitPlaces DEF Section
    <3>2. Comes(pending, "consoleRead")
      BY <3>1 DEF Inv, InputOK
    <3> QED BY <1>2, <3>2
  <2> QED BY <2>3, <2>4, <2>5 DEF SemNames
<1>4. ~Waiting(t)
  <2> SUFFICES ASSUME NEW l \in LockNames, Behind(locks[l], t) PROVE FALSE
    BY DEF Waiting
  <2> DEFINE h == locks[l][1]
  <2>1. locks[l] # <<>>
    BY EmptyQueue
  <2>2. h \in Threads /\ Is(locks[l], h) /\ ~Behind(locks[l], h)
    BY <1>0, <2>1, Tailed DEF Core, LocksOK
  <2>3. pc[h] \in Section(l) /\ pc[h] \in PCs
    BY <1>0, <2>2 DEF Core, LocksOK, TypeOK, KernelType
  <2>4. Waiting(h)
    BY <1>0, <1>1, <1>3, <2>2, <2>3, Sections DEF Core, Places
  <2>5. PICK m \in LockNames : Behind(locks[m], h)
    BY <2>4 DEF Waiting
  <2>6. pc[h] \in Section(m)
    BY <1>0, <2>2, <2>5, Sections DEF Core, LocksOK
  <2>7. m = l
    BY <2>3, <2>6, Sections
  <2> QED BY <2>2, <2>5, <2>7
<1> QED BY <1>0, <1>1, <1>3, <1>4 DEF Core, Places

LEMMA HaltStep == Inv /\ Unmissed /\ HaltsOnlyWhenDone /\ [Next]_vars => HaltsOnlyWhenDone'
<1> SUFFICES ASSUME Inv, Unmissed, HaltsOnlyWhenDone, [Next]_vars PROVE HaltsOnlyWhenDone'
  OBVIOUS
<1>1. CASE phase' # "halted"
  BY <1>1 DEF HaltsOnlyWhenDone
<1>2. CASE IdleHalt
  <2>1. /\ phase = "idle" /\ pc' = pc /\ (pending = <<>> \/ TimerAlone)
    BY <1>2 DEF IdleHalt
  <2> QED BY <2>1, NobodyLeft DEF HaltsOnlyWhenDone
<1>3. CASE UNCHANGED vars
  BY <1>3 DEF vars, cpu, HaltsOnlyWhenDone
<1>4. \A d : OneTick(d) => phase' # "halted"
  BY DEF OneTick
<1>5. \A q : Dispatch(q) => phase' # "halted"
  BY DEF Dispatch
<1>6. Loop => phase' # "halted"
  BY DEF Loop
<1>7. \A l, t : Acquire(t, l) \/ Release(l) => phase' # "halted"
  BY <1>4, <1>5 DEF Acquire, Release, Sleep
<1>8. \A t, s, call, asleep, to : P(t, s, call, asleep, to) => phase' # "halted"
  BY <1>4, <1>5 DEF P, Sleep
<1>9. ASSUME NEW t \in Threads, Thread(t) PROVE phase' # "halted"
  BY <1>4, <1>5, <1>7, <1>8, <1>9 DEF Thread, Instruction, Finish, DiskCall, DiskWait, DiskRelease,
     DiskRequest, WriteLine, PutChar, WriteWait, WriteRelease, ReadLine, ReadWait, GetChar, ReadRelease,
     At, cpu, Sleep
<1>10. CASE Resume \/ Return \/ Yield \/ IdleReturn
  BY <1>1, <1>4, <1>5, <1>10 DEF Resume, Return, Yield, IdleReturn
<1>11. CASE \/ \E n \in TimeOfNextInterrupt : TimerExpired(n)
            \/ DiskDone \/ ConsoleWriteDone \/ PollNothing \/ CheckCharAvail
  BY <1>1, <1>6, <1>11 DEF TimerExpired, DiskDone, ConsoleWriteDone, PollNothing, CheckCharAvail
<1> QED BY <1>1, <1>2, <1>3, <1>9, <1>10, <1>11 DEF Next

(* The comment in Idle is right to assume the program completed: the machine
   never stops by itself while a thread waits for a device or for a lock.   *)
THEOREM HaltsOnlyWhenDoneHolds == Spec => []HaltsOnlyWhenDone
<1>1. Init => Unmissed /\ HaltsOnlyWhenDone
  BY DEF Init, Unmissed, HaltsOnlyWhenDone
<1>2. Inv /\ Unmissed /\ HaltsOnlyWhenDone /\ [Next]_vars => Unmissed' /\ HaltsOnlyWhenDone'
  BY UnmissedStep, HaltStep
<1> QED BY <1>1, <1>2, InvHolds, PTL DEF Spec

-----------------------------------------------------------------------------
(* Lines on the display                                                     *)

(* What a writer has still to write of its line.                            *)
WritersCount ==
    \A t \in Threads :
        /\ pc[t] = "writePut" => count[t] \in 1 .. LineLength
        /\ pc[t] \in {"writeP", "writeWait"} => count[t] \in 0 .. LineLength - 1
        /\ pc[t] = "writeRelease" => count[t] = 0
        /\ Behind(locks["output"], t) => count[t] = LineLength

(* The last line is whole, or the holder of the lock is writing it.         *)
LastLine ==
    LET q == locks["output"] IN
    /\ q = <<>> => Len(display) % LineLength = 0
    /\ q # <<>> => /\ (Len(display) + count[q[1]]) % LineLength = 0
                   /\ count[q[1]] # LineLength => display # <<>> /\ display[Len(display)] = q[1]

DisplayWhole == \A i \in 1 .. Len(display) - 1 : i % LineLength # 0 => display[i] = display[i + 1]

DisplayOK == WritersCount /\ LastLine /\ DisplayWhole

LEMMA Remainder ==
    ASSUME NEW n \in Int, NEW L \in Int, L > 0
    PROVE  (n + L) % L = n % L
<1>1. n = (n \div L) * L + (n % L)
  BY SMT
<1>2. n % L \in 0 .. L - 1 /\ n \div L \in Int
  BY SMT
<1>3. \A q \in Int, r \in 0 .. L - 1 : (q * L + r) % L = r
  BY SMT
<1> DEFINE q == n \div L
           r == n % L
<1>4. ((q + 1) * L + r) % L = r
  <2>1. q + 1 \in Int /\ r \in 0 .. L - 1
    BY <1>2
  <2> HIDE DEF q, r
  <2> QED BY <2>1, <1>3
<1>5. (q + 1) * L + r = n + L
  <2>1. n = q * L + r /\ q \in Int /\ r \in Int
    BY <1>1, <1>2
  <2> HIDE DEF q, r
  <2> QED BY <2>1, SMT
<1> QED BY <1>4, <1>5

(* A whole line more.                                                       *)
LEMMA ModuloLine ==
    ASSUME NEW n \in Int
    PROVE  (n + LineLength) % LineLength = n % LineLength
<1>1. LineLength \in Int /\ LineLength > 0
  BY Constants
<1> QED BY <1>1, Remainder

(* A step that the writers do not notice.                                   *)
LEMMA DisplayKept ==
    ASSUME Inv', DisplayOK, locks'["output"] = locks["output"], UNCHANGED display,
           \A u \in Threads : pc'[u] \in Section("output") => pc'[u] = pc[u] /\ count'[u] = count[u]
    PROVE  DisplayOK'
<1>0. /\ "output" \in LockNames /\ locks'["output"] \in Seq(Threads)
      /\ {"writePut", "writeP", "writeWait", "writeRelease"} = Section("output")
  BY DEF Inv, TypeOK, KernelType, LockNames, Section
<1>1. \A u \in Threads : Is(locks'["output"], u) => count'[u] = count[u]
  <2>1. LocksOK'
    BY DEF Inv, Core
  <2>2. \A u \in Threads : pc'[u] \in Section("output") <=> Is(locks'["output"], u)
    BY <1>0, <2>1 DEF LocksOK
  <2> QED BY <2>2
<1>2. \A u \in Threads : Behind(locks'["output"], u) => Is(locks'["output"], u)
  <2>1. \A q \in Seq(Threads), u \in Threads : Behind(q, u) => Is(q, u)
    BY DEF Behind, Is
  <2> QED BY <1>0, <2>1
<1>3. WritersCount'
  BY <1>0, <1>1, <1>2 DEF DisplayOK, WritersCount
<1>4. LastLine'
  <2>1. CASE locks["output"] = <<>>
    BY <2>1 DEF DisplayOK, LastLine
  <2>2. CASE locks["output"] # <<>>
    <3>1. locks'["output"][1] \in Threads /\ Is(locks'["output"], locks'["output"][1])
      BY <1>0, <2>2, Tailed
    <3>2. count'[locks["output"][1]] = count[locks["output"][1]]
      BY <1>1, <3>1
    <3> QED BY <2>2, <3>2 DEF DisplayOK, LastLine
  <2> QED BY <2>1, <2>2
<1>5. DisplayWhole'
  BY DEF DisplayOK, DisplayWhole
<1> QED BY <1>3, <1>4, <1>5 DEF DisplayOK

(* The start of a line.                                                     *)
LEMMA WriteLineDisplay ==
    ASSUME Inv, Inv', DisplayOK, NEW t \in Threads, WriteLine(t)
    PROVE  DisplayOK'
<1> DEFINE q == locks["output"]
<1>0. /\ pc[t] = "user" /\ pc' = [pc EXCEPT ![t] = "writePut"]
      /\ count' = [count EXCEPT ![t] = LineLength] /\ UNCHANGED display
      /\ locks' = [locks EXCEPT !["output"] = Append(@, t)]
  BY DEF WriteLine, At, Acquire
<1>1. /\ q \in Seq(Threads) /\ locks'["output"] = Append(q, t) /\ count'[t] = LineLength
      /\ \A u \in Threads \ {t} : pc'[u] = pc[u] /\ count'[u] = count[u]
      /\ pc'[t] = "writePut" /\ LineLength \in Nat \ {0} /\ Len(display) \in Nat
  <2>1. /\ locks \in [LockNames -> Seq(Threads)] /\ "output" \in LockNames
        /\ pc \in [Threads -> PCs] /\ count \in [Threads -> Int] /\ display \in Seq(Threads)
    BY DEF Inv, TypeOK, KernelType, DeviceType, LockNames
  <2>2. LineLength \in Nat \ {0}
    BY Constants
  <2> QED BY <1>0, <2>1, <2>2
<1>2. ~Is(q, t) /\ ~Behind(q, t)
  BY <1>0, <1>1, Sections, QueueParts DEF Inv, Core, LocksOK, LockNames
<1> HIDE DEF q
<1>3. /\ Append(q, t) # <<>>
      /\ \A u \in Threads : Behind(Append(q, t), u) => Behind(q, u) \/ u = t
      /\ q # <<>> => Append(q, t)[1] = q[1]
      /\ q = <<>> => Append(q, t)[1] = t
  BY <1>1, Appended
<1>4. WritersCount'
  BY <1>1, <1>2, <1>3 DEF DisplayOK, WritersCount, q
<1>5. LastLine'
  <2>1. CASE q = <<>>
    <3>1. Len(display) % LineLength = 0
      BY <2>1 DEF DisplayOK, LastLine, q
    <3>2. (Len(display) + LineLength) % LineLength = 0
      BY <1>1, <3>1, ModuloLine
    <3> QED BY <1>0, <1>1, <1>3, <2>1, <3>2 DEF LastLine
  <2>2. CASE q # <<>>
    <3>1. q[1] \in Threads /\ q[1] # t
      BY <1>1, <1>2, <2>2, QueueParts, Tailed
    <3>2. count'[q[1]] = count[q[1]]
      BY <1>1, <3>1
    <3> QED BY <1>0, <1>1, <1>3, <2>2, <3>2 DEF DisplayOK, LastLine, q
  <2> QED BY <2>1, <2>2
<1>6. DisplayWhole'
  BY <1>0 DEF DisplayOK, DisplayWhole
<1> QED BY <1>4, <1>5, <1>6 DEF DisplayOK

(* A character of it.                                                       *)
LEMMA PutCharDisplay ==
    ASSUME Inv, Inv', DisplayOK, NEW t \in Threads, PutChar(t)
    PROVE  DisplayOK'
<1> DEFINE q == locks["output"]
<1>0. /\ pc[t] = "writePut" /\ running = t /\ pc' = [pc EXCEPT ![t] = "writeP"]
      /\ count' = [count EXCEPT ![t] = @ - 1] /\ display' = Append(display, t)
      /\ UNCHANGED locks
  BY DEF PutChar, At
<1>1. /\ q \in Seq(Threads) /\ locks'["output"] = q /\ count'[t] = count[t] - 1
      /\ \A u \in Threads \ {t} : pc'[u] = pc[u] /\ count'[u] = count[u]
      /\ pc'[t] = "writeP" /\ LineLength \in Nat \ {0} /\ display \in Seq(Threads) /\ Len(display) \in Nat
      /\ count[t] \in Int
  <2>1. /\ locks \in [LockNames -> Seq(Threads)] /\ "output" \in LockNames
        /\ pc \in [Threads -> PCs] /\ count \in [Threads -> Int] /\ display \in Seq(Threads)
    BY DEF Inv, TypeOK, KernelType, DeviceType, LockNames
  <2>2. LineLength \in Nat \ {0}
    BY Constants
  <2> QED BY <1>0, <2>1, <2>2
<1>2. q # <<>> /\ q[1] = t
  <2>1. "output" \in LockNames /\ pc[t] \in Section("output")
    BY <1>0 DEF LockNames, Section
  <2> QED BY <1>0, <2>1, Sole DEF Inv
<1>3. ~Behind(q, t)
  BY <1>0 DEF Inv, Core, Places, Runnable, Waiting, LockNames
<1> HIDE DEF q
<1>4. count[t] \in 1 .. LineLength
  BY <1>0 DEF DisplayOK, WritersCount
<1>5. /\ (Len(display) + count[t]) % LineLength = 0
      /\ count[t] # LineLength => display # <<>> /\ display[Len(display)] = t
  BY <1>2 DEF DisplayOK, LastLine, q
<1>6. /\ Len(display') = Len(display) + 1 /\ display' # <<>> /\ display'[Len(display) + 1] = t
      /\ \A i \in 1 .. Len(display) : display'[i] = display[i]
  BY <1>0, <1>1
<1>7. WritersCount'
  BY <1>1, <1>3, <1>4 DEF DisplayOK, WritersCount, q
<1>8. LastLine'
  <2>1. Len(display') + count'[t] = Len(display) + count[t]
    <3>1. \A a, b \in Int : (a + 1) + (b - 1) = a + b
      OBVIOUS
    <3>2. (Len(display) + 1) + (count[t] - 1) = Len(display) + count[t]
      BY <1>1, <3>1
    <3>3. Len(display') = Len(display) + 1 /\ count'[t] = count[t] - 1
      BY <1>1, <1>6
    <3> QED BY <3>2, <3>3
  <2> QED BY <1>1, <1>2, <1>5, <1>6, <2>1 DEF LastLine
<1>9. DisplayWhole'
  <2> SUFFICES ASSUME NEW i \in 1 .. Len(display') - 1, i % LineLength # 0
               PROVE  display'[i] = display'[i + 1]
    BY DEF DisplayWhole
  <2>1. CASE i < Len(display)
    <3>1. i \in 1 .. Len(display) - 1 /\ i \in 1 .. Len(display) /\ i + 1 \in 1 .. Len(display)
      BY <1>1, <1>6, <2>1
    <3> QED BY <1>6, <3>1 DEF DisplayOK, DisplayWhole
  <2>2. CASE i = Len(display)
    <3>1. count[t] # LineLength
      <4>1. Len(display) % LineLength # 0
        BY <2>2
      <4>2. (Len(display) + LineLength) % LineLength = Len(display) % LineLength
        BY <1>1, ModuloLine
      <4> QED BY <1>5, <4>1, <4>2
    <3>2. i \in 1 .. Len(display)
      BY <2>2
    <3> QED BY <1>5, <1>6, <2>2, <3>1, <3>2
  <2> QED BY <1>1, <1>6, <2>1, <2>2
<1> QED BY <1>7, <1>8, <1>9 DEF DisplayOK

LEMMA WriteWaitDisplay ==
    ASSUME Inv, Inv', DisplayOK, NEW t \in Threads, WriteWait(t)
    PROVE  DisplayOK'
<1> DEFINE to == IF count[t] > 0 THEN "writePut" ELSE "writeRelease"
           q == locks["output"]
<1>0. /\ pc[t] \in {"writeP", "writeWait"} /\ running = t /\ UNCHANGED <<locks, count, display>>
      /\ pc' = [pc EXCEPT ![t] = "writeWait"] \/ pc' = [pc EXCEPT ![t] = to]
  BY DEF WriteWait, P, io
<1>1. /\ pc'[t] = "writeWait" \/ pc'[t] = to
      /\ \A u \in Threads \ {t} : pc'[u] = pc[u]
      /\ LineLength \in Nat \ {0} /\ count[t] \in Int
  BY <1>0, Constants DEF Inv, TypeOK, KernelType, DeviceType
<1>2. count[t] \in 0 .. LineLength - 1
  BY <1>0 DEF DisplayOK, WritersCount
<1>3. WritersCount'
  BY <1>0, <1>1, <1>2 DEF DisplayOK, WritersCount
<1>4. LastLine' /\ DisplayWhole'
  BY <1>0 DEF DisplayOK, LastLine, DisplayWhole
<1> QED BY <1>3, <1>4 DEF DisplayOK

(* The end of a line.                                                       *)
LEMMA WriteReleaseDisplay ==
    ASSUME Inv, Inv', DisplayOK, NEW t \in Threads, WriteRelease(t)
    PROVE  DisplayOK'
<1> DEFINE q == locks["output"]
<1>0. /\ pc[t] = "writeRelease" /\ running = t /\ pc' = [pc EXCEPT ![t] = "user"]
      /\ locks' = [locks EXCEPT !["output"] = Tail(@)] /\ UNCHANGED <<count, display>>
  BY DEF WriteRelease, At, Release, io
<1>1. /\ q \in Seq(Threads) /\ locks'["output"] = Tail(q)
      /\ \A u \in Threads \ {t} : pc'[u] = pc[u]
      /\ pc'[t] = "user" /\ LineLength \in Nat \ {0} /\ Len(display) \in Nat
  BY <1>0, Constants DEF Inv, TypeOK, KernelType, DeviceType, LockNames
<1>2. q # <<>> /\ q[1] = t
  <2>1. "output" \in LockNames /\ pc[t] \in Section("output") /\ pc[t] # Entry("output")
    BY <1>0 DEF LockNames, Section, Entry
  <2> QED BY <1>0, <2>1, Sole DEF Inv
<1> HIDE DEF q
<1>3. count[t] = 0
  BY <1>0 DEF DisplayOK, WritersCount
<1>4. Len(display) % LineLength = 0
  <2>1. (Len(display) + count[t]) % LineLength = 0
    BY <1>2 DEF DisplayOK, LastLine, q
  <2> QED BY <1>1, <1>3, <2>1
<1>5. \A u \in Threads : Behind(Tail(q), u) => Behind(q, u)
  BY <1>1, <1>2, Tailed
<1>6. WritersCount'
  BY <1>0, <1>1, <1>5 DEF DisplayOK, WritersCount, q
<1>7. LastLine'
  <2>1. CASE Tail(q) = <<>>
    BY <1>0, <1>1, <1>4, <2>1 DEF LastLine
  <2>2. CASE Tail(q) # <<>>
    <3>1. Tail(q)[1] \in Threads /\ Behind(q, Tail(q)[1])
      BY <1>1, <1>2, <2>2, Tailed
    <3>2. count[Tail(q)[1]] = LineLength
      BY <3>1 DEF DisplayOK, WritersCount, q
    <3>3. (Len(display) + LineLength) % LineLength = 0
      BY <1>1, <1>4, ModuloLine
    <3> QED BY <1>0, <1>1, <2>2, <3>2, <3>3 DEF LastLine
  <2> QED BY <2>1, <2>2
<1>8. DisplayWhole'
  BY <1>0 DEF DisplayOK, DisplayWhole
<1> QED BY <1>6, <1>7, <1>8 DEF DisplayOK

-----------------------------------------------------------------------------
(* Lines from the keyboard                                                  *)

(* The semaphore counts the character in the buffer until a reader is about
   to fetch it.                                                             *)
BufferOK ==
    LET value == sems["inputAvailable"].value IN
    /\ value <= 1
    /\ value = 1 => incoming # EOF_ /\ \A t \in Threads : pc[t] # "readGet"
    /\ \A t \in Threads : pc[t] = "readGet" => incoming # EOF_

(* What was handed out and what is in the buffer is what was typed.         *)
TakenOK ==
    /\ incoming = EOF_ => Len(taken) = typed
    /\ incoming # EOF_ => Len(taken) = typed - 1 /\ incoming = Keyboard[typed]
    /\ \A i \in 1 .. Len(taken) : taken[i].char = Keyboard[i]

(* A reader may stop after n characters.                                    *)
FullBuffer(n) == n >= BufferSize /\ \A j \in n - BufferSize + 1 .. n : taken[j].by = taken[n].by
EndOfLine(n) == n = 0 \/ taken[n].char = "nl" \/ FullBuffer(n)

(* What a reader has read of its line.                                      *)
ReadersCount ==
    \A t \in Threads :
        /\ pc[t] \in {"readP", "readWait", "readGet"} => count[t] \in 0 .. BufferSize - 1
        /\ pc[t] = "readRelease" => count[t] \in Nat
        /\ Behind(locks["input"], t) => count[t] = 0

(* The last line is whole, or the holder of the lock is reading it.         *)
LastRead ==
    LET q == locks["input"] IN
    /\ q = <<>> => EndOfLine(Len(taken))
    /\ q # <<>> => /\ count[q[1]] <= Len(taken)
                   /\ \A j \in Len(taken) - count[q[1]] + 1 .. Len(taken) : taken[j].by = q[1]
                   /\ count[q[1]] = 0 \/ pc[q[1]] = "readRelease" => EndOfLine(Len(taken))

TakenWhole == \A i \in 1 .. Len(taken) - 1 : taken[i].by # taken[i + 1].by => EndOfLine(i)

ReadersOK == ReadersCount /\ LastRead /\ TakenWhole

(* A step that the buffer does not notice.                                  *)
LEMMA BufferKept ==
    ASSUME BufferOK, TakenOK, sems'["inputAvailable"].value = sems["inputAvailable"].value,
           UNCHANGED <<incoming, typed, taken>>,
           \A u \in Threads : pc'[u] = "readGet" => pc[u] = "readGet"
    PROVE  BufferOK' /\ TakenOK'
BY DEF BufferOK, TakenOK

(* A step that the readers do not notice.                                   *)
LEMMA ReadersKept ==
    ASSUME Inv', ReadersOK, locks'["input"] = locks["input"], UNCHANGED taken,
           \A u \in Threads : pc'[u] \in Section("input") => pc'[u] = pc[u] /\ count'[u] = count[u]
    PROVE  ReadersOK'
<1>0. /\ "input" \in LockNames /\ locks'["input"] \in Seq(Threads)
      /\ {"readP", "readWait", "readGet", "readRelease"} = Section("input")
  BY DEF Inv, TypeOK, KernelType, LockNames, Section
<1>1. \A u \in Threads : Is(locks'["input"], u) => count'[u] = count[u] /\ pc'[u] = pc[u]
  <2>1. LocksOK'
    BY DEF Inv, Core
  <2>2. \A u \in Threads : pc'[u] \in Section("input") <=> Is(locks'["input"], u)
    BY <1>0, <2>1 DEF LocksOK
  <2> QED BY <2>2
<1>2. \A u \in Threads : Behind(locks'["input"], u) => Is(locks'["input"], u)
  <2>1. \A q \in Seq(Threads), u \in Threads : Behind(q, u) => Is(q, u)
    BY DEF Behind, Is
  <2> QED BY <1>0, <2>1
<1>3. ReadersCount'
  BY <1>0, <1>1, <1>2 DEF ReadersOK, ReadersCount
<1>4. \A n : EndOfLine(n)' <=> EndOfLine(n)
  BY DEF EndOfLine, FullBuffer
<1>5. LastRead'
  <2>1. CASE locks["input"] = <<>>
    BY <1>4, <2>1 DEF ReadersOK, LastRead
  <2>2. CASE locks["input"] # <<>>
    <3>1. locks'["input"][1] \in Threads /\ Is(locks'["input"], locks'["input"][1])
      BY <1>0, <2>2, Tailed
    <3>2. /\ count'[locks["input"][1]] = count[locks["input"][1]]
          /\ pc'[locks["input"][1]] = pc[locks["input"][1]]
      BY <1>1, <3>1
    <3> QED BY <1>4, <2>2, <3>2 DEF ReadersOK, LastRead
  <2> QED BY <2>1, <2>2
<1>6. TakenWhole'
  BY <1>4 DEF ReadersOK, TakenWhole
<1> QED BY <1>3, <1>5, <1>6 DEF ReadersOK

(* The start of a ReadLine.                                                 *)
LEMMA ReadLineReaders ==
    ASSUME Inv, Inv', ReadersOK, NEW t \in Threads, ReadLine(t)
    PROVE  ReadersOK'
<1> DEFINE q == locks["input"]
<1>0. /\ pc[t] = "user" /\ pc' = [pc EXCEPT ![t] = "readP"]
      /\ count' = [count EXCEPT ![t] = 0] /\ UNCHANGED taken
      /\ locks' = [locks EXCEPT !["input"] = Append(@, t)]
  BY DEF ReadLine, At, Acquire
<1>1. /\ q \in Seq(Threads) /\ locks'["input"] = Append(q, t) /\ count'[t] = 0
      /\ \A u \in Threads \ {t} : pc'[u] = pc[u] /\ count'[u] = count[u]
      /\ pc'[t] = "readP" /\ BufferSize \in Nat \ {0} /\ Len(taken) \in Nat
  <2>1. /\ locks \in [LockNames -> Seq(Threads)] /\ "input" \in LockNames
        /\ pc \in [Threads -> PCs] /\ count \in [Threads -> Int]
        /\ taken \in Seq([by : Threads, char : Chars])
    BY DEF Inv, TypeOK, KernelType, DeviceType, LockNames
  <2>2. BufferSize \in Nat \ {0}
    BY Constants
  <2> QED BY <1>0, <2>1, <2>2
<1>2. ~Is(q, t) /\ ~Behind(q, t)
  BY <1>0, <1>1, Sections, QueueParts DEF Inv, Core, LocksOK, LockNames
<1> HIDE DEF q
<1>3. /\ Append(q, t) # <<>>
      /\ \A u \in Threads : Behind(Append(q, t), u) => Behind(q, u) \/ u = t
      /\ q # <<>> => Append(q, t)[1] = q[1]
      /\ q = <<>> => Append(q, t)[1] = t
  BY <1>1, Appended
<1>4. ReadersCount'
  BY <1>1, <1>2, <1>3 DEF ReadersOK, ReadersCount, q
<1>5. \A n : EndOfLine(n)' <=> EndOfLine(n)
  BY <1>0 DEF EndOfLine, FullBuffer
<1>6. LastRead'
  <2>1. CASE q = <<>>
    <3>1. EndOfLine(Len(taken))
      BY <2>1 DEF ReadersOK, LastRead, q
    <3> QED BY <1>0, <1>1, <1>3, <1>5, <2>1, <3>1 DEF LastRead
  <2>2. CASE q # <<>>
    <3>1. q[1] \in Threads /\ q[1] # t
      BY <1>1, <1>2, <2>2, QueueParts, Tailed
    <3>2. count'[q[1]] = count[q[1]] /\ pc'[q[1]] = pc[q[1]]
      BY <1>1, <3>1
    <3> QED BY <1>0, <1>1, <1>3, <1>5, <2>2, <3>2 DEF ReadersOK, LastRead, q
  <2> QED BY <2>1, <2>2
<1>7. TakenWhole'
  BY <1>0, <1>5 DEF ReadersOK, TakenWhole
<1> QED BY <1>4, <1>6, <1>7 DEF ReadersOK

LEMMA ReadWaitReaders ==
    ASSUME Inv, Inv', ReadersOK, BufferOK, TakenOK, NEW t \in Threads, ReadWait(t)
    PROVE  ReadersOK' /\ BufferOK' /\ TakenOK'
<1> DEFINE q == locks["input"]
<1>0. /\ pc[t] \in {"readP", "readWait"} /\ running = t /\ UNCHANGED <<locks, count, taken, incoming, typed>>
      /\ \/ /\ sems'["inputAvailable"].value = sems["inputAvailable"].value
            /\ pc' = [pc EXCEPT ![t] = "readWait"]
         \/ /\ sems["inputAvailable"].value # 0
            /\ sems'["inputAvailable"].value = sems["inputAvailable"].value - 1
            /\ pc' = [pc EXCEPT ![t] = "readGet"]
  <2>1. sems \in [SemNames -> [value : Nat, queue : Seq(Threads)]] /\ "inputAvailable" \in SemNames
    BY DEF Inv, TypeOK, KernelType, SemNames
  <2>2. /\ P(t, "inputAvailable", "readP", "readWait", "readGet")
        /\ UNCHANGED <<locks, count, taken, incoming, typed>>
    BY DEF ReadWait, io, console
  <2>3. CASE sems["inputAvailable"].value = 0
    <3>1. /\ sems' = [sems EXCEPT !["inputAvailable"].queue = Append(@, t)]
          /\ pc' = [pc EXCEPT ![t] = "readWait"]
      BY <2>2, <2>3 DEF P
    <3>2. sems'["inputAvailable"].value = sems["inputAvailable"].value
      BY <2>1, <3>1
    <3> QED BY <2>2, <3>1, <3>2 DEF P
  <2>4. CASE sems["inputAvailable"].value # 0
    <3>1. /\ sems' = [sems EXCEPT !["inputAvailable"].value = @ - 1]
          /\ pc' = [pc EXCEPT ![t] = "readGet"]
      BY <2>2, <2>4 DEF P
    <3>2. sems'["inputAvailable"].value = sems["inputAvailable"].value - 1
      BY <2>1, <3>1
    <3> QED BY <2>2, <2>4, <3>1, <3>2 DEF P
  <2> QED BY <2>3, <2>4
<1>1. /\ pc'[t] = "readWait" \/ pc'[t] = "readGet"
      /\ \A u \in Threads \ {t} : pc'[u] = pc[u]
      /\ BufferSize \in Nat \ {0} /\ count[t] \in Int
      /\ sems["inputAvailable"].value \in Nat
  BY <1>0, Constants DEF Inv, TypeOK, KernelType, DeviceType, SemNames
<1>2. q # <<>> /\ q[1] = t /\ \A u \in Threads \ {t} : pc[u] # "readGet"
  <2>1. /\ "input" \in LockNames /\ pc[t] \in Section("input") /\ "readGet" \in Section("input")
        /\ "readGet" # Entry("input")
    BY <1>0 DEF LockNames, Section, Entry
  <2> QED BY <1>0, <2>1, Sole DEF Inv
<1> HIDE DEF q
<1>3. \A n : EndOfLine(n)' <=> EndOfLine(n)
  BY <1>0 DEF EndOfLine, FullBuffer
<1>4. ReadersCount'
  BY <1>0, <1>1 DEF ReadersOK, ReadersCount
<1>5. LastRead'
  <2>1. pc'[t] # "readRelease"
    BY <1>1
  <2> QED BY <1>0, <1>2, <1>3, <2>1 DEF ReadersOK, LastRead, q
<1>6. TakenWhole'
  BY <1>0, <1>3 DEF ReadersOK, TakenWhole
<1>7. TakenOK'
  BY <1>0 DEF TakenOK
<1>8. BufferOK'
  <2>1. CASE /\ sems'["inputAvailable"].value = sems["inputAvailable"].value
             /\ pc' = [pc EXCEPT ![t] = "readWait"]
    <3>1. \A u \in Threads : pc'[u] = "readGet" => pc[u] = "readGet"
      BY <2>1, <1>1 DEF Inv, TypeOK, KernelType
    <3> QED BY <1>0, <2>1, <3>1, BufferKept
  <2>2. CASE /\ sems["inputAvailable"].value # 0
             /\ sems'["inputAvailable"].value = sems["inputAvailable"].value - 1
    <3>1. sems["inputAvailable"].value = 1 /\ sems'["inputAvailable"].value = 0
      BY <1>1, <2>2 DEF BufferOK
    <3>2. incoming' # EOF_
      BY <1>0, <3>1 DEF BufferOK
    <3> QED BY <3>1, <3>2 DEF BufferOK
  <2> QED BY <1>0, <2>1, <2>2
<1> QED BY <1>4, <1>5, <1>6, <1>7, <1>8 DEF ReadersOK

(* The end of a ReadLine.                                                   *)
LEMMA ReadReleaseReaders ==
    ASSUME Inv, Inv', ReadersOK, NEW t \in Threads, ReadRelease(t)
    PROVE  ReadersOK'
<1> DEFINE q == locks["input"]
<1>0. /\ pc[t] = "readRelease" /\ running = t /\ pc' = [pc EXCEPT ![t] = "user"]
      /\ locks' = [locks EXCEPT !["input"] = Tail(@)] /\ UNCHANGED <<count, taken>>
  BY DEF ReadRelease, At, Release, io
<1>1. /\ q \in Seq(Threads) /\ locks'["input"] = Tail(q)
      /\ \A u \in Threads \ {t} : pc'[u] = pc[u]
      /\ pc'[t] = "user" /\ BufferSize \in Nat \ {0} /\ Len(taken) \in Nat
  BY <1>0, Constants DEF Inv, TypeOK, KernelType, DeviceType, LockNames
<1>2. q # <<>> /\ q[1] = t
  <2>1. "input" \in LockNames /\ pc[t] \in Section("input") /\ pc[t] # Entry("input")
    BY <1>0 DEF LockNames, Section, Entry
  <2> QED BY <1>0, <2>1, Sole DEF Inv
<1> HIDE DEF q
<1>3. EndOfLine(Len(taken))
  BY <1>0, <1>2 DEF ReadersOK, LastRead, q
<1>4. \A n : EndOfLine(n)' <=> EndOfLine(n)
  BY <1>0 DEF EndOfLine, FullBuffer
<1>5. \A u \in Threads : Behind(Tail(q), u) => Behind(q, u)
  BY <1>1, <1>2, Tailed
<1>6. ReadersCount'
  BY <1>0, <1>1, <1>5 DEF ReadersOK, ReadersCount, q
<1>7. LastRead'
  <2>1. CASE Tail(q) = <<>>
    BY <1>0, <1>1, <1>3, <1>4, <2>1 DEF LastRead
  <2>2. CASE Tail(q) # <<>>
    <3>1. Tail(q)[1] \in Threads /\ Behind(q, Tail(q)[1])
      BY <1>1, <1>2, <2>2, Tailed
    <3>2. count[Tail(q)[1]] = 0
      BY <3>1 DEF ReadersOK, ReadersCount, q
    <3>3. count'[Tail(q)[1]] = 0 /\ Len(taken') \in Nat
      BY <1>0, <1>1, <3>2
    <3>4. EndOfLine(Len(taken))'
      BY <1>0, <1>3, <1>4
    <3> QED BY <1>1, <2>2, <3>3, <3>4 DEF LastRead
  <2> QED BY <2>1, <2>2
<1>8. TakenWhole'
  BY <1>0, <1>4 DEF ReadersOK, TakenWhole
<1> QED BY <1>6, <1>7, <1>8 DEF ReadersOK

(* The character is fetched by the only thread past Acquire.                *)
LEMMA GetCharReaders ==
    ASSUME Inv, Inv', ReadersOK, BufferOK, TakenOK, NEW t \in Threads, GetChar(t)
    PROVE  ReadersOK' /\ BufferOK' /\ TakenOK'
<1> DEFINE q == locks["input"]
<1>0. /\ pc[t] = "readGet" /\ running = t /\ incoming' = EOF_ /\ UNCHANGED <<locks, sems, typed>>
      /\ pc' = [pc EXCEPT ![t] = IF incoming # "nl" /\ count'[t] < BufferSize THEN "readP"
                                                                            ELSE "readRelease"]
      /\ count' = [count EXCEPT ![t] = @ + 1]
      /\ taken' = Append(taken, [by |-> t, char |-> incoming])
  BY DEF GetChar, At
<1>1. PICK n \in Nat : n = Len(taken)
  BY DEF Inv, TypeOK, DeviceType
<1>2. PICK c \in 0 .. BufferSize - 1 : c = count[t]
  BY <1>0 DEF ReadersOK, ReadersCount
<1>3. /\ q \in Seq(Threads) /\ count'[t] = c + 1
      /\ \A u \in Threads \ {t} : pc'[u] = pc[u] /\ count'[u] = count[u]
      /\ pc'[t] = IF incoming # "nl" /\ c + 1 < BufferSize THEN "readP" ELSE "readRelease"
      /\ typed \in Nat /\ BufferSize \in Nat \ {0} /\ c \in Nat
  <2>1. /\ locks \in [LockNames -> Seq(Threads)] /\ "input" \in LockNames
        /\ pc \in [Threads -> PCs] /\ count \in [Threads -> Int] /\ typed \in 0 .. Len(Keyboard)
    BY DEF Inv, TypeOK, KernelType, DeviceType, LockNames
  <2>2. BufferSize \in Nat \ {0}
    BY Constants
  <2>3. count'[t] = c + 1
    BY <1>0, <1>2, <2>1
  <2>4. c \in Nat
    BY <1>2
  <2> QED BY <1>0, <2>1, <2>2, <2>3, <2>4
<1>4. /\ Len(taken') = n + 1 /\ taken'[n + 1] = [by |-> t, char |-> incoming]
      /\ \A i \in 1 .. n : taken'[i] = taken[i]
  BY <1>0, <1>1 DEF Inv, TypeOK, DeviceType
<1>5. q # <<>> /\ q[1] = t /\ \A u \in Threads \ {t} : pc[u] # "readGet"
  <2>1. /\ "input" \in LockNames /\ pc[t] \in Section("input") /\ "readGet" \in Section("input")
        /\ "readGet" # Entry("input")
    BY <1>0 DEF LockNames, Section, Entry
  <2> QED BY <1>0, <2>1, Sole DEF Inv
<1>6. ~Behind(q, t)
  BY <1>0 DEF Inv, Core, Places, Runnable, Waiting, LockNames
<1> HIDE DEF q
<1>7. incoming # EOF_ /\ sems["inputAvailable"].value # 1
  BY <1>0 DEF BufferOK
<1>8. n = typed - 1 /\ incoming = Keyboard[typed]
  BY <1>1, <1>7 DEF TakenOK
<1>9. BufferOK'
  <2>1. \A u \in Threads : pc'[u] # "readGet"
    BY <1>3, <1>5
  <2> QED BY <1>0, <1>7, <2>1 DEF BufferOK
<1>10. TakenOK'
  <2>1. n + 1 = typed
    BY <1>3, <1>8
  <2>2. Len(taken') = typed'
    BY <1>0, <1>4, <2>1
  <2>3. \A i \in 1 .. Len(taken') : taken'[i].char = Keyboard[i]
    <3> SUFFICES ASSUME NEW i \in 1 .. n + 1 PROVE taken'[i].char = Keyboard[i]
      BY <1>4
    <3>1. CASE i = n + 1
      BY <1>4, <1>8, <2>1, <3>1
    <3>2. CASE i # n + 1
      <4>1. i \in 1 .. n
        BY <3>2
      <4> QED BY <1>1, <1>4, <4>1 DEF TakenOK
    <3> QED BY <3>1, <3>2
  <2> QED BY <1>0, <2>2, <2>3 DEF TakenOK
<1>11. /\ c <= n /\ \A j \in n - c + 1 .. n : taken[j].by = t
       /\ c = 0 => EndOfLine(n)
  BY <1>1, <1>2, <1>5 DEF ReadersOK, LastRead, q
<1>12. \A i \in 0 .. n : EndOfLine(i) => EndOfLine(i)'
  <2> SUFFICES ASSUME NEW i \in 0 .. n, EndOfLine(i), i # 0
               PROVE  taken'[i].char = "nl" \/ FullBuffer(i)'
    BY DEF EndOfLine
  <2>1. i \in 1 .. n /\ taken'[i] = taken[i]
    BY <1>4
  <2>2. FullBuffer(i) => FullBuffer(i)'
    <3>1. ASSUME FullBuffer(i) PROVE \A j \in i - BufferSize + 1 .. i : j \in 1 .. n /\ taken'[j] = taken[j]
      <4>1. i >= BufferSize
        BY <3>1 DEF FullBuffer
      <4> QED BY <1>3, <1>4, <2>1, <4>1
    <3> QED BY <2>1, <3>1 DEF FullBuffer
  <2> QED BY <2>1, <2>2 DEF EndOfLine
<1>13. \A j \in n + 1 - (c + 1) + 1 .. n + 1 : taken'[j].by = t
  <2> SUFFICES ASSUME NEW j \in n + 1 - (c + 1) + 1 .. n + 1 PROVE taken'[j].by = t
    OBVIOUS
  <2>1. CASE j = n + 1
    BY <1>4, <2>1
  <2>2. CASE j # n + 1
    <3>1. j \in n - c + 1 .. n /\ j \in 1 .. n
      BY <1>3, <1>11, <2>2
    <3> QED BY <1>4, <1>11, <3>1
  <2> QED BY <2>1, <2>2
<1>14. ReadersCount'
  <2>1. \A u \in Threads \ {t} : /\ pc'[u] = pc[u] /\ count'[u] = count[u]
                                 /\ Behind(locks'["input"], u) => Behind(locks["input"], u)
    BY <1>0, <1>3
  <2>2. /\ pc'[t] \in {"readP", "readRelease"} /\ (pc'[t] = "readP" => c + 1 < BufferSize)
        /\ count'[t] = c + 1 /\ c + 1 \in Nat /\ ~Behind(locks'["input"], t)
    BY <1>0, <1>3, <1>6 DEF q
  <2>3. pc'[t] = "readP" => c + 1 \in 0 .. BufferSize - 1
    BY <1>3, <2>2
  <2> QED BY <2>1, <2>2, <2>3 DEF ReadersOK, ReadersCount
<1>15. pc'[t] = "readRelease" => EndOfLine(n + 1)'
  <2> SUFFICES ASSUME pc'[t] = "readRelease", incoming # "nl", NEW m \in Nat, m = n + 1
               PROVE  EndOfLine(m)'
    BY <1>1, <1>4 DEF EndOfLine
  <2>1. c + 1 = BufferSize
    BY <1>2, <1>3
  <2>2. m >= BufferSize /\ m - BufferSize + 1 = n + 1 - (c + 1) + 1
    BY <1>3, <1>11, <2>1
  <2>3. taken'[m].by = t
    BY <1>4
  <2>4. \A j \in m - BufferSize + 1 .. m : taken'[j].by = t
    BY <1>13, <2>2
  <2>5. FullBuffer(m)'
    BY <2>2, <2>3, <2>4 DEF FullBuffer
  <2> QED BY <2>5 DEF EndOfLine
<1>16. LastRead'
  <2>1. locks'["input"] = q /\ count'[t] # 0 /\ count'[t] <= Len(taken')
    BY <1>0, <1>3, <1>4, <1>11 DEF q
  <2> QED BY <1>3, <1>4, <1>5, <1>13, <1>15, <2>1 DEF LastRead
<1>17. TakenWhole'
  <2> SUFFICES ASSUME NEW i \in 1 .. n, taken'[i].by # taken'[i + 1].by PROVE EndOfLine(i)'
    BY <1>4 DEF TakenWhole
  <2>1. CASE i < n
    <3>1. i \in 1 .. n - 1 /\ i + 1 \in 1 .. n /\ i \in 0 .. n
      BY <2>1
    <3>2. EndOfLine(i)
      BY <1>1, <1>4, <3>1 DEF ReadersOK, TakenWhole
    <3> QED BY <1>12, <3>1, <3>2
  <2>2. CASE i = n
    <3>1. taken[n].by # t
      BY <1>4, <2>2
    <3>2. c = 0
      <4>1. c # 0 => n \in n - c + 1 .. n
        BY <1>3
      <4> QED BY <1>11, <3>1, <4>1
    <3> QED BY <1>11, <1>12, <2>2, <3>2
  <2> QED BY <2>1, <2>2
<1> QED BY <1>9, <1>10, <1>14, <1>16, <1>17 DEF ReadersOK

(* A character is typed.                                                    *)
LEMMA CheckCharBuffer ==
    ASSUME Inv, BufferOK, TakenOK, CheckCharAvail, \A i \in DOMAIN Keyboard : Keyboard[i] # EOF_
    PROVE  BufferOK' /\ TakenOK'
<1>0. /\ incoming = EOF_ /\ typed < Len(Keyboard) /\ V("inputAvailable")
      /\ incoming' = Keyboard[typed + 1] /\ typed' = typed + 1
      /\ UNCHANGED <<pc, taken>>
  BY DEF CheckCharAvail, Loop, io
<1>1. incoming' # EOF_
  <2>1. typed \in 0 .. Len(Keyboard) /\ Len(Keyboard) \in Nat /\ DOMAIN Keyboard = 1 .. Len(Keyboard)
    BY Constants DEF Inv, TypeOK, DeviceType
  <2>2. typed + 1 \in DOMAIN Keyboard
    BY <1>0, <2>1
  <2> QED BY <1>0, <2>2
<1>2. sems'["inputAvailable"].value = 1
  <2>1. sems["inputAvailable"].value \in Nat /\ "inputAvailable" \in SemNames
    BY DEF Inv, TypeOK, KernelType, SemNames
  <2>2. sems["inputAvailable"].value = 0
    BY <1>0, <2>1 DEF BufferOK
  <2>3. sems'["inputAvailable"].value = sems["inputAvailable"].value + 1
    BY <1>0, <2>1 DEF V, Inv, TypeOK, KernelType
  <2> QED BY <2>2, <2>3
<1>3. BufferOK'
  BY <1>0, <1>1, <1>2 DEF BufferOK
<1>4. TakenOK'
  <2>1. typed \in Nat /\ Len(taken) = typed
    BY <1>0 DEF TakenOK, Inv, TypeOK, DeviceType
  <2>2. Len(taken') = typed' - 1
    BY <1>0, <2>1
  <2> QED BY <1>0, <1>1, <2>2 DEF TakenOK
<1> QED BY <1>3, <1>4

(* What each kind of step leaves alone.                                     *)
LEMMA LinesStep ==
    ASSUME Inv, Inv', DisplayOK, ReadersOK, BufferOK, TakenOK, [Next]_vars,
           \A i \in DOMAIN Keyboard : Keyboard[i] # EOF_
    PROVE  DisplayOK' /\ ReadersOK' /\ BufferOK' /\ TakenOK'
<1>0. /\ pc \in [Threads -> PCs] /\ count \in [Threads -> Int]
      /\ sems \in [SemNames -> [value : Nat, queue : Seq(Threads)]]
      /\ locks \in [LockNames -> Seq(Threads)]
      /\ LockNames = {"disk", "input", "output"} /\ SemNames = {"disk", "inputAvailable", "outputDone"}
      /\ Section("disk") = {"diskGo", "diskP", "diskWait", "diskRelease"}
      /\ Section("output") = {"writePut", "writeP", "writeWait", "writeRelease"}
      /\ Section("input") = {"readP", "readWait", "readGet", "readRelease"}
  BY DEF Inv, TypeOK, KernelType, DeviceType, LockNames, SemNames, Section
<1>1. ASSUME UNCHANGED <<pc, count, locks, display>> PROVE DisplayOK'
  BY <1>1, DisplayKept
<1>2. ASSUME UNCHANGED <<pc, count, locks, taken>> PROVE ReadersOK'
  BY <1>2, ReadersKept
<1>3. ASSUME NEW t \in Threads, Thread(t) PROVE DisplayOK' /\ ReadersOK' /\ BufferOK' /\ TakenOK'
  <2>1. CASE Instruction(t) \/ Finish(t) \/ DiskCall(t) \/ DiskWait(t) \/ DiskRelease(t)
             \/ \E s \in Sectors, writing \in BOOLEAN : DiskRequest(t, s, writing)
    <3>1. PICK p \in {"user", "done", "diskGo", "diskP", "diskWait", "diskRelease"} :
            pc' = [pc EXCEPT ![t] = p]
      BY <2>1 DEF Instruction, Finish, DiskCall, DiskWait, DiskRelease, DiskRequest, At, P
    <3>2. /\ UNCHANGED <<count, display, taken, incoming, typed>>
          /\ sems'["inputAvailable"] = sems["inputAvailable"]
          /\ locks'["input"] = locks["input"] /\ locks'["output"] = locks["output"]
      <4>1. CASE Instruction(t) \/ Finish(t)
        BY <4>1 DEF Instruction, Finish, io, console
      <4>2. CASE DiskCall(t)
        BY <1>0, <4>2 DEF DiskCall, Acquire, io, console
      <4>3. CASE DiskWait(t)
        BY <1>0, <4>3 DEF DiskWait, P, io, console
      <4>4. CASE DiskRelease(t)
        BY <1>0, <4>4 DEF DiskRelease, Release, io, console
      <4>5. CASE \E s \in Sectors, writing \in BOOLEAN : DiskRequest(t, s, writing)
        BY <4>5 DEF DiskRequest, io, console
      <4> QED BY <2>1, <4>1, <4>2, <4>3, <4>4, <4>5
    <3>3. pc'[t] = p /\ \A u \in Threads \ {t} : pc'[u] = pc[u]
      BY <1>0, <3>1
    <3>4. DisplayOK'
      BY <1>0, <3>2, <3>3, DisplayKept
    <3>5. ReadersOK'
      BY <1>0, <3>2, <3>3, ReadersKept
    <3>6. BufferOK' /\ TakenOK'
      BY <3>2, <3>3, BufferKept
    <3> QED BY <3>4, <3>5, <3>6
  <2>2. CASE WriteLine(t) \/ PutChar(t) \/ WriteWait(t) \/ WriteRelease(t)
    <3>1. DisplayOK'
      BY <2>2, WriteLineDisplay, PutCharDisplay, WriteWaitDisplay, WriteReleaseDisplay
    <3>2. PICK p \in {"user", "writePut", "writeP", "writeWait", "writeRelease"} :
            pc' = [pc EXCEPT ![t] = p]
      BY <2>2 DEF WriteLine, PutChar, WriteWait, WriteRelease, At, P
    <3>3. /\ UNCHANGED <<taken, incoming, typed>>
          /\ sems'["inputAvailable"] = sems["inputAvailable"] /\ locks'["input"] = locks["input"]
          /\ \A u \in Threads \ {t} : count'[u] = count[u]
      <4>1. CASE WriteLine(t)
        BY <1>0, <4>1 DEF WriteLine, Acquire, console
      <4>2. CASE PutChar(t)
        BY <1>0, <4>2 DEF PutChar
      <4>3. CASE WriteWait(t)
        BY <1>0, <4>3 DEF WriteWait, P, io, console
      <4>4. CASE WriteRelease(t)
        BY <1>0, <4>4 DEF WriteRelease, Release, io, console
      <4> QED BY <2>2, <4>1, <4>2, <4>3, <4>4
    <3>4. pc'[t] = p /\ \A u \in Threads \ {t} : pc'[u] = pc[u]
      BY <1>0, <3>2
    <3>5. ReadersOK'
      BY <1>0, <3>3, <3>4, ReadersKept
    <3>6. BufferOK' /\ TakenOK'
      BY <3>3, <3>4, BufferKept
    <3> QED BY <3>1, <3>5, <3>6
  <2>3. CASE ReadLine(t) \/ ReadWait(t) \/ GetChar(t) \/ ReadRelease(t)
    <3>1. ReadersOK'
      BY <2>3, ReadLineReaders, ReadWaitReaders, GetCharReaders, ReadReleaseReaders
    <3>2. PICK p \in {"user", "readP", "readWait", "readGet", "readRelease"} :
            pc' = [pc EXCEPT ![t] = p]
      BY <2>3 DEF ReadLine, ReadWait, GetChar, ReadRelease, At, P
    <3>3. /\ UNCHANGED display /\ locks'["output"] = locks["output"]
          /\ \A u \in Threads \ {t} : count'[u] = count[u]
      <4>1. CASE ReadLine(t)
        BY <1>0, <4>1 DEF ReadLine, Acquire
      <4>2. CASE ReadWait(t)
        BY <4>2 DEF ReadWait, io
      <4>3. CASE GetChar(t)
        BY <1>0, <4>3 DEF GetChar
      <4>4. CASE ReadRelease(t)
        BY <1>0, <4>4 DEF ReadRelease, Release, io
      <4> QED BY <2>3, <4>1, <4>2, <4>3, <4>4
    <3>4. pc'[t] = p /\ \A u \in Threads \ {t} : pc'[u] = pc[u]
      BY <1>0, <3>2
    <3>5. DisplayOK'
      BY <1>0, <3>3, <3>4, DisplayKept
    <3>6. CASE ReadLine(t) \/ ReadRelease(t)
      <4>1. UNCHANGED <<sems, taken, incoming, typed>> /\ pc'[t] # "readGet"
        BY <1>0, <3>6 DEF ReadLine, ReadRelease, At, console, io
      <4>2. BufferOK' /\ TakenOK'
        BY <3>4, <4>1, BufferKept
      <4> QED BY <3>1, <3>5, <4>2
    <3>7. CASE ReadWait(t) \/ GetChar(t)
      BY <3>1, <3>5, <3>7, ReadWaitReaders, GetCharReaders
    <3> QED BY <2>3, <3>6, <3>7
  <2> QED BY <1>3, <2>1, <2>2, <2>3 DEF Thread
<1>4. CASE \E t \in Threads : Thread(t)
  BY <1>3, <1>4
<1>5. CASE Resume \/ Return \/ Yield \/ IdleHalt \/ IdleReturn
           \/ (\E n \in TimeOfNextInterrupt : TimerExpired(n)) \/ PollNothing \/ UNCHANGED vars
  <2>1. UNCHANGED <<pc, locks, sems, console, io>>
    BY <1>5 DEF Resume, Return, Yield, IdleHalt, IdleReturn, TimerExpired, PollNothing, Loop, vars
  <2> QED BY <1>1, <1>2, <2>1, BufferKept DEF io, console
<1>6. CASE DiskDone \/ ConsoleWriteDone
  <2>1. UNCHANGED <<pc, locks, incoming, typed, io>>
    BY <1>6 DEF DiskDone, ConsoleWriteDone, Loop, console
  <2>2. sems'["inputAvailable"] = sems["inputAvailable"]
    BY <1>0, <1>6 DEF DiskDone, ConsoleWriteDone, V
  <2> QED BY <1>1, <1>2, <2>1, <2>2, BufferKept DEF io
<1>7. CASE CheckCharAvail
  <2>1. UNCHANGED <<pc, locks, io>>
    BY <1>7 DEF CheckCharAvail, Loop
  <2> QED BY <1>1, <1>2, <1>7, <2>1, CheckCharBuffer DEF io
<1> QED BY <1>4, <1>5, <1>6, <1>7 DEF Next

LEMMA LinesInit == Init => DisplayOK /\ ReadersOK /\ BufferOK /\ TakenOK
<1> SUFFICES ASSUME Init PROVE DisplayOK /\ ReadersOK /\ BufferOK /\ TakenOK
  OBVIOUS
<1>1. /\ pc = [t \in Threads |-> "user"] /\ locks = [l \in LockNames |-> <<>>]
      /\ sems = [s \in SemNames |-> [value |-> 0, queue |-> <<>>]]
      /\ incoming = EOF_ /\ typed = 0 /\ display = <<>> /\ taken = <<>>
  BY DEF Init
<1>2. locks["output"] = <<>> /\ locks["input"] = <<>> /\ sems["inputAvailable"].value = 0
  BY <1>1 DEF LockNames, SemNames
<1>3. WritersCount /\ ReadersCount
  BY <1>1, <1>2, EmptyQueue DEF WritersCount, ReadersCount
<1>4. LastLine /\ DisplayWhole
  <2>1. LineLength \in Nat \ {0}
    BY Constants
  <2>2. \A L \in Nat \ {0} : 0 % L = 0
    OBVIOUS
  <2>3. Len(display) = 0 /\ 0 % LineLength = 0
    BY <1>1, <2>1, <2>2
  <2> QED BY <1>2, <2>3 DEF LastLine, DisplayWhole
<1>5. LastRead /\ TakenWhole
  BY <1>1, <1>2 DEF LastRead, TakenWhole, EndOfLine
<1>6. BufferOK /\ TakenOK
  BY <1>1, <1>2 DEF BufferOK, TakenOK
<1> QED BY <1>3, <1>4, <1>5, <1>6 DEF DisplayOK, ReadersOK

LEMMA LinesImply == DisplayOK /\ ReadersOK /\ TakenOK /\ Inv => LinesWhole
<1> SUFFICES ASSUME DisplayOK, ReadersOK, TakenOK, Inv PROVE LinesWhole
  OBVIOUS
<1>1. taken \in Seq([by : Threads, char : Chars]) /\ DOMAIN taken = 1 .. Len(taken) /\ Len(taken) \in Nat
  BY DEF Inv, TypeOK, DeviceType
<1>2. \A i \in 1 .. Len(display) - 1 : i % LineLength # 0 => display[i] = display[i + 1]
  BY DEF DisplayOK, DisplayWhole
<1>3. \A i \in DOMAIN taken : taken[i].char = Keyboard[i]
  BY <1>1 DEF TakenOK
<1>4. ASSUME NEW i \in 1 .. Len(taken) - 1, taken[i].by # taken[i + 1].by
      PROVE  \/ taken[i].char = "nl"
             \/ i >= BufferSize /\ \A j \in i - BufferSize + 1 .. i : taken[j].by = taken[i].by
  <2>1. i # 0 /\ EndOfLine(i)
    BY <1>1, <1>4 DEF ReadersOK, TakenWhole
  <2> QED BY <2>1 DEF EndOfLine, FullBuffer
<1> QED BY <1>2, <1>3, <1>4 DEF LinesWhole

(* Lines are whole, however the threads are interleaved: so long as nothing
   that is typed has the value of EOF, which is the mark of the empty buffer
   in Console (console.cc:96).                                              *)
THEOREM LinesWholeHolds ==
    ASSUME \A i \in DOMAIN Keyboard : Keyboard[i] # EOF_
    PROVE  Spec => []LinesWhole
<1> DEFINE Lines == DisplayOK /\ ReadersOK /\ BufferOK /\ TakenOK
<1>1. Init => Lines
  BY LinesInit
<1>2. Lines /\ Inv /\ Inv' /\ [Next]_vars => Lines'
  BY LinesStep
<1>3. Lines /\ Inv => LinesWhole
  BY LinesImply
<1> HIDE DEF Lines
<1> QED BY <1>1, <1>2, <1>3, InvHolds, PTL DEF Spec

-----------------------------------------------------------------------------
(* The latency of the disk is exact                                         *)

(* Products with one factor in common.                                      *)
LEMMA Multiples ==
    ASSUME NEW R \in Nat \ {0}, NEW a \in Int, NEW b \in Int
    PROVE  /\ R * a \in Int /\ a * R = R * a
           /\ R * (a + b) = R * a + R * b /\ R * (a - b) = R * a - R * b /\ R * (a + 1) = R * a + R
           /\ a < b => R * a + R <= R * b
<1>1. /\ R * a \in Int /\ R * b \in Int /\ a * R = R * a
      /\ R * (a + b) = R * a + R * b /\ R * (a - b) = R * a - R * b /\ R * (a + 1) = R * a + R
  OBVIOUS
<1>2. ASSUME a < b PROVE R * a + R <= R * b
  <2>1. PICK d \in Nat : b = a + 1 + d
    <3>1. b - a - 1 \in Nat /\ b = a + 1 + (b - a - 1)
      BY <1>2
    <3> QED BY <3>1
  <2>2. R * (a + 1 + d) = R * a + R + R * d /\ R * d \in Nat
    OBVIOUS
  <2> QED BY <1>1, <2>1, <2>2
<1> QED BY <1>1, <1>2

(* Quotient and remainder.                                                  *)
LEMMA Division ==
    ASSUME NEW R \in Nat \ {0}, NEW x \in Int
    PROVE  x \div R \in Int /\ x % R \in 0 .. R - 1 /\ x = R * (x \div R) + (x % R)
<1>1. x \div R \in Int /\ x % R \in 0 .. R - 1
  OBVIOUS
<1>2. x = R * (x \div R) + (x % R)
  OBVIOUS
<1> QED BY <1>1, <1>2

(* They are unique.                                                         *)
LEMMA DivisionUnique ==
    ASSUME NEW R \in Nat \ {0}, NEW q \in Int, NEW m \in 0 .. R - 1, NEW x \in Int, x = R * q + m
    PROVE  x \div R = q /\ x % R = m
<1>1. PICK u : u = x \div R
  OBVIOUS
<1>2. PICK v : v = x % R
  OBVIOUS
<1>3. u \in Int /\ v \in 0 .. R - 1 /\ R * q + m = R * u + v
  BY <1>1, <1>2, Division
<1>4. /\ R * q \in Int /\ R * u \in Int
      /\ q < u => R * q + R <= R * u
      /\ u < q => R * u + R <= R * q
  BY <1>3, Multiples
<1>5. u = q
  BY <1>3, <1>4
<1> QED BY <1>1, <1>2, <1>3, <1>4, <1>5

(* The same, for a product that the provers would take apart.               *)
Split(x, R, q, m) == q \in Int /\ m \in 0 .. R - 1 /\ x = R * q + m
LEMMA SplitUnique ==
    ASSUME NEW R \in Nat \ {0}, NEW q, NEW m, NEW x \in Int, Split(x, R, q, m)
    PROVE  x \div R = q /\ x % R = m
BY DivisionUnique DEF Split

(* ModuloDiff counts the sectors that pass before the wanted one.           *)
LEMMA ModuloDiffFacts ==
    ASSUME NEW s \in Int, NEW q \in Int
    PROVE  /\ ModuloDiff(s, q) \in 0 .. SectorsPerTrack - 1
           /\ (q + ModuloDiff(s, q)) % SectorsPerTrack = s % SectorsPerTrack
           /\ \A j \in 0 .. ModuloDiff(s, q) - 1 : (q + j) % SectorsPerTrack # s % SectorsPerTrack
<1>0. SectorsPerTrack \in Nat \ {0}
  BY Constants
<1>1. PICK N \in Nat \ {0} : N = SectorsPerTrack
  BY <1>0
<1>2. PICK a \in 0 .. N - 1 : a = s % N
  BY Division
<1>3. PICK c \in 0 .. N - 1, u \in Int : c = q % N /\ q = N * u + c
  BY Division
<1>4. PICK M : M = (a - c + N) % N
  OBVIOUS
<1>5. ModuloDiff(s, q) = M
  BY <1>1, <1>2, <1>3, <1>4 DEF ModuloDiff
<1>6. N * u \in Int /\ N * (u + 1) = N * u + N /\ N * 0 = 0 /\ N * 1 = N /\ u + 1 \in Int
  BY Multiples
<1>7. CASE a >= c
  <2>1. M = a - c
    <3>1. a - c \in 0 .. N - 1 /\ a - c + N \in Int /\ Split(a - c + N, N, 1, a - c)
      BY <1>6, <1>7 DEF Split
    <3> QED BY <3>1, <1>4, SplitUnique
  <2>2. (q + M) % N = a
    <3>1. PICK x \in Int : x = q + M /\ Split(x, N, u, a)
      BY <1>3, <1>6, <2>1 DEF Split
    <3>2. x % N = a
      BY <3>1, SplitUnique
    <3> QED BY <3>1, <3>2
  <2>3. ASSUME NEW j \in 0 .. M - 1 PROVE (q + j) % N # a
    <3>1. PICK m \in 0 .. N - 1 : m = c + j /\ m # a
      BY <1>7, <2>1
    <3>2. PICK x \in Int : x = q + j /\ Split(x, N, u, m)
      BY <1>3, <1>6, <2>1, <3>1 DEF Split
    <3>3. x % N = m
      BY <3>2, SplitUnique
    <3> QED BY <3>1, <3>2, <3>3
  <2>4. M \in 0 .. N - 1
    BY <1>7, <2>1
  <2> QED BY <1>1, <1>2, <1>5, <2>2, <2>3, <2>4
<1>8. CASE a < c
  <2>1. M = a - c + N /\ M \in 0 .. N - 1
    <3>1. PICK m \in 0 .. N - 1 : m = a - c + N /\ Split(m, N, 0, m)
      BY <1>6, <1>8 DEF Split
    <3>2. m % N = m
      BY <3>1, SplitUnique
    <3> QED BY <3>1, <3>2, <1>4
  <2>2. (q + M) % N = a
    <3>1. PICK x \in Int : x = q + M /\ Split(x, N, u + 1, a)
      BY <1>3, <1>6, <2>1 DEF Split
    <3>2. x % N = a
      BY <3>1, SplitUnique
    <3> QED BY <3>1, <3>2
  <2>3. ASSUME NEW j \in 0 .. M - 1 PROVE (q + j) % N # a
    <3>1. CASE c + j < N
      <4>1. PICK m \in 0 .. N - 1 : m = c + j /\ m # a
        BY <1>8, <2>1, <3>1
      <4>2. PICK x \in Int : x = q + j /\ Split(x, N, u, m)
        BY <1>3, <1>6, <2>1, <4>1 DEF Split
      <4>3. x % N = m
        BY <4>2, SplitUnique
      <4> QED BY <4>1, <4>2, <4>3
    <3>2. CASE c + j >= N
      <4>1. PICK m \in 0 .. N - 1 : m = c + j - N /\ m # a
        BY <1>8, <2>1, <3>2
      <4>2. PICK x \in Int : x = q + j /\ Split(x, N, u + 1, m)
        BY <1>3, <1>6, <2>1, <4>1 DEF Split
      <4>3. x % N = m
        BY <4>2, SplitUnique
      <4> QED BY <4>1, <4>2, <4>3
    <3>3. c + j \in Int
      BY <2>1
    <3> QED BY <3>1, <3>2, <3>3
  <2> QED BY <1>1, <1>2, <1>5, <2>1, <2>2, <2>3
<1> QED BY <1>7, <1>8

(* What the disk is asked for, and the sector that the head arrives in.     *)
LEMMA Arrival ==
    ASSUME TypeOK, NEW s \in Sectors
    PROVE  /\ Seek(s) \in Nat /\ Rotation(s) \in 0 .. RotationTime - 1
           /\ \E q \in Int : clock + Seek(s) + Rotation(s) = RotationTime * q
<1>1. /\ RotationTime \in Nat \ {0} /\ SeekTime \in Nat \ {0} /\ SectorsPerTrack \in Nat \ {0}
      /\ Revolution \in Nat \ {0}
  BY Constants
<1>2. Seek(s) \in Nat
  <2>1. s \in Nat /\ lastSector \in Nat
    BY Constants DEF TypeOK, DeviceType
  <2>2. Track(s) \in Int /\ Track(lastSector) \in Int
    BY <1>1, <2>1, Division DEF Track
  <2>3. PICK d \in Nat : d = IF Track(s) > Track(lastSector) THEN Track(s) - Track(lastSector)
                                                            ELSE Track(lastSector) - Track(s)
    BY <2>2
  <2>4. Seek(s) = SeekTime * d
    BY <2>3 DEF Seek
  <2> QED BY <1>1, <2>4
<1>3. clock + Seek(s) \in Int
  BY <1>1, <1>2 DEF TypeOK, KernelType
<1>4. PICK x \in Int, R \in Nat \ {0} : x = clock + Seek(s) /\ R = RotationTime
  BY <1>1, <1>3
<1>5. PICK m \in 0 .. R - 1, k \in Int : m = x % R /\ x = R * k + m
  BY Division
<1>6. PICK Q : Q = (R - m) % R
  OBVIOUS
<1>7. Rotation(s) = Q
  BY <1>4, <1>5, <1>6 DEF Rotation
<1>8. R * k \in Int /\ R * (k + 1) = R * k + R /\ R * 0 = 0 /\ R * 1 = R /\ k + 1 \in Int
  BY Multiples
<1>9. CASE m = 0
  <2>1. Q = 0
    <3>1. 0 \in 0 .. R - 1 /\ R - m \in Int /\ R - m = R * 1 + 0
      BY <1>8, <1>9
    <3> QED BY <3>1, <1>6, DivisionUnique
  <2>2. x + Q = R * k
    BY <1>5, <1>8, <1>9, <2>1
  <2> QED BY <1>2, <1>4, <1>7, <2>1, <2>2
<1>10. CASE m # 0
  <2>1. Q = R - m /\ R - m \in 0 .. R - 1
    <3>1. R - m \in 0 .. R - 1 /\ R - m \in Int /\ R - m = R * 0 + (R - m)
      BY <1>8, <1>10
    <3> QED BY <3>1, <1>6, DivisionUnique
  <2>2. x + Q = R * (k + 1)
    BY <1>5, <1>8, <2>1
  <2> QED BY <1>2, <1>4, <1>7, <1>8, <2>1, <2>2
<1> QED BY <1>9, <1>10

(* The latency without the track buffer: the head passes the sector once.   *)
LEMMA WriteLatency ==
    ASSUME TypeOK, NEW s \in Sectors
    PROVE  /\ Passes(s, clock + Seek(s), clock + ComputeLatency(s, TRUE))
           /\ ~Passes(s, clock + Seek(s), clock + ComputeLatency(s, TRUE) - 1)
           /\ ComputeLatency(s, TRUE) \in Int /\ RotationTime <= ComputeLatency(s, TRUE)
<1>1. /\ RotationTime \in Nat \ {0} /\ SectorsPerTrack \in Nat \ {0} /\ Revolution \in Nat \ {0}
      /\ s \in Int
  BY Constants
<1>2. PICK S \in Nat, Q \in 0 .. RotationTime - 1, q \in Int :
         S = Seek(s) /\ Q = Rotation(s) /\ clock + Seek(s) + Rotation(s) = RotationTime * q
  BY Arrival
<1>3. PICK c \in Int, R \in Nat \ {0} : c = clock /\ R = RotationTime
  BY <1>1 DEF TypeOK, KernelType
<1>4. PICK M \in 0 .. SectorsPerTrack - 1 : M = ModuloDiff(s, q)
  BY <1>1, ModuloDiffFacts
<1>5. (R * q) \div R = q
  <2>1. 0 \in 0 .. R - 1 /\ R * q \in Int /\ R * q = R * q + 0
    BY Multiples
  <2> QED BY <2>1, DivisionUnique
<1>6. PICK w : w = ComputeLatency(s, TRUE)
  OBVIOUS
<1>7. w = S + Q + M * R + R
  BY <1>2, <1>3, <1>4, <1>5, <1>6 DEF ComputeLatency
<1>8. /\ R * q \in Int /\ R * M \in Nat /\ R * (q + M) = R * q + R * M /\ M * R = R * M
      /\ q + M \in Int
  BY <1>1, <1>4, Multiples
<1>9. c + S + Q = R * q
  BY <1>2, <1>3
<1>10. /\ w = S + Q + R * M + R
       /\ w \in Int /\ R <= w
  BY <1>2, <1>3, <1>7, <1>8
<1>11. c + w - R = R * (q + M)
  BY <1>3, <1>8, <1>9, <1>10
<1>12. Passes(s, c + S, c + w)
  <2>1. R * (q + M) \in c + S .. c + w - R
    BY <1>2, <1>3, <1>8, <1>9, <1>11
  <2>2. (R * (q + M)) % R = 0 /\ (R * (q + M)) \div R = q + M
    <3>1. 0 \in 0 .. R - 1 /\ R * (q + M) \in Int /\ R * (q + M) = R * (q + M) + 0
      BY <1>8
    <3> QED BY <3>1, <1>8, DivisionUnique
  <2>3. (q + M) % SectorsPerTrack = s % SectorsPerTrack
    BY <1>1, <1>4, ModuloDiffFacts
  <2>4. \E b \in c + S .. c + w - RotationTime :
            b % RotationTime = 0 /\ (b \div RotationTime) % SectorsPerTrack = s % SectorsPerTrack
    BY <1>3, <2>1, <2>2, <2>3
  <2> QED BY <1>1, <1>3, <1>10, <2>4 DEF Passes
<1>13. PICK y \in Int : y = c + w - 1
  BY <1>10
<1>14. ~Passes(s, c + S, y)
  <2> SUFFICES ASSUME NEW b \in c + S .. y - R, b % R = 0,
                      (b \div R) % SectorsPerTrack = s % SectorsPerTrack
               PROVE  FALSE
    BY <1>1, <1>3 DEF Passes
  <2>1. b \in Int /\ c + S <= b /\ b < R * (q + M)
    BY <1>2, <1>3, <1>10, <1>11, <1>13
  <2>2. PICK p \in Int : p = b \div R /\ b = R * p
    <3>1. b \div R \in Int /\ b = R * (b \div R) + 0
      BY <2>1, Division
    <3>2. R * (b \div R) \in Int
      BY <3>1, Multiples
    <3> QED BY <3>1, <3>2
  <2>3. p < q + M
    <3>1. ~(q + M < p)
      <4>1. q + M < p => R * (q + M) + R <= R * p
        BY <1>8, Multiples
      <4>2. R * (q + M) \in Int
        BY <1>8
      <4> QED BY <4>1, <4>2, <2>1, <2>2
    <3>2. p # q + M
      BY <2>1, <2>2
    <3> QED BY <3>1, <3>2, <1>8
  <2>4. p >= q
    <3>1. p < q => R * p + R <= R * q
      BY Multiples
    <3>2. R * q < R * p + R
      BY <1>2, <1>3, <1>9, <2>1, <2>2
    <3> QED BY <3>1, <3>2, <1>8, <2>1, <2>2
  <2>5. PICK j \in 0 .. M - 1 : q + j = p
    <3>1. p - q \in 0 .. M - 1 /\ q + (p - q) = p
      BY <1>4, <2>3, <2>4
    <3> QED BY <3>1
  <2>6. (q + j) % SectorsPerTrack # s % SectorsPerTrack
    BY <1>1, <1>4, ModuloDiffFacts
  <2> QED BY <2>2, <2>5, <2>6
<1> QED BY <1>2, <1>3, <1>6, <1>10, <1>12, <1>13, <1>14

(* The track buffer is started where a sector starts, until bufferAge says
   nothing more.                                                            *)
Aligned == bufferAge < Revolution => \E q \in Int : clock - bufferAge = RotationTime * q

(* The clock is kept modulo a revolution, a whole number of sectors.        *)
LEMMA AlignedAdvance ==
    ASSUME TypeOK, Aligned, NEW d \in Nat, Advance(d)
    PROVE  Aligned'
<1>1. PICK R \in Nat \ {0}, N \in Nat \ {0}, W \in Nat \ {0} :
         R = RotationTime /\ N = SectorsPerTrack /\ W = Revolution /\ W = R * N
  BY Constants DEF Revolution
<1>2. clock \in Int /\ bufferAge \in Int
  BY <1>1 DEF TypeOK, KernelType
<1> SUFFICES ASSUME bufferAge' < W PROVE \E q \in Int : clock' - bufferAge' = R * q
  BY <1>1 DEF Aligned
<1>3. bufferAge' = bufferAge + d /\ bufferAge < W
  BY <1>1, <1>2 DEF Advance
<1>4. PICK q \in Int : clock - bufferAge = R * q
  BY <1>1, <1>3 DEF Aligned
<1>5. PICK x \in Int : x = clock + d
  BY <1>2
<1>6. PICK j \in Int, m \in 0 .. W - 1 : m = x % W /\ x = W * j + m
  BY Division
<1>7. clock' = m
  BY <1>1, <1>5, <1>6 DEF Advance
<1>8. PICK k \in Int : k = N * j
  BY <1>1
<1>9. W * j = R * k
  BY <1>1, <1>8
<1>10. R * (q - k) = R * q - R * k /\ R * q \in Int /\ R * k \in Int /\ q - k \in Int
  BY Multiples
<1>11. PICK y \in Int, z \in Int : y = R * k /\ z = R * q
  BY <1>10
<1>12. x = y + m /\ clock - bufferAge = z
  BY <1>4, <1>6, <1>9, <1>11
<1>13. clock' - bufferAge' = z - y
  <2>1. clock' \in Int /\ bufferAge' \in Int
    BY <1>2, <1>3, <1>7
  <2> QED BY <2>1, <1>2, <1>3, <1>5, <1>7, <1>12
<1> QED BY <1>10, <1>11, <1>13

(* A new track, and the head is where a sector starts.                      *)
LEMMA AlignedRequest ==
    ASSUME TypeOK, Aligned, NEW t \in Threads, NEW s \in Sectors, NEW writing, DiskRequest(t, s, writing)
    PROVE  Aligned'
<1>1. clock' = clock /\ clock \in Int /\ RotationTime \in Nat /\ Revolution' = Revolution
  BY Constants DEF TypeOK, KernelType, DiskRequest
<1>2. CASE Seek(s) # 0
  <2>1. bufferAge' = -(Seek(s) + Rotation(s))
    BY <1>2 DEF DiskRequest, UpdateLast
  <2>2. PICK q \in Int : clock + Seek(s) + Rotation(s) = RotationTime * q
    BY Arrival
  <2>3. Seek(s) \in Int /\ Rotation(s) \in Int
    BY <1>1, Arrival
  <2>4. clock' - bufferAge' = RotationTime * q
    BY <1>1, <2>1, <2>2, <2>3
  <2> QED BY <2>4 DEF Aligned
<1>3. CASE Seek(s) = 0
  <2>1. bufferAge' = bufferAge
    BY <1>3 DEF DiskRequest, UpdateLast
  <2> QED BY <1>1, <2>1 DEF Aligned
<1> QED BY <1>2, <1>3

(* Time passes, a request is given, or the clock does not notice.           *)
LEMMA ClockMoves ==
    ASSUME TypeOK, [Next]_vars
    PROVE  \/ \E d \in Nat : Advance(d)
           \/ \E t \in Threads, s \in Sectors, writing \in BOOLEAN : DiskRequest(t, s, writing)
           \/ UNCHANGED <<clock, bufferAge>>
<1>1. SystemTick \in Nat /\ UserTick \in Nat
  BY Constants
<1>2. ASSUME NEW d \in Nat, OneTick(d) PROVE \E e \in Nat : Advance(e)
  BY <1>2 DEF OneTick
<1>3. ASSUME Sleep PROVE UNCHANGED <<clock, bufferAge>>
  BY <1>3 DEF Sleep, time
<1>4. CASE \E t \in Threads : Thread(t)
  <2>1. PICK t \in Threads : Thread(t)
    BY <1>4
  <2>2. ASSUME Instruction(t) \/ DiskRelease(t) \/ WriteRelease(t) \/ ReadRelease(t)
        PROVE  \E d \in Nat : Advance(d)
    BY <1>1, <1>2, <2>2 DEF Instruction, DiskRelease, WriteRelease, ReadRelease, Release
  <2>3. ASSUME NEW l, Acquire(t, l)
        PROVE  (\E d \in Nat : Advance(d)) \/ UNCHANGED <<clock, bufferAge>>
    BY <1>1, <1>2, <1>3, <2>3 DEF Acquire
  <2>4. ASSUME NEW s, NEW call, NEW asleep, NEW to, P(t, s, call, asleep, to)
        PROVE  (\E d \in Nat : Advance(d)) \/ UNCHANGED <<clock, bufferAge>>
    <3>1. OneTick(SystemTick) \/ Sleep
      BY <2>4 DEF P
    <3> QED BY <1>1, <1>2, <1>3, <3>1
  <2>5. ASSUME DiskCall(t) \/ WriteLine(t) \/ ReadLine(t)
        PROVE  (\E d \in Nat : Advance(d)) \/ UNCHANGED <<clock, bufferAge>>
    BY <2>3, <2>5 DEF DiskCall, WriteLine, ReadLine
  <2>6. ASSUME DiskWait(t) \/ WriteWait(t) \/ ReadWait(t)
        PROVE  (\E d \in Nat : Advance(d)) \/ UNCHANGED <<clock, bufferAge>>
    <3>1. CASE DiskWait(t)
      BY <2>4, <3>1 DEF DiskWait
    <3>2. CASE WriteWait(t)
      BY <2>4, <3>2 DEF WriteWait
    <3>3. CASE ReadWait(t)
      BY <2>4, <3>3 DEF ReadWait
    <3> QED BY <2>6, <3>1, <3>2, <3>3
  <2>7. ASSUME Finish(t) \/ PutChar(t) \/ GetChar(t) PROVE UNCHANGED <<clock, bufferAge>>
    BY <1>3, <2>7 DEF Finish, PutChar, GetChar, time
  <2> QED BY <2>1, <2>2, <2>5, <2>6, <2>7 DEF Thread
<1>5. ASSUME Loop, NEW type, Due(type) PROVE \E d \in Nat : Advance(d)
  <2>1. Head(pending) \in Entries
    BY <1>5, Taken DEF Due, TypeOK, KernelType
  <2>2. Elapsed \in Nat
    BY <2>1 DEF Elapsed, Entries
  <2> QED BY <1>5, <2>2 DEF Loop
<1>6. CASE \/ \E n \in TimeOfNextInterrupt : TimerExpired(n)
           \/ DiskDone \/ ConsoleWriteDone \/ PollNothing \/ CheckCharAvail
  BY <1>5, <1>6 DEF TimerExpired, DiskDone, ConsoleWriteDone, PollNothing, CheckCharAvail
<1>7. CASE Resume \/ Return \/ IdleHalt \/ IdleReturn
  BY <1>1, <1>2, <1>7 DEF Resume, Return, IdleHalt, IdleReturn, time
<1>8. CASE Yield
  BY <1>1, <1>2, <1>8 DEF Yield, time
<1>9. CASE UNCHANGED vars
  BY <1>9 DEF vars, time
<1> QED BY <1>4, <1>6, <1>7, <1>8, <1>9 DEF Next

(* Every step keeps it.                                                     *)
LEMMA AlignedStep == Inv /\ Aligned /\ [Next]_vars => Aligned'
<1> SUFFICES ASSUME Inv, Aligned, [Next]_vars PROVE Aligned'
  OBVIOUS
<1>1. TypeOK
  BY DEF Inv
<1>2. CASE UNCHANGED <<clock, bufferAge>>
  BY <1>2 DEF Aligned
<1> QED BY <1>1, <1>2, ClockMoves, AlignedAdvance, AlignedRequest

(* What is read from the track buffer has passed since it was started.      *)
LEMMA ReadLatency ==
    ASSUME TypeOK, Aligned, NEW s \in Sectors, ComputeLatency(s, FALSE) # ComputeLatency(s, TRUE)
    PROVE  /\ ComputeLatency(s, FALSE) = RotationTime /\ Seek(s) = 0
           /\ bufferAge < Revolution => Passes(s, clock - bufferAge, clock + Rotation(s))
<1> DEFINE bufferInit == (clock - bufferAge) % Revolution
<1>1. PICK R \in Nat \ {0}, N \in Nat \ {0}, W \in Nat \ {0} :
         R = RotationTime /\ N = SectorsPerTrack /\ W = Revolution /\ W = R * N
  BY Constants DEF Revolution
<1>2. PICK c \in Int, age \in Int : c = clock /\ age = bufferAge
  BY <1>1 DEF TypeOK, KernelType
<1>3. s \in Int
  BY Constants
<1>4. PICK Q \in 0 .. R - 1 : Q = Rotation(s)
  BY <1>1, Arrival
<1>5. PICK i : i = bufferInit
  OBVIOUS
<1>6. /\ Seek(s) = 0 /\ ComputeLatency(s, FALSE) = R
      /\ (Q + age) \div R > ModuloDiff(s, i \div R)
  BY <1>1, <1>2, <1>4, <1>5 DEF ComputeLatency
<1>7. ASSUME age < W PROVE Passes(s, c - age, c + Q)
  <2>1. PICK k \in Int : c - age = R * k
    BY <1>1, <1>2, <1>7 DEF Aligned
  <2>2. PICK u \in Int, n \in 0 .. N - 1 : n = k % N /\ k = N * u + n
    BY Division
  <2>3. i \div R = n
    <3>1. W * u \in Int /\ W * u = R * (N * u) /\ R * n \in Int /\ N * u \in Int
      BY <1>1
    <3>2. PICK v \in Int : v = N * u
      BY <3>1
    <3>3. R * (v + n) = R * v + R * n
      BY Multiples
    <3>4. R * n \in 0 .. W - 1
      <4>1. n < N => R * n + R <= R * N
        BY Multiples
      <4>2. R * n >= 0
        BY Multiples, <3>1
      <4> QED BY <1>1, <3>1, <4>1, <4>2
    <3>5. PICK x \in Int, m \in 0 .. W - 1 : x = c - age /\ m = R * n
      BY <3>4
    <3>6. Split(x, W, u, m)
      BY <2>1, <2>2, <3>1, <3>2, <3>3, <3>5 DEF Split
    <3>7. x % W = m
      BY <3>6, SplitUnique
    <3>8. i = m
      BY <1>1, <1>2, <1>5, <3>5, <3>7
    <3>9. Split(m, R, n, 0)
      BY <3>1, <3>5 DEF Split
    <3> QED BY <3>8, <3>9, SplitUnique
  <2>4. PICK M \in 0 .. N - 1 : M = ModuloDiff(s, n)
    <3>1. n \in Int
      OBVIOUS
    <3>2. ModuloDiff(s, n) \in 0 .. SectorsPerTrack - 1
      BY <3>1, <1>3, ModuloDiffFacts
    <3> QED BY <1>1, <3>2
  <2>5. ModuloDiff(s, n) = ModuloDiff(s, k)
    <3>1. Split(n, N, 0, n)
      BY DEF Split
    <3>2. n % N = k % N
      BY <2>2, <3>1, SplitUnique
    <3> QED BY <1>1, <3>2 DEF ModuloDiff
  <2>6. (k + M) % N = s % N
    BY <1>1, <1>3, <2>4, <2>5, ModuloDiffFacts
  <2>7. PICK z \in Int, h \in Int, r \in 0 .. R - 1 : z = Q + age /\ h = z \div R /\ z = R * h + r
    <3>1. PICK z \in Int : z = Q + age
      OBVIOUS
    <3>2. z \div R \in Int /\ z % R \in 0 .. R - 1 /\ z = R * (z \div R) + (z % R)
      BY Division
    <3>3. PICK h : h = z \div R
      OBVIOUS
    <3>4. PICK r : r = z % R
      OBVIOUS
    <3>5. h \in Int /\ r \in 0 .. R - 1 /\ z = R * h + r
      BY <3>2, <3>3, <3>4
    <3> QED BY <3>1, <3>3, <3>5
  <2>8. h > M
    BY <1>6, <2>3, <2>4, <2>7
  <2>9. /\ R * h \in Int /\ R * M \in Int /\ R * M + R <= R * h
        /\ R * (k + M) = R * k + R * M /\ R * k \in Int /\ R * (k + M) \in Int /\ k + M \in Int
    BY <2>8, Multiples
  <2>10. R * M >= 0
    BY <2>9
  <2>11. R * (k + M) \in c - age .. c + Q - R
    BY <2>1, <2>7, <2>9, <2>10
  <2>12. PICK from \in Int, to \in Int : from = c - age /\ to = c + Q
    OBVIOUS
  <2>13. PICK b \in from .. to - R : b = R * (k + M)
    BY <2>11, <2>12
  <2>14. b \in Int /\ Split(b, R, k + M, 0)
    BY <2>9, <2>12, <2>13 DEF Split
  <2>15. b % R = 0 /\ (b \div R) % N = s % N
    BY <2>6, <2>14, SplitUnique
  <2>16. Passes(s, from, to)
    BY <1>1, <2>15 DEF Passes
  <2> QED BY <2>12, <2>16
<1> QED BY <1>1, <1>2, <1>4, <1>6, <1>7

(* With and without the track buffer.                                       *)
LEMMA LatencyImplied == Inv /\ Aligned => LatencyExact
<1> SUFFICES ASSUME Inv, Aligned, NEW s \in Sectors
             PROVE  /\ Passes(s, clock + Seek(s), clock + ComputeLatency(s, TRUE))
                    /\ ~Passes(s, clock + Seek(s), clock + ComputeLatency(s, TRUE) - 1)
                    /\ ComputeLatency(s, FALSE) # ComputeLatency(s, TRUE) =>
                         /\ ComputeLatency(s, FALSE) = RotationTime
                         /\ ComputeLatency(s, FALSE) <= ComputeLatency(s, TRUE)
                         /\ Seek(s) = 0
                         /\ bufferAge < Revolution => Passes(s, clock - bufferAge, clock + Rotation(s))
  BY Zenon DEF LatencyExact
<1>1. TypeOK
  BY DEF Inv
<1>2. /\ Passes(s, clock + Seek(s), clock + ComputeLatency(s, TRUE))
      /\ ~Passes(s, clock + Seek(s), clock + ComputeLatency(s, TRUE) - 1)
      /\ RotationTime <= ComputeLatency(s, TRUE)
  BY <1>1, WriteLatency
<1>3. ComputeLatency(s, FALSE) # ComputeLatency(s, TRUE) =>
         /\ ComputeLatency(s, FALSE) = RotationTime /\ Seek(s) = 0
         /\ bufferAge < Revolution => Passes(s, clock - bufferAge, clock + Rotation(s))
  BY <1>1, ReadLatency
<1> QED BY <1>2, <1>3

(* The time that the simulated disk takes is exactly the time until the
   sector has passed under the head, for every time of day, sector and size
   of the disk; and the track buffer, if it answers, has read the sector
   since it was started and answers no later (Disk::ComputeLatency).        *)
THEOREM LatencyExactHolds == Spec => []LatencyExact
<1>1. Init => Aligned
  <2> SUFFICES ASSUME Init PROVE Aligned
    OBVIOUS
  <2>1. clock - bufferAge = 0 /\ RotationTime * 0 = 0
    BY Constants DEF Init
  <2> QED BY <2>1 DEF Aligned
<1>2. Inv /\ Aligned /\ [Next]_vars => Aligned'
  BY AlignedStep
<1>3. Inv /\ Aligned => LatencyExact
  BY LatencyImplied
<1> QED BY <1>1, <1>2, <1>3, InvHolds, PTL DEF Spec
=============================================================================
