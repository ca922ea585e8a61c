------------------------- MODULE NachosSynchProofs -------------------------
(***************************************************************************)
(* Proofs about NachosSynch for any number of threads, locks, conditions   *)
(* and semaphores.  The argument rests on one inductive invariant, Inv: a  *)
(* thread is on a list exactly when its status and its place in the kernel *)
(* say so, and a lock's owner is the thread that holds it or that Release  *)
(* has made its owner while it slept.                                      *)
(***************************************************************************)
EXTENDS NachosSynch, FiniteSetTheorems, TLAPS

(* What a thread's place in the kernel says about its status and argument. *)
Places ==
    \A t \in Threads :
        /\ kpc[t] \in {"Acquire", "Wait"} => karg[t] \in Locks
        /\ kpc[t] = "P" => karg[t] \in Semaphores
        /\ kpc[t] = "user" => status[t] = "RUNNING"
        /\ kpc[t] = "yield" => status[t] \in {"READY", "RUNNING"}
        /\ kpc[t] = "start" => status[t] \in {"JUST_CREATED", "READY", "RUNNING"}
        /\ kpc[t] = "finished" => status[t] \in {"BLOCKED", "DELETED"}
        /\ status[t] = "DELETED" => kpc[t] = "finished"
        /\ status[t] = "JUST_CREATED" => kpc[t] = "start"

Doomed == threadToBeDestroyed \in Threads => kpc[threadToBeDestroyed] = "finished"

Sched ==
    /\ Distinct(readyList)
    /\ \A t \in Threads : t \in Elements(readyList) <=> status[t] = "READY"
    /\ \A t \in Threads : status[t] = "RUNNING" <=> currentThread = t

LockQueues ==
    \A l \in Locks :
        /\ Distinct(lockQueue[l])
        /\ \A t \in Threads : t \in Elements(lockQueue[l]) <=>
              (status[t] = "BLOCKED" /\ kpc[t] = "Acquire" /\ karg[t] = l)

SemQueues ==
    \A s \in Semaphores :
        /\ Distinct(semQueue[s])
        /\ \A t \in Threads : t \in Elements(semQueue[s]) <=>
              (status[t] = "BLOCKED" /\ kpc[t] = "P" /\ karg[t] = s)

CondQueues ==
    /\ \A c \in Conditions :
          /\ Distinct(condQueue[c])
          /\ \A t \in Threads : t \in Elements(condQueue[c]) =>
                /\ status[t] = "BLOCKED" /\ kpc[t] = "Wait"
                /\ karg[t] = waitingLock[c]
    /\ \A t \in Threads : status[t] = "BLOCKED" /\ kpc[t] = "Wait" =>
          \E c \in Conditions : t \in Elements(condQueue[c])
    /\ \A c, d \in Conditions : \A t \in Threads :
          t \in Elements(condQueue[c]) /\ t \in Elements(condQueue[d]) => c = d

Ownership ==
    /\ \A l \in Locks : lockState[l] = "FREE" =>
          threadWithPossession[l] = NoThread /\ lockQueue[l] = <<>>
    /\ \A t \in Threads : \A l \in holds[t] : threadWithPossession[l] = t
    /\ \A t \in Threads : kpc[t] = "Acquire" /\ status[t] # "BLOCKED" =>
          threadWithPossession[karg[t]] = t

Inv == /\ TypeOK /\ Places /\ Doomed /\ Sched
       /\ LockQueues /\ SemQueues /\ CondQueues /\ Ownership

-----------------------------------------------------------------------------
(* Facts about lists                                                       *)

(* The empty list has no elements.                                         *)
LEMMA EmptyList ==
    Elements(<<>>) = {} /\ Distinct(<<>>)
BY DEF Elements, Distinct

(* List::Append adds one element, and no duplicate if it is new.           *)
LEMMA AppendFacts ==
    ASSUME NEW S, NEW q \in Seq(S), NEW x \in S
    PROVE  /\ Append(q, x) \in Seq(S)
           /\ Elements(Append(q, x)) = Elements(q) \cup {x}
           /\ Distinct(q) /\ x \notin Elements(q) => Distinct(Append(q, x))
<1>1. /\ Append(q, x) \in Seq(S)
      /\ Len(Append(q, x)) = Len(q) + 1 /\ Len(q) \in Nat
      /\ \A i \in 1..Len(q) : Append(q, x)[i] = q[i]
      /\ Append(q, x)[Len(q) + 1] = x
  OBVIOUS
<1>2. Elements(Append(q, x)) = Elements(q) \cup {x}
  BY <1>1 DEF Elements
<1>3. Distinct(q) /\ x \notin Elements(q) => Distinct(Append(q, x))
  BY <1>1 DEF Elements, Distinct
<1> QED BY <1>1, <1>2, <1>3

(* List::Remove takes the first element off a list without duplicates.     *)
LEMMA TailFacts ==
    ASSUME NEW S, NEW q \in Seq(S), q # <<>>
    PROVE  /\ Head(q) \in S /\ Tail(q) \in Seq(S)
           /\ Head(q) \in Elements(q)
           /\ Distinct(q) => /\ Distinct(Tail(q))
                             /\ Elements(Tail(q)) = Elements(q) \ {Head(q)}
<1>1. /\ Len(q) \in Nat \ {0} /\ Head(q) = q[1] /\ Head(q) \in S
      /\ Tail(q) \in Seq(S) /\ Len(Tail(q)) = Len(q) - 1
      /\ \A i \in 1..(Len(q) - 1) : Tail(q)[i] = q[i + 1]
  OBVIOUS
<1>2. Head(q) \in Elements(q)
  BY <1>1 DEF Elements
<1>3. Distinct(q) => Distinct(Tail(q))
  BY <1>1 DEF Distinct
<1>4. Distinct(q) => Elements(Tail(q)) = Elements(q) \ {Head(q)}
  <2> SUFFICES ASSUME Distinct(q)
               PROVE Elements(Tail(q)) = Elements(q) \ {Head(q)}
    OBVIOUS
  <2>1. ASSUME NEW x \in Elements(Tail(q)) PROVE x \in Elements(q) \ {Head(q)}
    BY <1>1, <2>1 DEF Elements, Distinct
  <2>2. ASSUME NEW x \in Elements(q) \ {Head(q)} PROVE x \in Elements(Tail(q))
    <3>1. PICK i \in 1..Len(q) : x = q[i]
      BY DEF Elements
    <3>2. i # 1 /\ i - 1 \in 1..(Len(q) - 1) /\ (i - 1) + 1 = i
      BY <1>1, <3>1, <2>2
    <3>3. x = Tail(q)[i - 1] /\ i - 1 \in 1..Len(Tail(q))
      BY <1>1, <3>1, <3>2
    <3> QED BY <3>3 DEF Elements
  <2> QED BY <2>1, <2>2
<1> QED BY <1>1, <1>2, <1>3, <1>4

(* Joining two lists that share nothing.                                   *)
LEMMA ConcatFacts ==
    ASSUME NEW S, NEW p \in Seq(S), NEW q \in Seq(S)
    PROVE  /\ p \o q \in Seq(S)
           /\ Elements(p \o q) = Elements(p) \cup Elements(q)
           /\ Distinct(p) /\ Distinct(q) /\ Elements(p) \cap Elements(q) = {}
              => Distinct(p \o q)
<1>1. /\ p \o q \in Seq(S) /\ Len(p) \in Nat /\ Len(q) \in Nat
      /\ Len(p \o q) = Len(p) + Len(q)
      /\ \A i \in 1..(Len(p) + Len(q)) :
            (p \o q)[i] = IF i <= Len(p) THEN p[i] ELSE q[i - Len(p)]
  OBVIOUS
<1>2. ASSUME NEW x \in Elements(p \o q) PROVE x \in Elements(p) \cup Elements(q)
  <2>1. PICK i \in 1..(Len(p) + Len(q)) : x = (p \o q)[i]
    BY <1>1 DEF Elements
  <2>2. CASE i <= Len(p)
    BY <1>1, <2>1, <2>2 DEF Elements
  <2>3. CASE i > Len(p)
    <3>1. x = q[i - Len(p)] /\ i - Len(p) \in 1..Len(q)
      BY <1>1, <2>1, <2>3
    <3> QED BY <3>1 DEF Elements
  <2> QED BY <1>1, <2>1, <2>2, <2>3
<1>3. ASSUME NEW x \in Elements(p) PROVE x \in Elements(p \o q)
  BY <1>1 DEF Elements
<1>4. ASSUME NEW x \in Elements(q) PROVE x \in Elements(p \o q)
  <2>1. PICK i \in 1..Len(q) : x = q[i]
    BY DEF Elements
  <2>2. i + Len(p) \in 1..(Len(p) + Len(q)) /\ ~(i + Len(p) <= Len(p))
        /\ (i + Len(p)) - Len(p) = i
    BY <1>1
  <2>3. x = (p \o q)[i + Len(p)]
    BY <1>1, <2>1, <2>2
  <2> QED BY <1>1, <2>2, <2>3 DEF Elements
<1>5. ASSUME Distinct(p), Distinct(q), Elements(p) \cap Elements(q) = {}
      PROVE Distinct(p \o q)
  <2> SUFFICES ASSUME NEW i \in 1..(Len(p) + Len(q)), NEW j \in 1..(Len(p) + Len(q)),
                      (p \o q)[i] = (p \o q)[j]
               PROVE i = j
    BY <1>1 DEF Distinct
  <2>1. CASE i <= Len(p) /\ j <= Len(p)
    BY <1>1, <1>5, <2>1 DEF Distinct
  <2>2. CASE i > Len(p) /\ j > Len(p)
    <3>1. i - Len(p) \in 1..Len(q) /\ j - Len(p) \in 1..Len(q)
          /\ q[i - Len(p)] = q[j - Len(p)]
      BY <1>1, <2>2
    <3>2. i - Len(p) = j - Len(p)
      BY <1>5, <3>1 DEF Distinct
    <3> QED BY <1>1, <3>2
  <2>3. CASE i <= Len(p) /\ j > Len(p)
    <3>1. p[i] = q[j - Len(p)] /\ j - Len(p) \in 1..Len(q) /\ i \in 1..Len(p)
      BY <1>1, <2>3
    <3> QED BY <1>5, <3>1 DEF Elements
  <2>4. CASE i > Len(p) /\ j <= Len(p)
    <3>1. p[j] = q[i - Len(p)] /\ i - Len(p) \in 1..Len(q) /\ j \in 1..Len(p)
      BY <1>1, <2>4
    <3> QED BY <1>5, <3>1 DEF Elements
  <2> QED BY <1>1, <2>1, <2>2, <2>3, <2>4
<1> QED BY <1>1, <1>2, <1>3, <1>4, <1>5
-----------------------------------------------------------------------------
(* Facts about the scheduler                                               *)

(* st is the status map a routine goes on with after Run() returned: only a
   finished thread's entry may differ from status.                         *)
Cleaned(st) ==
    /\ st \in [Threads -> Statuses]
    /\ \A u \in Threads : st[u] = status[u] \/ (kpc[u] = "finished" /\ st[u] = "DELETED")

(* Deleting the finished thread disturbs nobody else.                      *)
LEMMA ReapedCleans == Inv => Cleaned(Reaped) /\ Cleaned(status)
BY DEF Inv, TypeOK, Doomed, Cleaned, Reaped, Statuses

(* Run() hands the CPU to a ready thread and leaves the others alone.      *)
LEMMA RunFacts ==
    ASSUME NEW rl \in Seq(Threads), NEW st \in [Threads -> Statuses],
           Distinct(rl),
           \A t \in Threads : t \in Elements(rl) <=> st[t] = "READY",
           \A t \in Threads : st[t] # "RUNNING",
           Run(rl, st)
    PROVE  /\ currentThread' \in Threads \cup {NoThread}
           /\ readyList' \in Seq(Threads)
           /\ status' \in [Threads -> Statuses]
           /\ Sched'
           /\ \A t \in Threads :
                 \/ status'[t] = st[t]
                 \/ st[t] = "READY" /\ status'[t] = "RUNNING"
<1>1. CASE rl = <<>>
  BY <1>1, EmptyList, SynchAssumption DEF Run, Sched
<1>2. CASE rl # <<>>
  <2>1. /\ Head(rl) \in Threads /\ Tail(rl) \in Seq(Threads)
        /\ Head(rl) \in Elements(rl) /\ Distinct(Tail(rl))
        /\ Elements(Tail(rl)) = Elements(rl) \ {Head(rl)}
    BY <1>2, TailFacts
  <2>2. /\ currentThread' = Head(rl) /\ readyList' = Tail(rl)
        /\ status' = [st EXCEPT ![Head(rl)] = "RUNNING"]
    BY <1>2 DEF Run
  <2>3. status' \in [Threads -> Statuses]
    BY <2>1, <2>2 DEF Statuses
  <2>4. /\ status'[Head(rl)] = "RUNNING" /\ st[Head(rl)] = "READY"
        /\ \A t \in Threads \ {Head(rl)} : status'[t] = st[t]
    BY <2>1, <2>2
  <2>5. Sched'
    BY <2>1, <2>2, <2>4 DEF Sched
  <2> QED BY <2>1, <2>2, <2>3, <2>4, <2>5
<1> QED BY <1>1, <1>2

(* Sleep() blocks the running thread and dispatches the next one.          *)
LEMMA SleepFacts ==
    ASSUME Inv, NEW t \in Threads, currentThread = t,
           NEW st, Cleaned(st), kpc[t] # "finished",
           NEW p \in KernelPlaces, NEW x \in Objects, Sleep(t, p, x, st)
    PROVE  /\ currentThread' \in Threads \cup {NoThread}
           /\ readyList' \in Seq(Threads)
           /\ status' \in [Threads -> Statuses]
           /\ Sched'
           /\ status'[t] = "BLOCKED"
           /\ \A u \in Threads \ {t} :
                 \/ status'[u] = st[u]
                 \/ st[u] = "READY" /\ status'[u] = "RUNNING"
           /\ kpc' \in [Threads -> KernelPlaces] /\ karg' \in [Threads -> Objects]
           /\ kpc'[t] = p /\ karg'[t] = x
           /\ \A u \in Threads \ {t} : kpc'[u] = kpc[u] /\ karg'[u] = karg[u]
<1> DEFINE bt == [st EXCEPT ![t] = "BLOCKED"]
<1>1. bt \in [Threads -> Statuses] /\ bt[t] = "BLOCKED"
      /\ \A u \in Threads \ {t} : bt[u] = st[u]
  BY DEF Cleaned, Statuses
<1>2. \A u \in Threads : u \in Elements(readyList) <=> bt[u] = "READY"
  BY <1>1 DEF Inv, Sched, Cleaned, Places
<1>3. \A u \in Threads : bt[u] # "RUNNING"
  BY <1>1 DEF Inv, Sched, Cleaned
<1>4. Run(readyList, bt) /\ readyList \in Seq(Threads) /\ Distinct(readyList)
  BY DEF Sleep, Inv, TypeOK, Sched
<1>5. /\ currentThread' \in Threads \cup {NoThread}
      /\ readyList' \in Seq(Threads)
      /\ status' \in [Threads -> Statuses]
      /\ Sched'
      /\ \A u \in Threads :
            \/ status'[u] = bt[u]
            \/ bt[u] = "READY" /\ status'[u] = "RUNNING"
  <2> HIDE DEF bt
  <2> QED BY <1>1, <1>2, <1>3, <1>4, RunFacts
<1>6. /\ kpc' \in [Threads -> KernelPlaces] /\ karg' \in [Threads -> Objects]
      /\ kpc'[t] = p /\ karg'[t] = x
      /\ \A u \in Threads \ {t} : kpc'[u] = kpc[u] /\ karg'[u] = karg[u]
  BY DEF Sleep, Inv, TypeOK
<1> QED BY <1>1, <1>5, <1>6

(* Return() leaves the caller running its program.                         *)
LEMMA ReturnFacts ==
    ASSUME Inv, NEW t \in Threads, currentThread = t,
           NEW st, Cleaned(st), kpc[t] # "finished", Return(t, st)
    PROVE  /\ currentThread' = t
           /\ readyList' \in Seq(Threads)
           /\ status' \in [Threads -> Statuses]
           /\ Sched'
           /\ status'[t] = "RUNNING"
           /\ \A u \in Threads : status'[u] = st[u]
           /\ kpc' \in [Threads -> KernelPlaces] /\ karg' \in [Threads -> Objects]
           /\ kpc'[t] = "user"
           /\ \A u \in Threads \ {t} : kpc'[u] = kpc[u] /\ karg'[u] = karg[u]
<1>1. /\ kpc' \in [Threads -> KernelPlaces] /\ karg' \in [Threads -> Objects]
      /\ kpc'[t] = "user"
      /\ \A u \in Threads \ {t} : kpc'[u] = kpc[u] /\ karg'[u] = karg[u]
  BY DEF Return, Inv, TypeOK, KernelPlaces, Objects
<1>2. /\ currentThread' = t /\ readyList' = readyList /\ status' = st
      /\ readyList \in Seq(Threads)
  BY DEF Return, Inv, TypeOK
<1>3. \A u \in Threads : st[u] = "READY" <=> status[u] = "READY"
  BY DEF Cleaned, Inv, Places
<1>4. \A u \in Threads : st[u] = "RUNNING" <=> status[u] = "RUNNING"
  BY DEF Cleaned, Inv, Places
<1>5. Sched'
  BY <1>2, <1>3, <1>4 DEF Inv, Sched
<1>6. status'[t] = "RUNNING"
  BY <1>2, <1>4 DEF Inv, Sched
<1> QED BY <1>1, <1>2, <1>5, <1>6 DEF Cleaned
-----------------------------------------------------------------------------
(* One lemma per group of actions                                          *)

(* An action that leaves locks, conditions and semaphores alone, blocks
   nobody but a finishing thread and puts no thread in a sleeping routine
   keeps the waiting lists correct.                                        *)
LEMMA QuietStep ==
    ASSUME Inv, UNCHANGED <<lockVars, condVars, semVars>>,
           \A u \in Threads : /\ kpc'[u] \in {"P", "Acquire", "Wait"} =>
                                    kpc'[u] = kpc[u] /\ karg'[u] = karg[u]
                              /\ kpc[u] \in {"P", "Acquire", "Wait"} =>
                                    /\ kpc'[u] = kpc[u] /\ karg'[u] = karg[u]
                                    /\ status'[u] = "BLOCKED" <=> status[u] = "BLOCKED"
    PROVE  LockQueues' /\ SemQueues' /\ CondQueues' /\ Ownership'
<1>1. LockQueues'
  BY DEF Inv, LockQueues, lockVars
<1>2. SemQueues'
  BY DEF Inv, SemQueues, semVars
<1>3. CondQueues'
  BY DEF Inv, CondQueues, condVars
<1>4. Ownership'
  BY DEF Inv, Ownership, lockVars
<1> QED BY <1>1, <1>2, <1>3, <1>4

(* Fork() and ThreadRoot.                                                  *)
LEMMA ForkStep == ASSUME Inv, NEW t \in Threads, NEW u \in Threads, Fork(t, u) PROVE Inv'
<1>1. /\ status[u] = "JUST_CREATED" /\ kpc[u] = "start"
      /\ readyList' = Append(readyList, u)
      /\ status' \in [Threads -> Statuses] /\ status'[u] = "READY"
      /\ \A v \in Threads \ {u} : status'[v] = status[v]
      /\ UNCHANGED <<currentThread, kpc, karg, threadToBeDestroyed>>
      /\ UNCHANGED <<lockVars, condVars, semVars>>
  BY DEF Inv, TypeOK, Places, Fork, Statuses
<1>2. /\ readyList' \in Seq(Threads) /\ Elements(readyList') = Elements(readyList) \cup {u}
      /\ Distinct(readyList')
  BY <1>1, AppendFacts DEF Inv, TypeOK, Sched
<1>3. LockQueues' /\ SemQueues' /\ CondQueues' /\ Ownership'
  BY <1>1, QuietStep
<1>4. TypeOK'
  BY <1>1, <1>2 DEF Inv, TypeOK, lockVars, condVars, semVars
<1>5. Places' /\ Doomed'
  BY <1>1 DEF Inv, Places, Doomed
<1>6. Sched'
  BY <1>1, <1>2 DEF Inv, Sched
<1> QED BY <1>3, <1>4, <1>5, <1>6 DEF Inv

(* Finish().                                                               *)
LEMMA FinishStep == ASSUME Inv, NEW t \in Threads, Finish(t) PROVE Inv'
<1>1. currentThread = t /\ kpc[t] = "user" /\ Cleaned(status)
      /\ "finished" \in KernelPlaces /\ NoLock \in Objects
  BY ReapedCleans DEF Finish, InUser, KernelPlaces, Objects
<1>2. /\ currentThread' \in Threads \cup {NoThread}
      /\ readyList' \in Seq(Threads)
      /\ status' \in [Threads -> Statuses]
      /\ Sched'
      /\ status'[t] = "BLOCKED"
      /\ \A u \in Threads \ {t} :
            \/ status'[u] = status[u]
            \/ status[u] = "READY" /\ status'[u] = "RUNNING"
      /\ kpc' \in [Threads -> KernelPlaces] /\ karg' \in [Threads -> Objects]
      /\ kpc'[t] = "finished"
      /\ \A u \in Threads \ {t} : kpc'[u] = kpc[u] /\ karg'[u] = karg[u]
  BY <1>1, SleepFacts DEF Finish
<1>3. threadToBeDestroyed' = t /\ UNCHANGED <<lockVars, condVars, semVars>>
  BY DEF Finish
<1>4. LockQueues' /\ SemQueues' /\ CondQueues' /\ Ownership'
  BY <1>1, <1>2, <1>3, QuietStep
<1>5. TypeOK'
  BY <1>2, <1>3 DEF Inv, TypeOK, lockVars, condVars, semVars
<1>6. Places' /\ Doomed'
  BY <1>2, <1>3 DEF Inv, Places, Doomed
<1> QED BY <1>2, <1>4, <1>5, <1>6 DEF Inv

(* Yield().                                                                *)
LEMMA YieldStep == ASSUME Inv, NEW t \in Threads, Yield(t) PROVE Inv'
<1> DEFINE rl == Append(readyList, t)
           st == [status EXCEPT ![t] = "READY"]
<1>1. currentThread = t /\ kpc[t] = "user" /\ status[t] = "RUNNING"
  BY DEF Yield, InUser, Inv, Places
<1>2. rl \in Seq(Threads) /\ Elements(rl) = Elements(readyList) \cup {t} /\ Distinct(rl)
  BY <1>1, AppendFacts DEF Inv, TypeOK, Sched
<1>3. st \in [Threads -> Statuses] /\ st[t] = "READY"
      /\ \A u \in Threads \ {t} : st[u] = status[u]
  BY DEF Inv, TypeOK, Statuses
<1>4. /\ \A u \in Threads : u \in Elements(rl) <=> st[u] = "READY"
      /\ \A u \in Threads : st[u] # "RUNNING"
  BY <1>1, <1>2, <1>3 DEF Inv, Sched
<1>5. Run(rl, st)
  BY DEF Yield
<1>6. /\ currentThread' \in Threads \cup {NoThread}
      /\ readyList' \in Seq(Threads)
      /\ status' \in [Threads -> Statuses]
      /\ Sched'
      /\ \A u \in Threads :
            \/ status'[u] = st[u]
            \/ st[u] = "READY" /\ status'[u] = "RUNNING"
  <2> HIDE DEF rl, st
  <2> QED BY <1>2, <1>3, <1>4, <1>5, RunFacts
<1> HIDE DEF rl, st
<1>7. /\ kpc' \in [Threads -> KernelPlaces] /\ kpc'[t] = "yield"
      /\ \A u \in Threads \ {t} : kpc'[u] = kpc[u]
      /\ UNCHANGED <<karg, threadToBeDestroyed, lockVars, condVars, semVars>>
  BY DEF Yield, Inv, TypeOK, KernelPlaces
<1>8. LockQueues' /\ SemQueues' /\ CondQueues' /\ Ownership'
  BY <1>1, <1>3, <1>6, <1>7, QuietStep
<1>9. TypeOK'
  BY <1>6, <1>7 DEF Inv, TypeOK, lockVars, condVars, semVars
<1>10. Places' /\ Doomed'
  BY <1>1, <1>3, <1>6, <1>7 DEF Inv, Places, Doomed
<1> QED BY <1>6, <1>8, <1>9, <1>10 DEF Inv

(* ThreadRoot and the return from Yield().                                 *)
LEMMA ReturnStep ==
    ASSUME Inv, NEW t \in Threads, currentThread = t, kpc[t] \in {"start", "yield"},
           NEW st, Cleaned(st), Return(t, st),
           threadToBeDestroyed' \in {threadToBeDestroyed, NoThread},
           UNCHANGED <<lockVars, condVars, semVars>>
    PROVE  Inv'
<1>1. /\ currentThread' = t
      /\ readyList' \in Seq(Threads)
      /\ status' \in [Threads -> Statuses]
      /\ Sched'
      /\ status'[t] = "RUNNING"
      /\ \A u \in Threads : status'[u] = st[u]
      /\ kpc' \in [Threads -> KernelPlaces] /\ karg' \in [Threads -> Objects]
      /\ kpc'[t] = "user"
      /\ \A u \in Threads \ {t} : kpc'[u] = kpc[u] /\ karg'[u] = karg[u]
  BY ReturnFacts
<1>2. LockQueues' /\ SemQueues' /\ CondQueues' /\ Ownership'
  BY <1>1, QuietStep DEF Cleaned
<1>3. TypeOK'
  BY <1>1 DEF Inv, TypeOK, lockVars, condVars, semVars
<1>4. Places'
  BY <1>1 DEF Inv, Places, Cleaned
<1>5. Doomed'
  BY <1>1, SynchAssumption DEF Inv, Doomed
<1> QED BY <1>1, <1>2, <1>3, <1>4, <1>5 DEF Inv

(* The idle loop of Sleep().                                               *)
LEMMA IdleStep == ASSUME Inv, IdleDispatch PROVE Inv'
<1>1. /\ currentThread = NoThread /\ Run(readyList, status)
      /\ UNCHANGED <<kpc, karg, threadToBeDestroyed, lockVars, condVars, semVars>>
      /\ readyList \in Seq(Threads) /\ status \in [Threads -> Statuses]
      /\ Distinct(readyList)
      /\ \A t \in Threads : t \in Elements(readyList) <=> status[t] = "READY"
      /\ \A t \in Threads : status[t] # "RUNNING"
  BY SynchAssumption DEF IdleDispatch, Inv, TypeOK, Sched
<1>2. /\ currentThread' \in Threads \cup {NoThread}
      /\ readyList' \in Seq(Threads)
      /\ status' \in [Threads -> Statuses]
      /\ Sched'
      /\ \A t \in Threads :
            \/ status'[t] = status[t]
            \/ status[t] = "READY" /\ status'[t] = "RUNNING"
  BY <1>1, RunFacts
<1>3. LockQueues' /\ SemQueues' /\ CondQueues' /\ Ownership'
  BY <1>1, <1>2, QuietStep
<1>4. TypeOK'
  BY <1>1, <1>2 DEF Inv, TypeOK, lockVars, condVars, semVars
<1>5. Places' /\ Doomed'
  BY <1>1, <1>2 DEF Inv, Places, Doomed
<1> QED BY <1>2, <1>3, <1>4, <1>5 DEF Inv
(* P(), called or resumed.                                                 *)
LEMMA PStep ==
    ASSUME Inv, NEW t \in Threads, NEW s \in Semaphores, currentThread = t,
           kpc[t] \in {"user", "P"}, NEW st, Cleaned(st), PBody(t, s, st),
           threadToBeDestroyed' \in {threadToBeDestroyed, NoThread}
    PROVE  Inv'
<1>1. UNCHANGED <<lockVars, condVars>> /\ status[t] = "RUNNING"
  BY DEF PBody, Inv, Sched
<1>2. CASE /\ value[s] = 0
           /\ semQueue' = [semQueue EXCEPT ![s] = Append(@, t)]
           /\ Sleep(t, "P", s, st)
           /\ UNCHANGED value
  <2>1. /\ currentThread' \in Threads \cup {NoThread}
        /\ readyList' \in Seq(Threads)
        /\ status' \in [Threads -> Statuses]
        /\ Sched'
        /\ status'[t] = "BLOCKED"
        /\ \A u \in Threads \ {t} :
              \/ status'[u] = st[u]
              \/ st[u] = "READY" /\ status'[u] = "RUNNING"
        /\ kpc' \in [Threads -> KernelPlaces] /\ karg' \in [Threads -> Objects]
        /\ kpc'[t] = "P" /\ karg'[t] = s
        /\ \A u \in Threads \ {t} : kpc'[u] = kpc[u] /\ karg'[u] = karg[u]
    BY <1>2, SleepFacts DEF KernelPlaces, Objects
  <2>2. /\ semQueue[s] \in Seq(Threads) /\ semQueue \in [Semaphores -> Seq(Threads)]
        /\ t \notin Elements(semQueue[s]) /\ Distinct(semQueue[s])
    BY <1>1 DEF Inv, TypeOK, SemQueues
  <2>3. /\ Append(semQueue[s], t) \in Seq(Threads)
        /\ Elements(Append(semQueue[s], t)) = Elements(semQueue[s]) \cup {t}
        /\ Distinct(Append(semQueue[s], t))
    BY <2>2, AppendFacts
  <2>4. /\ semQueue' \in [Semaphores -> Seq(Threads)]
        /\ semQueue'[s] = Append(semQueue[s], t)
        /\ \A r \in Semaphores \ {s} : semQueue'[r] = semQueue[r]
    BY <1>2, <2>2, <2>3
  <2>5. TypeOK'
    BY <1>1, <1>2, <2>1, <2>4 DEF Inv, TypeOK, lockVars, condVars
  <2>6. Places' /\ Doomed'
    <3>1. Places'
      BY <2>1 DEF Inv, Places, Cleaned
    <3>2. Doomed'
      BY <2>1, SynchAssumption DEF Inv, Doomed
    <3> QED BY <3>1, <3>2
  <2>7. SemQueues'
    <3>1. \A u \in Threads \ {t} : kpc[u] = "P" =>
             (status'[u] = "BLOCKED" <=> status[u] = "BLOCKED")
      BY <2>1 DEF Cleaned
    <3>2. ASSUME NEW r \in Semaphores PROVE Distinct(semQueue'[r])
      BY <2>3, <2>4, <3>2 DEF Inv, SemQueues
    <3>3. ASSUME NEW u \in Threads, NEW r \in Semaphores
          PROVE  u \in Elements(semQueue'[r]) <=>
                    (status'[u] = "BLOCKED" /\ kpc'[u] = "P" /\ karg'[u] = r)
      <4>1. u \in Elements(semQueue[r]) <=>
               (status[u] = "BLOCKED" /\ kpc[u] = "P" /\ karg[u] = r)
        BY DEF Inv, SemQueues
      <4>2. CASE r = s
        BY <1>1, <2>1, <2>3, <2>4, <3>1, <4>1, <4>2
      <4>3. CASE r # s
        <5>1. semQueue'[r] = semQueue[r]
          BY <2>4, <4>3
        <5> QED BY <1>1, <2>1, <2>3, <2>4, <3>1, <4>1, <4>3, <5>1
      <4> QED BY <4>2, <4>3
    <3> QED BY <3>2, <3>3 DEF SemQueues
  <2>8. LockQueues'
    BY <1>1, <2>1 DEF Inv, LockQueues, Cleaned, lockVars
  <2>9. CondQueues'
    BY <1>1, <2>1 DEF Inv, CondQueues, Cleaned, condVars
  <2>10. Ownership'
    BY <1>1, <2>1 DEF Inv, Ownership, Cleaned, lockVars
  <2> QED BY <2>1, <2>5, <2>6, <2>7, <2>8, <2>9, <2>10 DEF Inv
<1>3. CASE /\ value[s] > 0
           /\ value' = [value EXCEPT ![s] = @ - 1]
           /\ Return(t, st)
           /\ UNCHANGED semQueue
  <2>1. /\ currentThread' = t
        /\ readyList' \in Seq(Threads)
        /\ status' \in [Threads -> Statuses]
        /\ Sched'
        /\ status'[t] = "RUNNING"
        /\ \A u \in Threads : status'[u] = st[u]
        /\ kpc' \in [Threads -> KernelPlaces] /\ karg' \in [Threads -> Objects]
        /\ kpc'[t] = "user"
        /\ \A u \in Threads \ {t} : kpc'[u] = kpc[u] /\ karg'[u] = karg[u]
    BY <1>3, ReturnFacts
  <2>2. value' \in [Semaphores -> Nat]
    BY <1>3 DEF Inv, TypeOK
  <2>3. TypeOK'
    BY <1>1, <1>3, <2>1, <2>2 DEF Inv, TypeOK, lockVars, condVars
  <2>4. Places' /\ Doomed'
    BY <2>1, SynchAssumption DEF Inv, Places, Doomed, Cleaned
  <2>5. SemQueues'
    BY <1>1, <1>3, <2>1 DEF Inv, SemQueues, Cleaned
  <2>6. LockQueues'
    BY <1>1, <2>1 DEF Inv, LockQueues, Cleaned, lockVars
  <2>7. CondQueues'
    <3>1. UNCHANGED <<waitingLock, condQueue>>
      BY <1>1 DEF condVars
    <3>2. \A u \in Threads \ {t} : kpc[u] = "Wait" =>
             (status'[u] = "BLOCKED" <=> status[u] = "BLOCKED")
      BY <2>1 DEF Cleaned
    <3>3. \A c \in Conditions : t \notin Elements(condQueue[c])
      BY <1>1 DEF Inv, CondQueues
    <3>4. \A c \in Conditions :
             /\ Distinct(condQueue'[c])
             /\ \A u \in Threads : u \in Elements(condQueue'[c]) =>
                   /\ status'[u] = "BLOCKED" /\ kpc'[u] = "Wait"
                   /\ karg'[u] = waitingLock'[c]
      BY <2>1, <3>1, <3>2, <3>3 DEF Inv, CondQueues
    <3>5. \A u \in Threads : status'[u] = "BLOCKED" /\ kpc'[u] = "Wait" =>
             \E c \in Conditions : u \in Elements(condQueue'[c])
      BY <2>1, <3>1, <3>2 DEF Inv, CondQueues
    <3> QED BY <3>1, <3>4, <3>5 DEF Inv, CondQueues
  <2>8. Ownership'
    BY <1>1, <2>1 DEF Inv, Ownership, Cleaned, lockVars
  <2> QED BY <2>1, <2>3, <2>4, <2>5, <2>6, <2>7, <2>8 DEF Inv
<1> QED BY <1>2, <1>3 DEF PBody

(* Waking sleeping thread w: it is added to the ready list.                *)
LEMMA WakeFacts ==
    ASSUME Inv, NEW w \in Threads, status[w] = "BLOCKED", kpc[w] # "finished"
    PROVE  /\ Append(readyList, w) \in Seq(Threads)
           /\ Elements(Append(readyList, w)) = Elements(readyList) \cup {w}
           /\ Distinct(Append(readyList, w))
           /\ [status EXCEPT ![w] = "READY"] \in [Threads -> Statuses]
           /\ [status EXCEPT ![w] = "READY"][w] = "READY"
           /\ \A u \in Threads \ {w} : [status EXCEPT ![w] = "READY"][u] = status[u]
           /\ currentThread # w
BY AppendFacts DEF Inv, TypeOK, Sched, Statuses

(* V(), called by a program or by an interrupt handler.                    *)
LEMMA VStep == ASSUME Inv, NEW s \in Semaphores, VBody(s) PROVE Inv'
<1>1. /\ UNCHANGED <<currentThread, kpc, karg, threadToBeDestroyed, lockVars, condVars>>
      /\ value' \in [Semaphores -> Nat]
  BY DEF VBody, Inv, TypeOK
<1>2. CASE /\ semQueue[s] # <<>>
           /\ semQueue' = [semQueue EXCEPT ![s] = Tail(@)]
           /\ readyList' = Append(readyList, Head(semQueue[s]))
           /\ status' = [status EXCEPT ![Head(semQueue[s])] = "READY"]
  <2> DEFINE w == Head(semQueue[s])
  <2>1. /\ w \in Threads /\ w \in Elements(semQueue[s])
        /\ Tail(semQueue[s]) \in Seq(Threads) /\ Distinct(Tail(semQueue[s]))
        /\ Elements(Tail(semQueue[s])) = Elements(semQueue[s]) \ {w}
    BY <1>2, TailFacts DEF Inv, TypeOK, SemQueues
  <2>2. status[w] = "BLOCKED" /\ kpc[w] = "P" /\ karg[w] = s
    BY <2>1 DEF Inv, SemQueues
  <2>3. /\ readyList' = Append(readyList, w)
        /\ status' = [status EXCEPT ![w] = "READY"]
        /\ semQueue' \in [Semaphores -> Seq(Threads)]
        /\ semQueue'[s] = Tail(semQueue[s])
        /\ \A r \in Semaphores \ {s} : semQueue'[r] = semQueue[r]
    BY <1>2, <2>1 DEF Inv, TypeOK
  <2> HIDE DEF w
  <2>4. /\ readyList' \in Seq(Threads)
        /\ Elements(readyList') = Elements(readyList) \cup {w}
        /\ Distinct(readyList')
        /\ status' \in [Threads -> Statuses] /\ status'[w] = "READY"
        /\ \A u \in Threads \ {w} : status'[u] = status[u]
        /\ currentThread # w
    BY <2>1, <2>2, <2>3, WakeFacts
  <2>5. TypeOK'
    BY <1>1, <2>3, <2>4 DEF Inv, TypeOK, lockVars, condVars
  <2>6. Places' /\ Doomed'
    BY <1>1, <2>2, <2>4 DEF Inv, Places, Doomed
  <2>7. Sched'
    BY <1>1, <2>1, <2>4 DEF Inv, Sched
  <2>8. SemQueues'
    <3>1. ASSUME NEW r \in Semaphores PROVE Distinct(semQueue'[r])
      <4>1. CASE r = s
        BY <2>1, <2>3, <4>1
      <4>2. CASE r # s
        <5>1. semQueue'[r] = semQueue[r]
          BY <2>3, <4>2
        <5> QED BY <5>1 DEF Inv, SemQueues
      <4> QED BY <4>1, <4>2
    <3>2. ASSUME NEW u \in Threads, NEW r \in Semaphores
          PROVE  u \in Elements(semQueue'[r]) <=>
                    (status'[u] = "BLOCKED" /\ kpc'[u] = "P" /\ karg'[u] = r)
      <4>1. u \in Elements(semQueue[r]) <=>
               (status[u] = "BLOCKED" /\ kpc[u] = "P" /\ karg[u] = r)
        BY DEF Inv, SemQueues
      <4>2. CASE r = s
        BY <1>1, <2>1, <2>2, <2>3, <2>4, <4>1, <4>2
      <4>3. CASE r # s
        <5>1. semQueue'[r] = semQueue[r]
          BY <2>3, <4>3
        <5> QED BY <1>1, <2>1, <2>2, <2>3, <2>4, <4>1, <4>3, <5>1
      <4> QED BY <4>2, <4>3
    <3> QED BY <3>1, <3>2 DEF SemQueues
  <2>9. LockQueues'
    BY <1>1, <2>2, <2>4 DEF Inv, LockQueues, lockVars
  <2>10. CondQueues'
    BY <1>1, <2>2, <2>4 DEF Inv, CondQueues, condVars
  <2>11. Ownership'
    BY <1>1, <2>2, <2>4 DEF Inv, Ownership, lockVars
  <2> QED BY <2>5, <2>6, <2>7, <2>8, <2>9, <2>10, <2>11 DEF Inv
<1>3. CASE UNCHANGED <<semQueue, readyList, status>>
  BY <1>1, <1>3 DEF Inv, TypeOK, Places, Doomed, Sched, SemQueues, LockQueues,
                    CondQueues, Ownership, lockVars, condVars
<1> QED BY <1>2, <1>3 DEF VBody

(* Acquire(), called by the program or at the end of Wait().               *)
LEMMA AcquireStep ==
    ASSUME Inv, NEW t \in Threads, NEW l \in Locks, currentThread = t,
           kpc[t] \in {"user", "Wait"}, NEW st, Cleaned(st), AcquireBody(t, l, st),
           threadToBeDestroyed' \in {threadToBeDestroyed, NoThread},
           UNCHANGED <<condVars, semVars>>
    PROVE  Inv'
<1>1. status[t] = "RUNNING" /\ t # NoThread
  BY SynchAssumption DEF Inv, Sched
<1>2. CASE Return(t, st)
  <2>1. /\ currentThread' = t
        /\ readyList' \in Seq(Threads)
        /\ status' \in [Threads -> Statuses]
        /\ Sched'
        /\ status'[t] = "RUNNING"
        /\ \A u \in Threads : status'[u] = st[u]
        /\ kpc' \in [Threads -> KernelPlaces] /\ karg' \in [Threads -> Objects]
        /\ kpc'[t] = "user"
        /\ \A u \in Threads \ {t} : kpc'[u] = kpc[u] /\ karg'[u] = karg[u]
    BY <1>2, ReturnFacts
  <2>2. /\ threadWithPossession[l] = t \/ threadWithPossession[l] = NoThread
        /\ threadWithPossession' = [threadWithPossession EXCEPT ![l] = t]
        /\ lockState' \in [Locks -> {"FREE", "BUSY"}]
        /\ lockState'[l] # "FREE"
        /\ \A k \in Locks \ {l} : lockState'[k] = lockState[k]
        /\ holds' = [holds EXCEPT ![t] = @ \cup {l}]
        /\ lockQueue' = lockQueue
    <3>1. CASE threadWithPossession[l] = t
      <4>1. UNCHANGED <<lockState, threadWithPossession, lockQueue>>
            /\ holds' = [holds EXCEPT ![t] = @ \cup {l}]
        BY <1>2, <3>1 DEF AcquireBody, Sleep, Return
      <4> QED BY <1>1, <3>1, <4>1 DEF Inv, TypeOK, Ownership
    <3>2. CASE threadWithPossession[l] # t
      <4>1. lockState[l] = "FREE"
        <5>1. status'[t] # "BLOCKED"
          BY <2>1
        <5>2. ~Sleep(t, "Acquire", l, st)
          <6>1. "Acquire" \in KernelPlaces /\ l \in Objects /\ kpc[t] # "finished"
            BY DEF KernelPlaces, Objects
          <6> QED BY <5>1, <6>1, SleepFacts
        <5> QED BY <3>2, <5>2 DEF AcquireBody
      <4>2. /\ lockState' = [lockState EXCEPT ![l] = "BUSY"]
            /\ threadWithPossession' = [threadWithPossession EXCEPT ![l] = t]
            /\ holds' = [holds EXCEPT ![t] = @ \cup {l}]
            /\ UNCHANGED lockQueue
        BY <3>2, <4>1 DEF AcquireBody
      <4> QED BY <1>1, <4>1, <4>2 DEF Inv, TypeOK, Ownership
    <3> QED BY <3>1, <3>2
  <2>3. TypeOK'
    BY <2>1, <2>2 DEF Inv, TypeOK, condVars, semVars
  <2>4. Places' /\ Doomed'
    BY <2>1, SynchAssumption DEF Inv, Places, Doomed, Cleaned
  <2>5. SemQueues'
    BY <1>1, <2>1 DEF Inv, SemQueues, Cleaned, semVars
  <2>6. LockQueues'
    BY <1>1, <2>1, <2>2 DEF Inv, LockQueues, Cleaned
  <2>7. CondQueues'
    <3>1. UNCHANGED <<waitingLock, condQueue>>
      BY <1>1 DEF condVars
    <3>2. \A u \in Threads \ {t} : kpc[u] = "Wait" =>
             (status'[u] = "BLOCKED" <=> status[u] = "BLOCKED")
      BY <2>1 DEF Cleaned
    <3>3. \A c \in Conditions : t \notin Elements(condQueue[c])
      BY <1>1 DEF Inv, CondQueues
    <3>4. \A c \in Conditions :
             /\ Distinct(condQueue'[c])
             /\ \A u \in Threads : u \in Elements(condQueue'[c]) =>
                   /\ status'[u] = "BLOCKED" /\ kpc'[u] = "Wait"
                   /\ karg'[u] = waitingLock'[c]
      BY <2>1, <3>1, <3>2, <3>3 DEF Inv, CondQueues
    <3>5. \A u \in Threads : status'[u] = "BLOCKED" /\ kpc'[u] = "Wait" =>
             \E c \in Conditions : u \in Elements(condQueue'[c])
      BY <2>1, <3>1, <3>2 DEF Inv, CondQueues
    <3> QED BY <3>1, <3>4, <3>5 DEF Inv, CondQueues
  <2>8. Ownership'
    <3>1. /\ threadWithPossession'[l] = t
          /\ \A k \in Locks \ {l} : threadWithPossession'[k] = threadWithPossession[k]
          /\ holds'[t] = holds[t] \cup {l}
          /\ \A u \in Threads \ {t} : holds'[u] = holds[u]
      BY <2>2 DEF Inv, TypeOK
    <3>2. \A k \in Locks : lockState'[k] = "FREE" =>
             threadWithPossession'[k] = NoThread /\ lockQueue'[k] = <<>>
      BY <2>2, <3>1 DEF Inv, Ownership
    <3>3. \A u \in Threads : \A k \in holds'[u] : threadWithPossession'[k] = u
      BY <1>1, <2>2, <3>1, SynchAssumption DEF Inv, Ownership, TypeOK
    <3>4. ASSUME NEW u \in Threads, kpc'[u] = "Acquire", status'[u] # "BLOCKED"
          PROVE  threadWithPossession'[karg'[u]] = u
      <4>1. u # t /\ kpc[u] = "Acquire" /\ karg'[u] = karg[u] /\ karg[u] \in Locks
            /\ status[u] # "BLOCKED"
        BY <2>1, <3>4 DEF Inv, Places, Cleaned
      <4>2. threadWithPossession[karg[u]] = u
        BY <4>1 DEF Inv, Ownership
      <4>3. karg[u] # l
        BY <2>2, <4>1, <4>2, SynchAssumption
      <4> QED BY <3>1, <4>1, <4>2, <4>3
    <3> QED BY <3>2, <3>3, <3>4 DEF Ownership
  <2> QED BY <2>1, <2>3, <2>4, <2>5, <2>6, <2>7, <2>8 DEF Inv
<1>3. CASE /\ lockState[l] = "BUSY"
           /\ lockQueue' = [lockQueue EXCEPT ![l] = Append(@, t)]
           /\ Sleep(t, "Acquire", l, st)
           /\ UNCHANGED <<lockState, threadWithPossession, holds>>
  <2>1. /\ currentThread' \in Threads \cup {NoThread}
        /\ readyList' \in Seq(Threads)
        /\ status' \in [Threads -> Statuses]
        /\ Sched'
        /\ status'[t] = "BLOCKED"
        /\ \A u \in Threads \ {t} :
              \/ status'[u] = st[u]
              \/ st[u] = "READY" /\ status'[u] = "RUNNING"
        /\ kpc' \in [Threads -> KernelPlaces] /\ karg' \in [Threads -> Objects]
        /\ kpc'[t] = "Acquire" /\ karg'[t] = l
        /\ \A u \in Threads \ {t} : kpc'[u] = kpc[u] /\ karg'[u] = karg[u]
    BY <1>3, SleepFacts DEF KernelPlaces, Objects
  <2>2. /\ lockQueue[l] \in Seq(Threads) /\ lockQueue \in [Locks -> Seq(Threads)]
        /\ t \notin Elements(lockQueue[l]) /\ Distinct(lockQueue[l])
    BY <1>1 DEF Inv, TypeOK, LockQueues
  <2>3. /\ Append(lockQueue[l], t) \in Seq(Threads)
        /\ Elements(Append(lockQueue[l], t)) = Elements(lockQueue[l]) \cup {t}
        /\ Distinct(Append(lockQueue[l], t))
    BY <2>2, AppendFacts
  <2>4. /\ lockQueue' \in [Locks -> Seq(Threads)]
        /\ lockQueue'[l] = Append(lockQueue[l], t)
        /\ \A k \in Locks \ {l} : lockQueue'[k] = lockQueue[k]
    BY <1>3, <2>2, <2>3
  <2>5. TypeOK'
    BY <1>3, <2>1, <2>4 DEF Inv, TypeOK, condVars, semVars
  <2>6. Places' /\ Doomed'
    <3>1. Places'
      BY <2>1 DEF Inv, Places, Cleaned
    <3>2. Doomed'
      BY <2>1, SynchAssumption DEF Inv, Doomed
    <3> QED BY <3>1, <3>2
  <2>7. LockQueues'
    <3>1. \A u \in Threads \ {t} : kpc[u] = "Acquire" =>
             (status'[u] = "BLOCKED" <=> status[u] = "BLOCKED")
      BY <2>1 DEF Cleaned
    <3>2. ASSUME NEW r \in Locks PROVE Distinct(lockQueue'[r])
      BY <2>3, <2>4, <3>2 DEF Inv, LockQueues
    <3>3. ASSUME NEW u \in Threads, NEW r \in Locks
          PROVE  u \in Elements(lockQueue'[r]) <=>
                    (status'[u] = "BLOCKED" /\ kpc'[u] = "Acquire" /\ karg'[u] = r)
      <4>1. u \in Elements(lockQueue[r]) <=>
               (status[u] = "BLOCKED" /\ kpc[u] = "Acquire" /\ karg[u] = r)
        BY DEF Inv, LockQueues
      <4>2. CASE r = l
        BY <1>1, <2>1, <2>3, <2>4, <3>1, <4>1, <4>2
      <4>3. CASE r # l
        <5>1. lockQueue'[r] = lockQueue[r]
          BY <2>4, <4>3
        <5> QED BY <1>1, <2>1, <2>3, <2>4, <3>1, <4>1, <4>3, <5>1
      <4> QED BY <4>2, <4>3
    <3> QED BY <3>2, <3>3 DEF LockQueues
  <2>8. SemQueues'
    BY <1>1, <2>1 DEF Inv, SemQueues, Cleaned, semVars
  <2>9. CondQueues'
    BY <1>1, <2>1 DEF Inv, CondQueues, Cleaned, condVars
  <2>10. Ownership'
    <3>1. \A k \in Locks : lockState'[k] = "FREE" =>
             threadWithPossession'[k] = NoThread /\ lockQueue'[k] = <<>>
      BY <1>3, <2>4 DEF Inv, Ownership
    <3>2. \A u \in Threads : \A k \in holds'[u] : threadWithPossession'[k] = u
      BY <1>3 DEF Inv, Ownership
    <3>3. \A u \in Threads : kpc'[u] = "Acquire" /\ status'[u] # "BLOCKED" =>
             threadWithPossession'[karg'[u]] = u
      BY <1>3, <2>1 DEF Inv, Ownership, Cleaned
    <3> QED BY <3>1, <3>2, <3>3 DEF Ownership
  <2> QED BY <2>1, <2>5, <2>6, <2>7, <2>8, <2>9, <2>10 DEF Inv
<1> QED BY <1>2, <1>3 DEF AcquireBody

(* The return from the sleep in Acquire().                                 *)
LEMMA ResumeAcquireStep == ASSUME Inv, NEW t \in Threads, ResumeAcquire(t) PROVE Inv'
<1> DEFINE st == Reaped
<1>1. /\ currentThread = t /\ kpc[t] = "Acquire" /\ status[t] = "RUNNING"
      /\ Cleaned(st) /\ Return(t, st)
      /\ threadToBeDestroyed' = NoThread
      /\ karg[t] \in Locks /\ threadWithPossession[karg[t]] = t
      /\ holds' = [holds EXCEPT ![t] = @ \cup {karg[t]}]
      /\ UNCHANGED <<lockState, threadWithPossession, lockQueue, condVars, semVars>>
  BY ReapedCleans DEF ResumeAcquire, Resumes, Reap, Inv, Sched, Places, Ownership
<1> HIDE DEF st
<1>2. /\ currentThread' = t
      /\ readyList' \in Seq(Threads)
      /\ status' \in [Threads -> Statuses]
      /\ Sched'
      /\ status'[t] = "RUNNING"
      /\ \A u \in Threads : status'[u] = st[u]
      /\ kpc' \in [Threads -> KernelPlaces] /\ karg' \in [Threads -> Objects]
      /\ kpc'[t] = "user"
      /\ \A u \in Threads \ {t} : kpc'[u] = kpc[u] /\ karg'[u] = karg[u]
  BY <1>1, ReturnFacts
<1>3. TypeOK'
  BY <1>1, <1>2 DEF Inv, TypeOK, condVars, semVars
<1>4. Places' /\ Doomed'
  BY <1>1, <1>2, SynchAssumption DEF Inv, Places, Doomed, Cleaned
<1>5. SemQueues'
  BY <1>1, <1>2 DEF Inv, SemQueues, Cleaned, semVars
<1>6. LockQueues'
  BY <1>1, <1>2 DEF Inv, LockQueues, Cleaned
<1>7. CondQueues'
  BY <1>1, <1>2 DEF Inv, CondQueues, Cleaned, condVars
<1>8. Ownership'
  BY <1>1, <1>2 DEF Inv, Ownership, Cleaned, TypeOK
<1> QED BY <1>2, <1>3, <1>4, <1>5, <1>6, <1>7, <1>8 DEF Inv
(* Release()'s hand-over, before the routine returns or sleeps.            *)
LEMMA HandOverFacts ==
    ASSUME Inv, NEW t \in Threads, NEW l \in Locks, currentThread = t, kpc[t] = "user",
           threadWithPossession[l] = t, HandOver(l)
    PROVE  /\ ReadyAfter(l) \in Seq(Threads) /\ Distinct(ReadyAfter(l))
           /\ StatusAfter(l) \in [Threads -> Statuses]
           /\ \A u \in Threads : u \in Elements(ReadyAfter(l)) <=> StatusAfter(l)[u] = "READY"
           /\ StatusAfter(l)[t] = "RUNNING"
           /\ \A u \in Threads :
                 \/ StatusAfter(l)[u] = status[u]
                 \/ /\ status[u] = "BLOCKED" /\ kpc[u] = "Acquire" /\ karg[u] = l
                    /\ StatusAfter(l)[u] = "READY" /\ threadWithPossession'[l] = u
           /\ lockState' \in [Locks -> {"FREE", "BUSY"}]
           /\ threadWithPossession' \in [Locks -> Threads \cup {NoThread}]
           /\ lockQueue' \in [Locks -> Seq(Threads)]
           /\ \A k \in Locks : Distinct(lockQueue'[k])
           /\ \A k \in Locks, u \in Threads : u \in Elements(lockQueue'[k]) <=>
                 (StatusAfter(l)[u] = "BLOCKED" /\ kpc[u] = "Acquire" /\ karg[u] = k)
           /\ \A k \in Locks : lockState'[k] = "FREE" =>
                 threadWithPossession'[k] = NoThread /\ lockQueue'[k] = <<>>
           /\ \A k \in Locks \ {l} : threadWithPossession'[k] = threadWithPossession[k]
<1>1. /\ status[t] = "RUNNING" /\ t # NoThread
      /\ readyList \in Seq(Threads) /\ status \in [Threads -> Statuses]
      /\ lockQueue \in [Locks -> Seq(Threads)]
      /\ threadWithPossession \in [Locks -> Threads \cup {NoThread}]
      /\ lockState \in [Locks -> {"FREE", "BUSY"}]
      /\ lockState[l] = "BUSY"
  BY SynchAssumption DEF Inv, TypeOK, Sched, Ownership
<1>2. CASE lockQueue[l] = <<>>
  <2>1. /\ ReadyAfter(l) = readyList /\ StatusAfter(l) = status
        /\ lockState' = [lockState EXCEPT ![l] = "FREE"]
        /\ threadWithPossession' = [threadWithPossession EXCEPT ![l] = NoThread]
        /\ lockQueue' = lockQueue
    BY <1>2 DEF ReadyAfter, StatusAfter, HandOver
  <2>2. \A k \in Locks : lockState'[k] = "FREE" =>
           threadWithPossession'[k] = NoThread /\ lockQueue'[k] = <<>>
    BY <1>1, <1>2, <2>1 DEF Inv, Ownership
  <2>3. /\ \A u \in Threads : u \in Elements(ReadyAfter(l)) <=> StatusAfter(l)[u] = "READY"
        /\ Distinct(ReadyAfter(l))
    BY <2>1 DEF Inv, Sched
  <2>4. /\ \A k \in Locks : Distinct(lockQueue'[k])
        /\ \A k \in Locks, u \in Threads : u \in Elements(lockQueue'[k]) <=>
              (StatusAfter(l)[u] = "BLOCKED" /\ kpc[u] = "Acquire" /\ karg[u] = k)
    BY <2>1 DEF Inv, LockQueues
  <2> QED BY <1>1, <2>1, <2>2, <2>3, <2>4
<1>3. CASE lockQueue[l] # <<>>
  <2> DEFINE w == Head(lockQueue[l])
  <2>1. /\ w \in Threads /\ w \in Elements(lockQueue[l])
        /\ Tail(lockQueue[l]) \in Seq(Threads) /\ Distinct(Tail(lockQueue[l]))
        /\ Elements(Tail(lockQueue[l])) = Elements(lockQueue[l]) \ {w}
    BY <1>1, <1>3, TailFacts DEF Inv, LockQueues
  <2>2. status[w] = "BLOCKED" /\ kpc[w] = "Acquire" /\ karg[w] = l /\ w # t
    BY <1>1, <2>1 DEF Inv, LockQueues
  <2>3. /\ ReadyAfter(l) = Append(readyList, w)
        /\ StatusAfter(l) = [status EXCEPT ![w] = "READY"]
        /\ threadWithPossession' = [threadWithPossession EXCEPT ![l] = w]
        /\ lockQueue' = [lockQueue EXCEPT ![l] = Tail(lockQueue[l])]
        /\ lockState' = lockState
    BY <1>3 DEF ReadyAfter, StatusAfter, HandOver
  <2> HIDE DEF w
  <2>4. /\ ReadyAfter(l) \in Seq(Threads)
        /\ Elements(ReadyAfter(l)) = Elements(readyList) \cup {w}
        /\ Distinct(ReadyAfter(l))
        /\ StatusAfter(l) \in [Threads -> Statuses]
        /\ StatusAfter(l)[w] = "READY"
        /\ \A u \in Threads \ {w} : StatusAfter(l)[u] = status[u]
    BY <2>1, <2>2, <2>3, WakeFacts
  <2>5. /\ threadWithPossession'[l] = w
        /\ \A k \in Locks \ {l} : threadWithPossession'[k] = threadWithPossession[k]
        /\ threadWithPossession' \in [Locks -> Threads \cup {NoThread}]
        /\ lockQueue' \in [Locks -> Seq(Threads)]
        /\ lockQueue'[l] = Tail(lockQueue[l])
        /\ \A k \in Locks \ {l} : lockQueue'[k] = lockQueue[k]
    BY <1>1, <2>1, <2>3
  <2>6. \A u \in Threads : u \in Elements(ReadyAfter(l)) <=> StatusAfter(l)[u] = "READY"
    BY <2>4 DEF Inv, Sched
  <2>7. ASSUME NEW k \in Locks PROVE Distinct(lockQueue'[k])
    <3>1. CASE k = l
      BY <2>1, <2>5, <3>1
    <3>2. CASE k # l
      <4>1. lockQueue'[k] = lockQueue[k]
        BY <2>5, <3>2
      <4> QED BY <4>1 DEF Inv, LockQueues
    <3> QED BY <3>1, <3>2
  <2>8. ASSUME NEW k \in Locks, NEW u \in Threads
        PROVE  u \in Elements(lockQueue'[k]) <=>
                  (StatusAfter(l)[u] = "BLOCKED" /\ kpc[u] = "Acquire" /\ karg[u] = k)
    <3>1. u \in Elements(lockQueue[k]) <=>
             (status[u] = "BLOCKED" /\ kpc[u] = "Acquire" /\ karg[u] = k)
      BY DEF Inv, LockQueues
    <3>2. CASE k = l
      BY <2>1, <2>2, <2>4, <2>5, <3>1, <3>2
    <3>3. CASE k # l
      <4>1. lockQueue'[k] = lockQueue[k]
        BY <2>5, <3>3
      <4> QED BY <2>2, <2>4, <3>1, <3>3, <4>1
    <3> QED BY <3>2, <3>3
  <2>9. \A k \in Locks : lockState'[k] = "FREE" =>
           threadWithPossession'[k] = NoThread /\ lockQueue'[k] = <<>>
    BY <1>1, <2>3, <2>5 DEF Inv, Ownership
  <2> QED BY <1>1, <2>2, <2>3, <2>4, <2>5, <2>6, <2>7, <2>8, <2>9
<1> QED BY <1>2, <1>3

(* Release().                                                              *)
LEMMA ReleaseStep == ASSUME Inv, NEW t \in Threads, NEW l \in Locks, Release(t, l) PROVE Inv'
<1>1. /\ currentThread = t /\ kpc[t] = "user" /\ threadWithPossession[l] = t
      /\ status[t] = "RUNNING" /\ HandOver(l)
      /\ readyList' = ReadyAfter(l) /\ status' = StatusAfter(l)
      /\ holds' = [holds EXCEPT ![t] = @ \ {l}]
      /\ UNCHANGED <<currentThread, kpc, karg, threadToBeDestroyed, condVars, semVars>>
  BY DEF Release, InUser, Inv, Places
<1>2. /\ readyList' \in Seq(Threads) /\ Distinct(readyList')
      /\ status' \in [Threads -> Statuses]
      /\ \A u \in Threads : u \in Elements(readyList') <=> status'[u] = "READY"
      /\ status'[t] = "RUNNING"
      /\ \A u \in Threads :
            \/ status'[u] = status[u]
            \/ /\ status[u] = "BLOCKED" /\ kpc[u] = "Acquire" /\ karg[u] = l
               /\ status'[u] = "READY" /\ threadWithPossession'[l] = u
      /\ lockState' \in [Locks -> {"FREE", "BUSY"}]
      /\ threadWithPossession' \in [Locks -> Threads \cup {NoThread}]
      /\ lockQueue' \in [Locks -> Seq(Threads)]
      /\ \A k \in Locks : Distinct(lockQueue'[k])
      /\ \A k \in Locks, u \in Threads : u \in Elements(lockQueue'[k]) <=>
            (status'[u] = "BLOCKED" /\ kpc[u] = "Acquire" /\ karg[u] = k)
      /\ \A k \in Locks : lockState'[k] = "FREE" =>
            threadWithPossession'[k] = NoThread /\ lockQueue'[k] = <<>>
      /\ \A k \in Locks \ {l} : threadWithPossession'[k] = threadWithPossession[k]
  BY <1>1, HandOverFacts
<1>3. /\ holds' \in [Threads -> SUBSET Locks]
      /\ holds'[t] = holds[t] \ {l}
      /\ \A u \in Threads \ {t} : holds'[u] = holds[u]
  BY <1>1 DEF Inv, TypeOK
<1>4. TypeOK'
  BY <1>1, <1>2, <1>3 DEF Inv, TypeOK, condVars, semVars
<1>5. /\ \A u \in Threads :
            \/ status'[u] = status[u]
            \/ status[u] = "BLOCKED" /\ kpc[u] = "Acquire" /\ status'[u] = "READY"
      /\ kpc' = kpc /\ karg' = karg /\ currentThread' = currentThread
      /\ threadToBeDestroyed' = threadToBeDestroyed
  BY <1>1, <1>2
<1>6. Places' /\ Doomed'
  <2>1. Places'
    BY <1>5 DEF Inv, Places
  <2>2. Doomed'
    BY <1>5 DEF Inv, Doomed
  <2> QED BY <2>1, <2>2
<1>7. Sched'
  <2>1. \A u \in Threads : status'[u] = "RUNNING" <=> status[u] = "RUNNING"
    BY <1>5
  <2> QED BY <1>2, <1>5, <2>1 DEF Inv, Sched
<1>8. LockQueues'
  BY <1>2, <1>5 DEF LockQueues
<1>9. SemQueues'
  BY <1>1, <1>5 DEF Inv, SemQueues, semVars
<1>10. CondQueues'
  <2>1. waitingLock' = waitingLock /\ condQueue' = condQueue
    BY <1>1 DEF condVars
  <2>2. \A u \in Threads : kpc[u] = "Wait" =>
           (status'[u] = "BLOCKED" <=> status[u] = "BLOCKED")
    BY <1>5
  <2> QED BY <1>5, <2>1, <2>2 DEF Inv, CondQueues
<1>11. Ownership'
  <2>1. \A u \in Threads : \A k \in holds'[u] : threadWithPossession'[k] = u
    BY <1>1, <1>2, <1>3 DEF Inv, Ownership, TypeOK
  <2>2. ASSUME NEW u \in Threads, kpc'[u] = "Acquire", status'[u] # "BLOCKED"
        PROVE  threadWithPossession'[karg'[u]] = u
    <3>1. kpc[u] = "Acquire" /\ karg'[u] = karg[u] /\ karg[u] \in Locks
      BY <1>5, <2>2 DEF Inv, Places
    <3>2. CASE status'[u] # status[u]
      BY <1>2, <3>1, <3>2
    <3>3. CASE status'[u] = status[u]
      <4>1. threadWithPossession[karg[u]] = u
        BY <2>2, <3>1, <3>3 DEF Inv, Ownership
      <4>2. karg[u] # l
        BY <1>1, <3>1, <4>1
      <4> QED BY <1>2, <3>1, <4>1, <4>2
    <3> QED BY <3>2, <3>3
  <2> QED BY <1>2, <2>1, <2>2 DEF Ownership
<1> QED BY <1>4, <1>6, <1>7, <1>8, <1>9, <1>10, <1>11 DEF Inv

(* Wait() up to its sleep.                                                 *)
LEMMA WaitStep ==
    ASSUME Inv, NEW t \in Threads, NEW c \in Conditions, NEW l \in Locks, Wait(t, c, l)
    PROVE  Inv'
<1> DEFINE rl == ReadyAfter(l)
           sa == StatusAfter(l)
           st == [sa EXCEPT ![t] = "BLOCKED"]
<1>1. /\ currentThread = t /\ kpc[t] = "user" /\ threadWithPossession[l] = t
      /\ status[t] = "RUNNING" /\ HandOver(l)
      /\ l = RememberedLock(c, l)
      /\ waitingLock' = [waitingLock EXCEPT ![c] = l]
      /\ holds' = [holds EXCEPT ![t] = @ \ {l}]
      /\ condQueue' = [condQueue EXCEPT ![c] = Append(@, t)]
      /\ kpc' = [kpc EXCEPT ![t] = "Wait"]
      /\ karg' = [karg EXCEPT ![t] = l]
      /\ Run(rl, st)
      /\ UNCHANGED <<threadToBeDestroyed, semVars>>
  BY DEF Wait, InUser, Inv, Places
<1>2. /\ rl \in Seq(Threads) /\ Distinct(rl)
      /\ sa \in [Threads -> Statuses]
      /\ \A u \in Threads : u \in Elements(rl) <=> sa[u] = "READY"
      /\ sa[t] = "RUNNING"
      /\ \A u \in Threads :
            \/ sa[u] = status[u]
            \/ /\ status[u] = "BLOCKED" /\ kpc[u] = "Acquire" /\ karg[u] = l
               /\ sa[u] = "READY" /\ threadWithPossession'[l] = u
      /\ lockState' \in [Locks -> {"FREE", "BUSY"}]
      /\ threadWithPossession' \in [Locks -> Threads \cup {NoThread}]
      /\ lockQueue' \in [Locks -> Seq(Threads)]
      /\ \A k \in Locks : Distinct(lockQueue'[k])
      /\ \A k \in Locks, u \in Threads : u \in Elements(lockQueue'[k]) <=>
            (sa[u] = "BLOCKED" /\ kpc[u] = "Acquire" /\ karg[u] = k)
      /\ \A k \in Locks : lockState'[k] = "FREE" =>
            threadWithPossession'[k] = NoThread /\ lockQueue'[k] = <<>>
      /\ \A k \in Locks \ {l} : threadWithPossession'[k] = threadWithPossession[k]
  BY <1>1, HandOverFacts
<1> HIDE DEF rl, sa
<1>3. /\ st \in [Threads -> Statuses] /\ st[t] = "BLOCKED"
      /\ \A u \in Threads \ {t} : st[u] = sa[u]
  BY <1>2 DEF Statuses
<1> HIDE DEF st
<1>4. /\ \A u \in Threads : u \in Elements(rl) <=> st[u] = "READY"
      /\ \A u \in Threads : st[u] # "RUNNING"
  <2>1. \A u \in Threads \ {t} : status[u] # "RUNNING"
    BY <1>1 DEF Inv, Sched
  <2> QED BY <1>2, <1>3, <2>1
<1>5. /\ currentThread' \in Threads \cup {NoThread}
      /\ readyList' \in Seq(Threads)
      /\ status' \in [Threads -> Statuses]
      /\ Sched'
      /\ \A u \in Threads :
            \/ status'[u] = st[u]
            \/ st[u] = "READY" /\ status'[u] = "RUNNING"
  BY <1>1, <1>2, <1>3, <1>4, RunFacts
<1>6. /\ kpc' \in [Threads -> KernelPlaces] /\ karg' \in [Threads -> Objects]
      /\ kpc'[t] = "Wait" /\ karg'[t] = l
      /\ \A u \in Threads \ {t} : kpc'[u] = kpc[u] /\ karg'[u] = karg[u]
      /\ holds' \in [Threads -> SUBSET Locks]
      /\ holds'[t] = holds[t] \ {l}
      /\ \A u \in Threads \ {t} : holds'[u] = holds[u]
      /\ waitingLock' \in [Conditions -> Locks \cup {NoLock}]
      /\ waitingLock'[c] = l
      /\ \A d \in Conditions \ {c} : waitingLock'[d] = waitingLock[d]
  BY <1>1 DEF Inv, TypeOK, KernelPlaces, Objects
<1>7. /\ condQueue[c] \in Seq(Threads) /\ Distinct(condQueue[c])
      /\ condQueue \in [Conditions -> Seq(Threads)]
      /\ \A d \in Conditions : t \notin Elements(condQueue[d])
  BY <1>1 DEF Inv, TypeOK, CondQueues
<1>8. /\ Append(condQueue[c], t) \in Seq(Threads)
      /\ Elements(Append(condQueue[c], t)) = Elements(condQueue[c]) \cup {t}
      /\ Distinct(Append(condQueue[c], t))
  BY <1>7, AppendFacts
<1>9. /\ condQueue' \in [Conditions -> Seq(Threads)]
      /\ condQueue'[c] = Append(condQueue[c], t)
      /\ \A d \in Conditions \ {c} : condQueue'[d] = condQueue[d]
  BY <1>1, <1>7, <1>8
<1>10. TypeOK'
  BY <1>1, <1>2, <1>5, <1>6, <1>9 DEF Inv, TypeOK, semVars
<1>11. \A u \in Threads \ {t} : kpc[u] # "Acquire" =>
          (status'[u] = "BLOCKED" <=> status[u] = "BLOCKED")
  BY <1>2, <1>3, <1>5
<1>12. status'[t] = "BLOCKED"
  BY <1>3, <1>5
<1>13. Places'
  BY <1>1, <1>2, <1>3, <1>5, <1>6 DEF Inv, Places
<1>14. Doomed'
  BY <1>1, <1>6 DEF Inv, Doomed
<1>15. LockQueues'
  <2>1. \A u \in Threads \ {t} : status'[u] = "BLOCKED" <=> sa[u] = "BLOCKED"
    BY <1>3, <1>5
  <2> QED BY <1>1, <1>2, <1>6, <2>1 DEF LockQueues
<1>16. SemQueues'
  BY <1>1, <1>6, <1>11 DEF Inv, SemQueues, semVars
<1>17. CondQueues'
  <2>1. ASSUME NEW d \in Conditions PROVE Distinct(condQueue'[d])
    <3>1. CASE d = c
      BY <1>8, <1>9, <3>1
    <3>2. CASE d # c
      <4>1. condQueue'[d] = condQueue[d]
        BY <1>9, <3>2
      <4> QED BY <4>1 DEF Inv, CondQueues
    <3> QED BY <3>1, <3>2
  <2>2. ASSUME NEW d \in Conditions, NEW u \in Threads, u \in Elements(condQueue'[d])
        PROVE  /\ status'[u] = "BLOCKED" /\ kpc'[u] = "Wait"
               /\ karg'[u] = waitingLock'[d]
               /\ u # t => u \in Elements(condQueue[d])
               /\ u = t => d = c
    <3>1. CASE u = t
      <4>1. d = c
        BY <1>7, <1>9, <2>2, <3>1
      <4> QED BY <1>6, <1>12, <3>1, <4>1
    <3>2. CASE u # t
      <4>1. u \in Elements(condQueue[d])
        BY <1>8, <1>9, <2>2, <3>2
      <4>2. status[u] = "BLOCKED" /\ kpc[u] = "Wait" /\ karg[u] = waitingLock[d]
            /\ karg[u] \in Locks
        BY <4>1 DEF Inv, CondQueues, Places
      <4>3. waitingLock'[d] = waitingLock[d]
        BY <1>1, <1>6, <4>2, SynchAssumption DEF RememberedLock
      <4> QED BY <1>6, <1>11, <3>2, <4>1, <4>2, <4>3
    <3> QED BY <3>1, <3>2
  <2>3. ASSUME NEW u \in Threads, status'[u] = "BLOCKED", kpc'[u] = "Wait"
        PROVE  \E d \in Conditions : u \in Elements(condQueue'[d])
    <3>1. CASE u = t
      BY <1>8, <1>9, <3>1
    <3>2. CASE u # t
      <4>1. PICK d \in Conditions : u \in Elements(condQueue[d])
        BY <1>6, <1>11, <2>3, <3>2 DEF Inv, CondQueues
      <4> QED BY <1>8, <1>9, <4>1
    <3> QED BY <3>1, <3>2
  <2>4. ASSUME NEW d \in Conditions, NEW e \in Conditions, NEW u \in Threads,
               u \in Elements(condQueue'[d]), u \in Elements(condQueue'[e])
        PROVE  d = e
    BY <2>2, <2>4 DEF Inv, CondQueues
  <2> QED BY <2>1, <2>2, <2>3, <2>4 DEF CondQueues
<1>18. Ownership'
  <2>1. \A u \in Threads : \A k \in holds'[u] : threadWithPossession'[k] = u
    BY <1>1, <1>2, <1>6 DEF Inv, Ownership, TypeOK
  <2>2. ASSUME NEW u \in Threads, kpc'[u] = "Acquire", status'[u] # "BLOCKED"
        PROVE  threadWithPossession'[karg'[u]] = u
    <3>1. u # t /\ kpc[u] = "Acquire" /\ karg'[u] = karg[u] /\ karg[u] \in Locks
      BY <1>6, <2>2 DEF Inv, Places
    <3>2. CASE sa[u] # status[u]
      BY <1>2, <3>1, <3>2
    <3>3. CASE sa[u] = status[u]
      <4>1. status[u] # "BLOCKED"
        BY <1>3, <1>5, <2>2, <3>1, <3>3
      <4>2. threadWithPossession[karg[u]] = u
        BY <3>1, <4>1 DEF Inv, Ownership
      <4>3. karg[u] # l
        BY <1>1, <3>1, <4>2
      <4> QED BY <1>2, <3>1, <4>2, <4>3
    <3> QED BY <3>2, <3>3
  <2> QED BY <1>2, <2>1, <2>2 DEF Ownership
<1> QED BY <1>5, <1>10, <1>13, <1>14, <1>15, <1>16, <1>17, <1>18 DEF Inv
(* Wait()'s error returns: waitingLock may be set, but only with nobody
   asleep on the condition.                                                *)
LEMMA WaitRejectedStep ==
    ASSUME Inv, NEW t \in Threads, NEW c \in Conditions, NEW l \in Locks,
           WaitRejected(t, c, l)
    PROVE  Inv'
<1>1. /\ waitingLock' = [waitingLock EXCEPT ![c] = RememberedLock(c, l)]
      /\ UNCHANGED <<schedVars, lockVars, semVars, condQueue>>
  BY DEF WaitRejected
<1>2. waitingLock' \in [Conditions -> Locks \cup {NoLock}]
  BY <1>1 DEF Inv, TypeOK, RememberedLock
<1>3. TypeOK' /\ Places' /\ Doomed' /\ Sched'
  BY <1>1, <1>2 DEF Inv, TypeOK, Places, Doomed, Sched, schedVars, lockVars, semVars
<1>4. LockQueues' /\ SemQueues' /\ Ownership'
  BY <1>1 DEF Inv, LockQueues, SemQueues, Ownership, schedVars, lockVars, semVars
<1>5. ASSUME NEW d \in Conditions, NEW u \in Threads, u \in Elements(condQueue[d])
      PROVE  karg[u] = waitingLock'[d]
  <2>1. karg[u] = waitingLock[d] /\ waitingLock[d] # NoLock
    BY <1>5, SynchAssumption DEF Inv, CondQueues, Places
  <2> QED BY <1>1, <2>1 DEF RememberedLock, Inv, TypeOK
<1>6. CondQueues'
  BY <1>1, <1>5 DEF Inv, CondQueues, schedVars
<1> QED BY <1>3, <1>4, <1>6 DEF Inv

(* Signal() and Broadcast(): threads in W leave the queue of c and become
   ready; those who stay still remember the same lock.                     *)
LEMMA WakeStep ==
    ASSUME Inv, NEW c \in Conditions, NEW W, W \subseteq Elements(condQueue[c]),
           W \subseteq Threads,
           UNCHANGED <<currentThread, kpc, karg, threadToBeDestroyed, lockVars, semVars>>,
           readyList' \in Seq(Threads), Distinct(readyList'),
           Elements(readyList') = Elements(readyList) \cup W,
           status' \in [Threads -> Statuses],
           \A u \in Threads : status'[u] = IF u \in W THEN "READY" ELSE status[u],
           condQueue' \in [Conditions -> Seq(Threads)],
           Distinct(condQueue'[c]),
           Elements(condQueue'[c]) = Elements(condQueue[c]) \ W,
           \A d \in Conditions \ {c} : condQueue'[d] = condQueue[d],
           waitingLock' \in [Conditions -> Locks \cup {NoLock}],
           Elements(condQueue[c]) # W => waitingLock'[c] = waitingLock[c],
           \A d \in Conditions \ {c} : waitingLock'[d] = waitingLock[d]
    PROVE  Inv'
<1>1. \A u \in W : u \in Threads /\ status[u] = "BLOCKED" /\ kpc[u] = "Wait"
  BY DEF Inv, CondQueues
<1>2. TypeOK'
  BY DEF Inv, TypeOK, lockVars, semVars
<1>3. Places'
  BY <1>1 DEF Inv, Places
<1>4. Doomed'
  BY DEF Inv, Doomed
<1>5. Sched'
  <2>1. \A u \in Threads : status'[u] = "RUNNING" <=> status[u] = "RUNNING"
    BY <1>1
  <2>2. \A u \in Threads : u \in Elements(readyList') <=> status'[u] = "READY"
    BY <1>1 DEF Inv, Sched
  <2> QED BY <2>1, <2>2 DEF Inv, Sched
<1>6. \A u \in Threads : kpc[u] # "Wait" => status'[u] = status[u]
  BY <1>1
<1>7. LockQueues'
  BY <1>6 DEF Inv, LockQueues, lockVars
<1>8. SemQueues'
  BY <1>6 DEF Inv, SemQueues, semVars
<1>9. Ownership'
  BY <1>6 DEF Inv, Ownership, lockVars
<1>10. CondQueues'
  <2>1. ASSUME NEW d \in Conditions PROVE Distinct(condQueue'[d])
    <3>1. CASE d # c
      <4>1. condQueue'[d] = condQueue[d]
        BY <3>1
      <4> QED BY <4>1 DEF Inv, CondQueues
    <3> QED BY <3>1
  <2>2. ASSUME NEW d \in Conditions, NEW u \in Threads
        PROVE  u \in Elements(condQueue'[d]) <=> u \in Elements(condQueue[d]) /\ u \notin W
    <3>1. CASE d = c
      BY <3>1
    <3>2. CASE d # c
      <4>1. condQueue'[d] = condQueue[d]
        BY <3>2
      <4>2. ~(u \in Elements(condQueue[d]) /\ u \in W)
        BY <3>2 DEF Inv, CondQueues
      <4> QED BY <4>1, <4>2
    <3> QED BY <3>1, <3>2
  <2>3. ASSUME NEW d \in Conditions, NEW u \in Threads, u \in Elements(condQueue'[d])
        PROVE  status'[u] = "BLOCKED" /\ kpc'[u] = "Wait" /\ karg'[u] = waitingLock'[d]
    <3>1. u \in Elements(condQueue[d]) /\ u \notin W
      BY <2>2, <2>3
    <3>2. status[u] = "BLOCKED" /\ kpc[u] = "Wait" /\ karg[u] = waitingLock[d]
      BY <3>1 DEF Inv, CondQueues
    <3>3. waitingLock'[d] = waitingLock[d]
      BY <3>1
    <3> QED BY <3>1, <3>2, <3>3
  <2>4. ASSUME NEW u \in Threads, status'[u] = "BLOCKED", kpc'[u] = "Wait"
        PROVE  \E d \in Conditions : u \in Elements(condQueue'[d])
    <3>1. u \notin W /\ status[u] = "BLOCKED" /\ kpc[u] = "Wait"
      BY <2>4
    <3>2. PICK d \in Conditions : u \in Elements(condQueue[d])
      BY <3>1 DEF Inv, CondQueues
    <3> QED BY <2>2, <3>1, <3>2
  <2>5. ASSUME NEW d \in Conditions, NEW e \in Conditions, NEW u \in Threads,
               u \in Elements(condQueue'[d]), u \in Elements(condQueue'[e])
        PROVE  d = e
    BY <2>2, <2>5 DEF Inv, CondQueues
  <2> QED BY <2>1, <2>3, <2>4, <2>5 DEF CondQueues
<1> QED BY <1>2, <1>3, <1>4, <1>5, <1>7, <1>8, <1>9, <1>10 DEF Inv

(* Signal().                                                               *)
LEMMA SignalStep ==
    ASSUME Inv, NEW t \in Threads, NEW c \in Conditions, NEW l \in Locks, Signal(t, c, l)
    PROVE  Inv'
<1> DEFINE w == Head(condQueue[c])
<1>1. /\ condQueue[c] # <<>> /\ condQueue[c] \in Seq(Threads)
      /\ Distinct(condQueue[c])
      /\ condQueue \in [Conditions -> Seq(Threads)]
      /\ waitingLock \in [Conditions -> Locks \cup {NoLock}]
      /\ condQueue' = [condQueue EXCEPT ![c] = Tail(@)]
      /\ readyList' = Append(readyList, w)
      /\ status' = [status EXCEPT ![w] = "READY"]
      /\ waitingLock' = IF Tail(condQueue[c]) = <<>>
                        THEN [waitingLock EXCEPT ![c] = NoLock] ELSE waitingLock
      /\ UNCHANGED <<currentThread, kpc, karg, threadToBeDestroyed, lockVars, semVars>>
  BY DEF Signal, MayWake, Inv, TypeOK, CondQueues
<1>2. /\ w \in Threads /\ w \in Elements(condQueue[c])
      /\ Tail(condQueue[c]) \in Seq(Threads) /\ Distinct(Tail(condQueue[c]))
      /\ Elements(Tail(condQueue[c])) = Elements(condQueue[c]) \ {w}
  BY <1>1, TailFacts
<1>3. status[w] = "BLOCKED" /\ kpc[w] = "Wait"
  BY <1>2 DEF Inv, CondQueues
<1> HIDE DEF w
<1>4. /\ readyList' \in Seq(Threads)
      /\ Elements(readyList') = Elements(readyList) \cup {w}
      /\ Distinct(readyList')
      /\ status' \in [Threads -> Statuses] /\ status'[w] = "READY"
      /\ \A u \in Threads \ {w} : status'[u] = status[u]
  BY <1>1, <1>2, <1>3, WakeFacts
<1>5. /\ condQueue' \in [Conditions -> Seq(Threads)]
      /\ condQueue'[c] = Tail(condQueue[c])
      /\ \A d \in Conditions \ {c} : condQueue'[d] = condQueue[d]
  BY <1>1, <1>2
<1>6. /\ waitingLock' \in [Conditions -> Locks \cup {NoLock}]
      /\ \A d \in Conditions \ {c} : waitingLock'[d] = waitingLock[d]
  BY <1>1
<1>7. Elements(condQueue[c]) # {w} => waitingLock'[c] = waitingLock[c]
  <2>1. Tail(condQueue[c]) = <<>> => Elements(condQueue[c]) \ {w} = {}
    BY <1>2, EmptyList
  <2> QED BY <1>1, <1>2, <2>1
<1>8. \A u \in Threads : status'[u] = IF u \in {w} THEN "READY" ELSE status[u]
  BY <1>4
<1>9. {w} \subseteq Elements(condQueue[c]) /\ {w} \subseteq Threads
  BY <1>2
<1>10. /\ Distinct(condQueue'[c])
       /\ Elements(condQueue'[c]) = Elements(condQueue[c]) \ {w}
  BY <1>2, <1>5
<1> QED BY <1>1, <1>4, <1>5, <1>6, <1>7, <1>8, <1>9, <1>10, WakeStep

(* Broadcast().                                                            *)
LEMMA BroadcastStep ==
    ASSUME Inv, NEW t \in Threads, NEW c \in Conditions, NEW l \in Locks, Broadcast(t, c, l)
    PROVE  Inv'
<1> DEFINE W == Elements(condQueue[c])
<1>1. /\ condQueue[c] \in Seq(Threads) /\ Distinct(condQueue[c])
      /\ condQueue \in [Conditions -> Seq(Threads)]
      /\ waitingLock \in [Conditions -> Locks \cup {NoLock}]
      /\ condQueue' = [condQueue EXCEPT ![c] = <<>>]
      /\ readyList' = readyList \o condQueue[c]
      /\ status' = [u \in Threads |-> IF u \in W THEN "READY" ELSE status[u]]
      /\ waitingLock' = [waitingLock EXCEPT ![c] = NoLock]
      /\ UNCHANGED <<currentThread, kpc, karg, threadToBeDestroyed, lockVars, semVars>>
      /\ readyList \in Seq(Threads) /\ Distinct(readyList)
  BY DEF Broadcast, Inv, TypeOK, CondQueues, Sched
<1>2. W \subseteq Threads
  BY <1>1 DEF Elements
<1> HIDE DEF W
<1>3. Elements(readyList) \cap W = {}
  BY <1>2 DEF Inv, Sched, CondQueues, W
<1>4. /\ readyList' \in Seq(Threads) /\ Distinct(readyList')
      /\ Elements(readyList') = Elements(readyList) \cup W
  BY <1>1, <1>3, ConcatFacts DEF W
<1>5. status' \in [Threads -> Statuses]
  BY <1>1 DEF Inv, TypeOK, Statuses
<1>6. \A u \in Threads : status'[u] = IF u \in W THEN "READY" ELSE status[u]
  BY <1>1
<1>7. /\ condQueue' \in [Conditions -> Seq(Threads)]
      /\ condQueue'[c] = <<>>
      /\ \A d \in Conditions \ {c} : condQueue'[d] = condQueue[d]
  BY <1>1
<1>8. /\ waitingLock' \in [Conditions -> Locks \cup {NoLock}]
      /\ \A d \in Conditions \ {c} : waitingLock'[d] = waitingLock[d]
  BY <1>1
<1>9. Distinct(condQueue'[c]) /\ Elements(condQueue'[c]) = Elements(condQueue[c]) \ W
  BY <1>7, EmptyList DEF W
<1>10. W \subseteq Elements(condQueue[c]) /\ (Elements(condQueue[c]) # W => FALSE)
  BY DEF W
<1> QED BY <1>1, <1>2, <1>4, <1>5, <1>6, <1>7, <1>8, <1>9, <1>10, WakeStep

-----------------------------------------------------------------------------
(* The theorems                                                            *)

(* What the proofs assume of new objects: a Lock starts without an owner.  *)
CleanLocks == FreshOwner \subseteq {NoThread}

(* The initial state satisfies the invariant when new Locks have no owner. *)
LEMMA InitInv == CleanLocks /\ Init => Inv
<1> SUFFICES ASSUME CleanLocks, Init PROVE Inv
  OBVIOUS
<1>1. TypeOK
  BY SynchAssumption DEF Init, TypeOK, Statuses, KernelPlaces, Objects
<1>2. Places
  BY DEF Init, Places
<1>3. Doomed /\ Sched
  BY EmptyList, SynchAssumption DEF Init, Doomed, Sched
<1>4. LockQueues /\ SemQueues /\ CondQueues
  BY EmptyList DEF Init, LockQueues, SemQueues, CondQueues
<1>5. Ownership
  BY DEF Init, Ownership, CleanLocks
<1> QED BY <1>1, <1>2, <1>3, <1>4, <1>5 DEF Inv

(* Every step of the kernel preserves the invariant.                       *)
LEMMA NextInv == Inv /\ [Next]_vars => Inv'
<1> SUFFICES ASSUME Inv, [Next]_vars PROVE Inv'
  OBVIOUS
<1>1. ASSUME NEW t \in Threads, ThreadNext(t) PROVE Inv'
  <2>1. ASSUME NEW u \in Threads, Fork(t, u) PROVE Inv'
    BY <2>1, ForkStep
  <2>2. CASE Finish(t)
    BY <2>2, FinishStep
  <2>3. CASE Yield(t)
    BY <2>3, YieldStep
  <2>4. ASSUME NEW s \in Semaphores, P(t, s) PROVE Inv'
    <3>1. currentThread = t /\ kpc[t] = "user" /\ PBody(t, s, status)
          /\ threadToBeDestroyed' = threadToBeDestroyed
      BY <2>4 DEF P, InUser
    <3> QED BY <3>1, ReapedCleans, PStep
  <2>5. ASSUME NEW s \in Semaphores, V(t, s) PROVE Inv'
    BY <2>5, VStep DEF V
  <2>6. ASSUME NEW l \in Locks, Acquire(t, l) PROVE Inv'
    <3>1. currentThread = t /\ kpc[t] = "user" /\ AcquireBody(t, l, status)
          /\ UNCHANGED <<threadToBeDestroyed, condVars, semVars>>
      BY <2>6 DEF Acquire, InUser
    <3> QED BY <3>1, ReapedCleans, AcquireStep
  <2>7. ASSUME NEW l \in Locks, Release(t, l) PROVE Inv'
    BY <2>7, ReleaseStep
  <2>8. ASSUME NEW c \in Conditions, NEW l \in Locks, WaitRejected(t, c, l) PROVE Inv'
    BY <2>8, WaitRejectedStep
  <2>9. ASSUME NEW c \in Conditions, NEW l \in Locks, Wait(t, c, l) PROVE Inv'
    BY <2>9, WaitStep
  <2>10. ASSUME NEW c \in Conditions, NEW l \in Locks, Signal(t, c, l) PROVE Inv'
    BY <2>10, SignalStep
  <2>11. ASSUME NEW c \in Conditions, NEW l \in Locks, Broadcast(t, c, l) PROVE Inv'
    BY <2>11, BroadcastStep
  <2> QED BY <1>1, <2>1, <2>2, <2>3, <2>4, <2>5, <2>6, <2>7, <2>8, <2>9, <2>10, <2>11
          DEF ThreadNext
<1>2. ASSUME NEW t \in Threads, Resume(t) PROVE Inv'
  <2>1. CASE Start(t)
    <3>1. currentThread = t /\ kpc[t] = "start" /\ Return(t, status)
          /\ UNCHANGED <<threadToBeDestroyed, lockVars, condVars, semVars>>
      BY <2>1 DEF Start, Resumes
    <3> QED BY <3>1, ReapedCleans, ReturnStep
  <2>2. CASE ResumeYield(t)
    <3>1. currentThread = t /\ kpc[t] = "yield" /\ Return(t, Reaped)
          /\ threadToBeDestroyed' = NoThread /\ UNCHANGED <<lockVars, condVars, semVars>>
      BY <2>2 DEF ResumeYield, Resumes, Reap
    <3> QED BY <3>1, ReapedCleans, ReturnStep
  <2>3. CASE ResumeP(t)
    <3>1. currentThread = t /\ kpc[t] = "P" /\ PBody(t, karg[t], Reaped)
          /\ threadToBeDestroyed' = NoThread /\ karg[t] \in Semaphores
      BY <2>3 DEF ResumeP, Resumes, Reap, Inv, Places
    <3> QED BY <3>1, ReapedCleans, PStep
  <2>4. CASE ResumeAcquire(t)
    BY <2>4, ResumeAcquireStep
  <2>5. CASE ResumeWait(t)
    <3>1. currentThread = t /\ kpc[t] = "Wait" /\ AcquireBody(t, karg[t], Reaped)
          /\ threadToBeDestroyed' = NoThread /\ karg[t] \in Locks
          /\ UNCHANGED <<condVars, semVars>>
      BY <2>5 DEF ResumeWait, Resumes, Reap, Inv, Places
    <3> QED BY <3>1, ReapedCleans, AcquireStep
  <2> QED BY <1>2, <2>1, <2>2, <2>3, <2>4, <2>5 DEF Resume
<1>3. ASSUME NEW s \in Semaphores, InterruptV(s) PROVE Inv'
  BY <1>3, VStep DEF InterruptV
<1>4. CASE IdleDispatch
  BY <1>4, IdleStep
<1>5. CASE UNCHANGED vars
  BY <1>5 DEF Inv, TypeOK, Places, Doomed, Sched, LockQueues, SemQueues, CondQueues,
              Ownership, vars, schedVars, lockVars, condVars, semVars
<1> QED BY <1>1, <1>2, <1>3, <1>4, <1>5 DEF Next

(* The inductive invariant holds in every reachable state.                 *)
THEOREM InvHolds == CleanLocks /\ Spec => []Inv
<1>1. CleanLocks /\ Init => Inv
  BY InitInv
<1>2. Inv /\ [Next]_vars => Inv'
  BY NextInv
<1> QED BY <1>1, <1>2, PTL DEF Spec

(* Every variable keeps its type: no routine stores a freed thread, a wrong
   object or a negative semaphore value.                                   *)
THEOREM TypeCorrect == CleanLocks /\ Spec => []TypeOK
<1>1. Inv => TypeOK
  BY DEF Inv
<1> QED BY <1>1, InvHolds, PTL

(* Lock and Condition give mutual exclusion, provided that a new Lock has no
   owner.                                                                  *)
THEOREM MutualExclusionHolds == CleanLocks /\ Spec => []MutualExclusion
<1>1. Inv => MutualExclusion
  BY DEF Inv, Ownership, MutualExclusion
<1> QED BY <1>1, InvHolds, PTL

(* All sleepers of a Condition gave up the lock it remembers.              *)
LEMMA InvOneLock == ASSUME Inv PROVE OneLockPerCondition
<1>1. \A c \in Conditions : Elements(condQueue[c]) \subseteq Threads
  BY DEF Inv, TypeOK, Elements
<1> QED BY <1>1 DEF Inv, OneLockPerCondition, CondQueues, Places

(* The lists that Inv describes are those NoThreadLost asks for.           *)
LEMMA InvLists == ASSUME Inv PROVE NoThreadLost
<1>1. \A q \in Seq(Threads) : Elements(q) \subseteq Threads
  BY DEF Elements
<1>2. /\ Elements(readyList) \subseteq Threads
      /\ \A l \in Locks : Elements(lockQueue[l]) \subseteq Threads
      /\ \A c \in Conditions : Elements(condQueue[c]) \subseteq Threads
      /\ \A s \in Semaphores : Elements(semQueue[s]) \subseteq Threads
  BY <1>1 DEF Inv, TypeOK
<1>3. QueuesSound
  BY <1>2 DEF Inv, QueuesSound, Sched, LockQueues, CondQueues, SemQueues
<1>4. NobodyForgotten
  <2> SUFFICES ASSUME NEW t \in Threads, status[t] = "BLOCKED"
               PROVE \/ kpc[t] = "finished"
                     \/ kpc[t] = "P" /\ t \in Elements(semQueue[karg[t]])
                     \/ kpc[t] = "Acquire" /\ t \in Elements(lockQueue[karg[t]])
                     \/ kpc[t] = "Wait" /\ \E c \in Conditions : t \in Elements(condQueue[c])
    BY DEF Inv, Sched, NobodyForgotten
  <2>1. kpc[t] \in {"P", "Acquire", "Wait", "finished"}
    BY DEF Inv, TypeOK, Places, KernelPlaces
  <2> QED BY <2>1 DEF Inv, Places, LockQueues, SemQueues, CondQueues
<1> QED BY <1>3, <1>4, InvOneLock DEF NoThreadLost

(* Every live thread is on exactly the list its status and its kernel
   routine name, and on a Condition's only if it gave up the lock the
   Condition remembers: Sleep(), ReadyToRun() and the queues of synch.cc
   neither lose a thread nor wake one twice.                               *)
THEOREM NoThreadLostHolds == CleanLocks /\ Spec => []NoThreadLost
<1>1. Inv => NoThreadLost
  BY InvLists
<1> QED BY <1>1, InvHolds, PTL

(* No barging, whatever the number of threads.                             *)
THEOREM HandoverInOrderHolds == CleanLocks /\ Spec => HandoverInOrder
<1> DEFINE A == \A l \in Locks :
                   lockQueue[l] # <<>> /\ threadWithPossession'[l] # threadWithPossession[l]
                   => threadWithPossession'[l] = Head(lockQueue[l])
<1>1. ASSUME Inv, [Next]_vars PROVE [A]_vars
  <2> SUFFICES ASSUME NEW l \in Locks, lockQueue[l] # <<>>,
                      threadWithPossession'[l] # threadWithPossession[l], Next
               PROVE  threadWithPossession'[l] = Head(lockQueue[l])
    BY <1>1 DEF vars, lockVars
  <2>1. threadWithPossession \in [Locks -> Threads \cup {NoThread}]
    BY <1>1 DEF Inv, TypeOK
  <2>2. ASSUME NEW k \in Locks, HandOver(k)
        PROVE  threadWithPossession'[l] = Head(lockQueue[l])
    BY <2>1, <2>2 DEF HandOver
  <2>3. ASSUME NEW t \in Threads, NEW k \in Locks, NEW st, AcquireBody(t, k, st)
        PROVE  FALSE
    BY <1>1, <2>1, <2>3 DEF AcquireBody, Inv, Ownership
  <2>4. ASSUME NEW t \in Threads, ThreadNext(t)
        PROVE  threadWithPossession'[l] = Head(lockQueue[l])
    <3>1. ASSUME NEW s \in Semaphores, P(t, s) \/ V(t, s) PROVE FALSE
      BY <3>1 DEF P, V, PBody, VBody, lockVars
    <3>2. ASSUME NEW k \in Locks, Acquire(t, k) PROVE FALSE
      BY <2>3, <3>2 DEF Acquire
    <3>3. ASSUME NEW k \in Locks, Release(t, k)
          PROVE  threadWithPossession'[l] = Head(lockQueue[l])
      BY <2>2, <3>3 DEF Release
    <3>4. ASSUME NEW c \in Conditions, NEW k \in Locks, Wait(t, c, k)
          PROVE  threadWithPossession'[l] = Head(lockQueue[l])
      BY <2>2, <3>4 DEF Wait
    <3>5. ASSUME NEW c \in Conditions, NEW k \in Locks,
                 WaitRejected(t, c, k) \/ Signal(t, c, k) \/ Broadcast(t, c, k)
          PROVE  FALSE
      BY <3>5 DEF WaitRejected, Signal, Broadcast, lockVars
    <3>6. ASSUME NEW u \in Threads, Fork(t, u) PROVE FALSE
      BY <3>6 DEF Fork, lockVars
    <3>7. Finish(t) \/ Yield(t) => FALSE
      BY DEF Finish, Yield, lockVars
    <3> QED BY <2>4, <3>1, <3>2, <3>3, <3>4, <3>5, <3>6, <3>7 DEF ThreadNext
  <2>5. ASSUME NEW t \in Threads, Resume(t) PROVE FALSE
    <3>1. CASE Start(t) \/ ResumeYield(t) \/ ResumeP(t) \/ ResumeAcquire(t)
      BY <3>1 DEF Start, ResumeYield, ResumeP, PBody, ResumeAcquire, lockVars
    <3>2. CASE ResumeWait(t)
      BY <1>1, <2>3, <3>2 DEF ResumeWait, Resumes, Inv, Places
    <3> QED BY <2>5, <3>1, <3>2 DEF Resume
  <2>6. ASSUME NEW s \in Semaphores, InterruptV(s) PROVE FALSE
    BY <2>6 DEF InterruptV, VBody, lockVars
  <2>7. IdleDispatch => FALSE
    BY DEF IdleDispatch, lockVars
  <2> QED BY <2>4, <2>5, <2>6, <2>7 DEF Next
<1>2. CleanLocks /\ Spec => [][A]_vars
  BY <1>1, InvHolds, PTL DEF Spec
<1> QED BY <1>2 DEF HandoverInOrder

(* Whoever returns from a sleep in Acquire() or Wait() owns the lock.      *)
THEOREM ReturnsOwningHolds == CleanLocks /\ Spec => ReturnsOwning
<1> DEFINE A == \A t \in Threads :
                   kpc[t] \in {"Acquire", "Wait"} /\ kpc'[t] = "user"
                   => threadWithPossession'[karg[t]] = t
<1>1. ASSUME Inv, [Next]_vars PROVE [A]_vars
  <2> SUFFICES ASSUME NEW t \in Threads, kpc[t] \in {"Acquire", "Wait"},
                      kpc'[t] = "user", Next
               PROVE  threadWithPossession'[karg[t]] = t
    BY <1>1 DEF vars, schedVars
  <2>2. kpc \in [Threads -> KernelPlaces]
    BY <1>1 DEF Inv, TypeOK
  <2>3. ASSUME NEW u \in Threads, ThreadNext(u) PROVE FALSE
    <3>1. ASSUME NEW s \in Semaphores, P(u, s) \/ V(u, s) PROVE FALSE
      BY <2>2, <3>1 DEF P, V, PBody, VBody, InUser, Sleep, Return
    <3>2. ASSUME NEW k \in Locks, Acquire(u, k) \/ Release(u, k) PROVE FALSE
      BY <2>2, <3>2 DEF Acquire, AcquireBody, Release, InUser, Sleep, Return
    <3>3. ASSUME NEW c \in Conditions, NEW k \in Locks,
                 \/ Wait(u, c, k) \/ WaitRejected(u, c, k)
                 \/ Signal(u, c, k) \/ Broadcast(u, c, k)
          PROVE  FALSE
      BY <2>2, <3>3 DEF Wait, WaitRejected, Signal, Broadcast, schedVars
    <3>4. ASSUME NEW v \in Threads, Fork(u, v) PROVE FALSE
      BY <3>4 DEF Fork
    <3>5. Finish(u) \/ Yield(u) => FALSE
      BY <2>2 DEF Finish, Yield, Sleep
    <3> QED BY <2>3, <3>1, <3>2, <3>3, <3>4, <3>5 DEF ThreadNext
  <2>4. ASSUME NEW u \in Threads, Resume(u) PROVE threadWithPossession'[karg[t]] = t
    <3>1. CASE Start(u) \/ ResumeYield(u) \/ ResumeP(u)
      BY <2>2, <3>1 DEF Start, ResumeYield, ResumeP, PBody, Resumes, Return, Sleep
    <3>2. CASE ResumeAcquire(u)
      <4>1. u = t
        BY <2>2, <3>2 DEF ResumeAcquire, Return
      <4> QED BY <1>1, <3>2, <4>1
              DEF ResumeAcquire, Resumes, Inv, Ownership, Sched
    <3>3. CASE ResumeWait(u)
      <4>1. u = t
        BY <2>2, <3>3 DEF ResumeWait, AcquireBody, Return, Sleep
      <4>2. karg[t] \in Locks
        BY <1>1 DEF Inv, Places
      <4>3. ~Sleep(t, "Acquire", karg[t], Reaped)
        BY <2>2 DEF Sleep
      <4>4. threadWithPossession \in [Locks -> Threads \cup {NoThread}]
        BY <1>1 DEF Inv, TypeOK
      <4> QED BY <3>3, <4>1, <4>2, <4>3, <4>4 DEF ResumeWait, AcquireBody
    <3> QED BY <2>4, <3>1, <3>2, <3>3 DEF Resume
  <2>5. ASSUME NEW s \in Semaphores, InterruptV(s) PROVE FALSE
    BY <2>5 DEF InterruptV, VBody
  <2>6. IdleDispatch => FALSE
    BY DEF IdleDispatch
  <2> QED BY <2>3, <2>4, <2>5, <2>6 DEF Next
<1>2. CleanLocks /\ Spec => [][A]_vars
  BY <1>1, InvHolds, PTL DEF Spec
<1> QED BY <1>2 DEF ReturnsOwning

-----------------------------------------------------------------------------
(* The units of a semaphore                                                *)

(* A thread that is READY or RUNNING according to status map st.           *)
Up(st, u) == st[u] \in {"READY", "RUNNING"}

(* Thread u keeps its place in P() and stays awake or asleep.              *)
SameInP(u) ==
    kpc[u] = "P" \/ kpc'[u] = "P" =>
        kpc'[u] = kpc[u] /\ karg'[u] = karg[u] /\ (Up(status', u) <=> Up(status, u))

(* A step in which nobody enters or leaves P() or is woken there keeps the
   set of the woken threads.                                               *)
LEMMA SameWoken ==
    ASSUME NEW s \in Semaphores, \A u \in Threads : SameInP(u)
    PROVE  Woken(s)' = Woken(s)
BY DEF SameInP, Up, Woken

(* Run() puts nobody to sleep.                                             *)
LEMMA RunKeepsUp ==
    ASSUME NEW rl \in Seq(Threads), NEW st \in [Threads -> Statuses],
           \A u \in Threads : u \in Elements(rl) => st[u] = "READY",
           Run(rl, st)
    PROVE  \A u \in Threads : Up(status', u) <=> Up(st, u)
<1>1. CASE rl = <<>>
  BY <1>1 DEF Run, Up
<1>2. CASE rl # <<>>
  <2>1. Head(rl) \in Threads /\ Head(rl) \in Elements(rl)
    BY <1>2, TailFacts
  <2>2. status' = [st EXCEPT ![Head(rl)] = "RUNNING"]
    BY <1>2 DEF Run
  <2> QED BY <2>1, <2>2 DEF Up
<1> QED BY <1>1, <1>2

(* Nor does Sleep(), but for its caller.                                   *)
LEMMA SleepKeepsUp ==
    ASSUME Inv, NEW t \in Threads, currentThread = t,
           NEW st, Cleaned(st), kpc[t] # "finished",
           NEW p \in KernelPlaces, NEW x \in Objects, Sleep(t, p, x, st)
    PROVE  /\ ~Up(status', t) /\ kpc'[t] = p /\ karg'[t] = x
           /\ \A u \in Threads \ {t} : SameInP(u)
<1>1. /\ status'[t] = "BLOCKED"
      /\ \A u \in Threads \ {t} :
            \/ status'[u] = st[u]
            \/ st[u] = "READY" /\ status'[u] = "RUNNING"
      /\ kpc'[t] = p /\ karg'[t] = x
      /\ \A u \in Threads \ {t} : kpc'[u] = kpc[u] /\ karg'[u] = karg[u]
  BY SleepFacts
<1>2. \A u \in Threads : kpc[u] = "P" => st[u] = status[u]
  BY DEF Cleaned
<1> QED BY <1>1, <1>2 DEF SameInP, Up

(* Nor Return().                                                           *)
LEMMA ReturnKeepsUp ==
    ASSUME Inv, NEW t \in Threads, NEW st, Cleaned(st), Return(t, st)
    PROVE  kpc'[t] = "user" /\ \A u \in Threads \ {t} : SameInP(u)
BY DEF Inv, TypeOK, Return, Cleaned, SameInP, Up

(* Acquire() and the end of Wait() do not change who is in P().            *)
LEMMA AcquireKeepsUp ==
    ASSUME Inv, NEW t \in Threads, currentThread = t, kpc[t] \in {"user", "Wait"},
           NEW st, Cleaned(st), NEW l \in Locks, AcquireBody(t, l, st)
    PROVE  \A u \in Threads : SameInP(u)
<1>1. CASE Return(t, st)
  BY <1>1, ReturnKeepsUp DEF SameInP
<1>2. CASE Sleep(t, "Acquire", l, st)
  <2>1. "Acquire" \in KernelPlaces /\ l \in Objects
    BY DEF KernelPlaces, Objects
  <2>2. /\ ~Up(status', t) /\ kpc'[t] = "Acquire" /\ karg'[t] = l
        /\ \A u \in Threads \ {t} : SameInP(u)
    BY <1>2, <2>1, SleepKeepsUp
  <2> QED BY <2>2 DEF SameInP
<1> QED BY <1>1, <1>2 DEF AcquireBody

(* Waking a thread that sleeps elsewhere does not either.                  *)
LEMMA WakeKeepsUp ==
    ASSUME Inv, NEW W \in SUBSET Threads, \A w \in W : kpc[w] # "P",
           \A u \in Threads \ W : status'[u] = status[u],
           UNCHANGED <<kpc, karg>>
    PROVE  \A u \in Threads : SameInP(u)
BY DEF SameInP, Up

(* The threads in the queue of a lock sleep in Acquire().                  *)
LEMMA HandOverKeepsUp ==
    ASSUME Inv, NEW l \in Locks
    PROVE  /\ ReadyAfter(l) \in Seq(Threads) /\ StatusAfter(l) \in [Threads -> Statuses]
           /\ \A u \in Threads : u \in Elements(ReadyAfter(l)) => StatusAfter(l)[u] = "READY"
           /\ \A u \in Threads : kpc[u] = "P" => StatusAfter(l)[u] = status[u]
           /\ \A u \in Threads : status[u] = "RUNNING" => StatusAfter(l)[u] = "RUNNING"
<1>1. CASE lockQueue[l] = <<>>
  BY <1>1 DEF ReadyAfter, StatusAfter, Inv, TypeOK, Sched
<1>2. CASE lockQueue[l] # <<>>
  <2>1. PICK w : w = Head(lockQueue[l])
    OBVIOUS
  <2>2. w \in Threads /\ w \in Elements(lockQueue[l])
    BY <1>2, <2>1, TailFacts DEF Inv, TypeOK
  <2>3. status[w] = "BLOCKED" /\ kpc[w] = "Acquire"
    BY <2>2 DEF Inv, LockQueues
  <2>4. ReadyAfter(l) = Append(readyList, w) /\ StatusAfter(l) = [status EXCEPT ![w] = "READY"]
    BY <1>2, <2>1 DEF ReadyAfter, StatusAfter
  <2>5. /\ Append(readyList, w) \in Seq(Threads)
        /\ Elements(Append(readyList, w)) = Elements(readyList) \cup {w}
        /\ [status EXCEPT ![w] = "READY"] \in [Threads -> Statuses]
    BY <2>2, <2>3, WakeFacts
  <2>6. status \in [Threads -> Statuses] /\ \A u \in Threads : u \in Elements(readyList) => status[u] = "READY"
    BY DEF Inv, TypeOK, Sched
  <2> QED BY <2>2, <2>3, <2>4, <2>5, <2>6
<1> QED BY <1>1, <1>2

(* Wait() wakes at most the next owner of the lock.                        *)
LEMMA WaitKeepsUp ==
    ASSUME Inv, NEW t \in Threads, NEW c \in Conditions, NEW l \in Locks, Wait(t, c, l)
    PROVE  \A u \in Threads : SameInP(u)
<1>1. PICK st : st = [StatusAfter(l) EXCEPT ![t] = "BLOCKED"]
  OBVIOUS
<1>2. PICK rl : rl = ReadyAfter(l)
  OBVIOUS
<1>3. /\ rl \in Seq(Threads) /\ StatusAfter(l) \in [Threads -> Statuses]
      /\ \A u \in Threads : u \in Elements(rl) => StatusAfter(l)[u] = "READY"
      /\ \A u \in Threads : kpc[u] = "P" => StatusAfter(l)[u] = status[u]
      /\ \A u \in Threads : status[u] = "RUNNING" => StatusAfter(l)[u] = "RUNNING"
  BY <1>2, HandOverKeepsUp
<1>4. status[t] = "RUNNING" /\ kpc[t] = "user"
  BY DEF Wait, InUser, Inv, Places
<1>5. /\ st \in [Threads -> Statuses]
      /\ \A u \in Threads \ {t} : st[u] = StatusAfter(l)[u]
      /\ t \notin Elements(rl)
  BY <1>1, <1>3, <1>4 DEF Statuses
<1>6. Run(rl, st) /\ kpc' = [kpc EXCEPT ![t] = "Wait"] /\ karg' = [karg EXCEPT ![t] = l]
  BY <1>1, <1>2 DEF Wait
<1>7. \A u \in Threads : Up(status', u) <=> Up(st, u)
  BY <1>3, <1>5, <1>6, RunKeepsUp
<1> QED BY <1>3, <1>4, <1>5, <1>6, <1>7 DEF SameInP, Up, Inv, TypeOK

(* The woken threads of each semaphore are countable.                      *)
LEMMA WokenCounts ==
    ASSUME IsFiniteSet(Threads), NEW s \in Semaphores
    PROVE  IsFiniteSet(Woken(s)) /\ Cardinality(Woken(s)) \in Nat
BY FS_Subset, FS_CardinalityType DEF Woken

(* A step that leaves the semaphores alone.                                *)
LEMMA UnitsQuiet ==
    ASSUME NoUnitStranded, UNCHANGED semVars, \A u \in Threads : SameInP(u)
    PROVE  NoUnitStranded'
<1> SUFFICES ASSUME NEW s \in Semaphores, semQueue'[s] # <<>>
             PROVE  value'[s] <= Cardinality(Woken(s)')
  BY DEF NoUnitStranded
<1>1. Woken(s)' = Woken(s)
  BY SameWoken
<1> QED BY <1>1 DEF NoUnitStranded, semVars

(* P(), from the program or from its loop.                                 *)
LEMMA UnitsP ==
    ASSUME IsFiniteSet(Threads), Inv, NoUnitStranded, NEW t \in Threads, currentThread = t,
           NEW s \in Semaphores, kpc[t] = "user" \/ (kpc[t] = "P" /\ karg[t] = s),
           NEW st, Cleaned(st), PBody(t, s, st)
    PROVE  NoUnitStranded'
<1> SUFFICES ASSUME NEW r \in Semaphores, semQueue'[r] # <<>>
             PROVE  value'[r] <= Cardinality(Woken(r)')
  BY DEF NoUnitStranded
<1>1. status[t] = "RUNNING" /\ value \in [Semaphores -> Nat] /\ semQueue \in [Semaphores -> Seq(Threads)]
  BY DEF Inv, TypeOK, Sched
<1>2. CASE /\ value[s] = 0
           /\ semQueue' = [semQueue EXCEPT ![s] = Append(@, t)]
           /\ Sleep(t, "P", s, st)
           /\ UNCHANGED value
  <2>1. "P" \in KernelPlaces /\ s \in Objects
    BY DEF KernelPlaces, Objects
  <2>2. /\ ~Up(status', t) /\ kpc'[t] = "P" /\ karg'[t] = s
        /\ \A u \in Threads \ {t} : SameInP(u)
    BY <1>2, <2>1, SleepKeepsUp
  <2>3. CASE r = s
    <3>1. Woken(s)' \subseteq Threads /\ value'[s] = 0
      BY <1>2 DEF Woken
    <3>2. IsFiniteSet(Woken(s)') /\ Cardinality(Woken(s)') \in Nat
      BY <3>1, FS_Subset, FS_CardinalityType
    <3> QED BY <2>3, <3>1, <3>2
  <2>4. CASE r # s
    <3>1. Woken(r)' = Woken(r)
      BY <2>2, <2>4 DEF SameInP, Up, Woken
    <3> QED BY <1>1, <1>2, <2>4, <3>1 DEF NoUnitStranded
  <2> QED BY <2>3, <2>4
<1>3. CASE /\ value[s] > 0
           /\ value' = [value EXCEPT ![s] = @ - 1]
           /\ Return(t, st)
           /\ UNCHANGED semQueue
  <2>1. kpc'[t] = "user" /\ \A u \in Threads \ {t} : SameInP(u)
    BY <1>3, ReturnKeepsUp
  <2>2. value[r] <= Cardinality(Woken(r))
    BY <1>3 DEF NoUnitStranded
  <2>3. IsFiniteSet(Woken(r)) /\ Cardinality(Woken(r)) \in Nat
    BY WokenCounts
  <2>4. CASE t \in Woken(r)
    <3>1. r = s /\ Woken(r)' = Woken(r) \ {t}
      BY <2>1, <2>4 DEF SameInP, Up, Woken
    <3>2. Cardinality(Woken(r) \ {t}) = Cardinality(Woken(r)) - 1
      BY <2>3, <2>4, FS_RemoveElement
    <3> QED BY <1>1, <1>3, <2>2, <2>3, <3>1, <3>2
  <2>5. CASE t \notin Woken(r)
    <3>1. Woken(r)' = Woken(r)
      BY <2>1, <2>5 DEF SameInP, Up, Woken
    <3> QED BY <1>1, <1>3, <2>2, <2>3, <3>1
  <2> QED BY <2>4, <2>5
<1> QED BY <1>2, <1>3 DEF PBody

(* V(), from a program or an interrupt handler.                            *)
LEMMA UnitsV ==
    ASSUME IsFiniteSet(Threads), Inv, NoUnitStranded, NEW s \in Semaphores, VBody(s)
    PROVE  NoUnitStranded'
<1> SUFFICES ASSUME NEW r \in Semaphores, semQueue'[r] # <<>>
             PROVE  value'[r] <= Cardinality(Woken(r)')
  BY DEF NoUnitStranded
<1>1. /\ value \in [Semaphores -> Nat] /\ semQueue \in [Semaphores -> Seq(Threads)]
      /\ value' = [value EXCEPT ![s] = @ + 1] /\ UNCHANGED <<kpc, karg>>
      /\ status \in [Threads -> Statuses]
  BY DEF Inv, TypeOK, VBody
<1>2. CASE semQueue[s] = <<>> /\ UNCHANGED <<semQueue, status>>
  <2>1. r # s
    BY <1>2
  <2>2. Woken(r)' = Woken(r)
    BY <1>1, <1>2 DEF Woken
  <2> QED BY <1>1, <1>2, <2>1, <2>2 DEF NoUnitStranded
<1>3. CASE /\ semQueue[s] # <<>>
           /\ semQueue' = [semQueue EXCEPT ![s] = Tail(@)]
           /\ status' = [status EXCEPT ![Head(semQueue[s])] = "READY"]
  <2>1. PICK w : w = Head(semQueue[s])
    OBVIOUS
  <2>2. w \in Threads /\ w \in Elements(semQueue[s])
    BY <1>1, <1>3, <2>1, TailFacts
  <2>3. status[w] = "BLOCKED" /\ kpc[w] = "P" /\ karg[w] = s
    BY <2>2 DEF Inv, SemQueues
  <2>4. CASE r = s
    <3>1. value[s] <= Cardinality(Woken(s))
      BY <1>3 DEF NoUnitStranded
    <3>2. w \notin Woken(s) /\ Woken(s)' = Woken(s) \cup {w}
      BY <1>1, <1>3, <2>1, <2>2, <2>3 DEF Woken
    <3>3. IsFiniteSet(Woken(s)) /\ Cardinality(Woken(s)) \in Nat
      BY WokenCounts
    <3>4. Cardinality(Woken(s) \cup {w}) = Cardinality(Woken(s)) + 1
      BY <3>2, <3>3, FS_AddElement
    <3> QED BY <1>1, <2>4, <3>1, <3>2, <3>3, <3>4
  <2>5. CASE r # s
    <3>1. Woken(r)' = Woken(r)
      BY <1>1, <1>3, <2>1, <2>2, <2>3, <2>5 DEF Woken
    <3> QED BY <1>1, <1>3, <2>5, <3>1 DEF NoUnitStranded
  <2> QED BY <2>4, <2>5
<1> QED BY <1>2, <1>3 DEF VBody

(* Every step of the kernel keeps the units within reach.                  *)
LEMMA NextUnits ==
    ASSUME IsFiniteSet(Threads), Inv, NoUnitStranded, [Next]_vars
    PROVE  NoUnitStranded'
<1>1. Cleaned(status) /\ Cleaned(Reaped)
  BY ReapedCleans
<1>2. ASSUME NEW t \in Threads, ThreadNext(t) PROVE NoUnitStranded'
  <2>1. ASSUME NEW u \in Threads, Fork(t, u) PROVE NoUnitStranded'
    <3>1. \A v \in Threads : SameInP(v)
      BY <2>1 DEF Fork, Inv, TypeOK, Places, SameInP, Up
    <3> QED BY <2>1, <3>1, UnitsQuiet DEF Fork
  <2>2. CASE Finish(t)
    <3>1. currentThread = t /\ kpc[t] = "user" /\ Sleep(t, "finished", NoLock, status)
          /\ "finished" \in KernelPlaces /\ NoLock \in Objects
      BY <2>2 DEF Finish, InUser, KernelPlaces, Objects
    <3>2. /\ ~Up(status', t) /\ kpc'[t] = "finished" /\ karg'[t] = NoLock
          /\ \A u \in Threads \ {t} : SameInP(u)
      BY <1>1, <3>1, SleepKeepsUp
    <3>3. \A u \in Threads : SameInP(u)
      BY <3>1, <3>2 DEF SameInP
    <3> QED BY <2>2, <3>3, UnitsQuiet DEF Finish
  <2>3. CASE Yield(t)
    <3>1. PICK st : st = [status EXCEPT ![t] = "READY"]
      OBVIOUS
    <3>2. PICK rl : rl = Append(readyList, t)
      OBVIOUS
    <3>3. kpc[t] = "user" /\ Run(rl, st) /\ kpc' = [kpc EXCEPT ![t] = "yield"] /\ karg' = karg
      BY <2>3, <3>1, <3>2 DEF Yield, InUser
    <3>4. rl \in Seq(Threads) /\ Elements(rl) = Elements(readyList) \cup {t}
      BY <3>2, AppendFacts DEF Inv, TypeOK
    <3>5. /\ st \in [Threads -> Statuses] /\ \A u \in Threads : u \in Elements(rl) => st[u] = "READY"
          /\ \A u \in Threads \ {t} : st[u] = status[u]
      BY <3>1, <3>4 DEF Inv, TypeOK, Sched, Statuses
    <3>6. \A u \in Threads : Up(status', u) <=> Up(st, u)
      BY <3>3, <3>4, <3>5, RunKeepsUp
    <3>7. \A u \in Threads : SameInP(u)
      BY <3>3, <3>5, <3>6 DEF SameInP, Up, Inv, TypeOK
    <3> QED BY <2>3, <3>7, UnitsQuiet DEF Yield
  <2>4. ASSUME NEW s \in Semaphores, P(t, s) PROVE NoUnitStranded'
    BY <1>1, <2>4, UnitsP DEF P, InUser
  <2>5. ASSUME NEW s \in Semaphores, V(t, s) PROVE NoUnitStranded'
    BY <2>5, UnitsV DEF V
  <2>6. ASSUME NEW l \in Locks, Acquire(t, l) PROVE NoUnitStranded'
    <3>1. \A u \in Threads : SameInP(u)
      BY <1>1, <2>6, AcquireKeepsUp DEF Acquire, InUser
    <3> QED BY <2>6, <3>1, UnitsQuiet DEF Acquire
  <2>7. ASSUME NEW l \in Locks, Release(t, l) PROVE NoUnitStranded'
    <3>1. status' = StatusAfter(l) /\ UNCHANGED <<kpc, karg>>
      BY <2>7 DEF Release
    <3>2. \A u \in Threads : kpc[u] = "P" => StatusAfter(l)[u] = status[u]
      BY HandOverKeepsUp
    <3>3. \A u \in Threads : SameInP(u)
      BY <3>1, <3>2 DEF SameInP, Up
    <3> QED BY <2>7, <3>3, UnitsQuiet DEF Release
  <2>8. ASSUME NEW c \in Conditions, NEW l \in Locks, WaitRejected(t, c, l) PROVE NoUnitStranded'
    <3>1. \A u \in Threads : SameInP(u)
      BY <2>8 DEF WaitRejected, schedVars, SameInP, Up
    <3> QED BY <2>8, <3>1, UnitsQuiet DEF WaitRejected
  <2>9. ASSUME NEW c \in Conditions, NEW l \in Locks, Wait(t, c, l) PROVE NoUnitStranded'
    <3>1. \A u \in Threads : SameInP(u)
      BY <2>9, WaitKeepsUp
    <3> QED BY <2>9, <3>1, UnitsQuiet DEF Wait
  <2>10. ASSUME NEW c \in Conditions, NEW l \in Locks, Signal(t, c, l) PROVE NoUnitStranded'
    <3>1. Head(condQueue[c]) \in Threads /\ Head(condQueue[c]) \in Elements(condQueue[c])
      BY <2>10, TailFacts DEF Signal, MayWake, Inv, TypeOK
    <3>2. kpc[Head(condQueue[c])] = "Wait"
      BY <3>1 DEF Inv, CondQueues
    <3>3. status' = [status EXCEPT ![Head(condQueue[c])] = "READY"] /\ UNCHANGED <<kpc, karg>>
      BY <2>10 DEF Signal
    <3>4. \A u \in Threads : SameInP(u)
      BY <3>1, <3>2, <3>3, {Head(condQueue[c])} \in SUBSET Threads, WakeKeepsUp DEF Inv, TypeOK
    <3> QED BY <2>10, <3>4, UnitsQuiet DEF Signal
  <2>11. ASSUME NEW c \in Conditions, NEW l \in Locks, Broadcast(t, c, l) PROVE NoUnitStranded'
    <3>1. \A u \in Threads : u \in Elements(condQueue[c]) => kpc[u] = "Wait"
      BY DEF Inv, CondQueues
    <3>2. /\ status' = [u \in Threads |-> IF u \in Elements(condQueue[c]) THEN "READY" ELSE status[u]]
          /\ UNCHANGED <<kpc, karg>>
      BY <2>11 DEF Broadcast
    <3>3. \A u \in Threads : SameInP(u)
      BY <3>1, <3>2 DEF SameInP, Up
    <3> QED BY <2>11, <3>3, UnitsQuiet DEF Broadcast
  <2> QED BY <1>2, <2>1, <2>2, <2>3, <2>4, <2>5, <2>6, <2>7, <2>8, <2>9, <2>10, <2>11
          DEF ThreadNext
<1>3. ASSUME NEW t \in Threads, Resume(t) PROVE NoUnitStranded'
  <2>1. CASE Start(t)
    <3>1. kpc[t] = "start" /\ Return(t, status) /\ UNCHANGED semVars
      BY <2>1 DEF Start, Resumes
    <3>2. \A u \in Threads : SameInP(u)
      BY <1>1, <3>1, ReturnKeepsUp DEF SameInP
    <3> QED BY <3>1, <3>2, UnitsQuiet
  <2>2. CASE ResumeYield(t)
    <3>1. kpc[t] = "yield" /\ Return(t, Reaped) /\ UNCHANGED semVars
      BY <2>2 DEF ResumeYield, Resumes
    <3>2. \A u \in Threads : SameInP(u)
      BY <1>1, <3>1, ReturnKeepsUp DEF SameInP
    <3> QED BY <3>1, <3>2, UnitsQuiet
  <2>3. CASE ResumeP(t)
    <3>1. currentThread = t /\ kpc[t] = "P" /\ karg[t] \in Semaphores /\ PBody(t, karg[t], Reaped)
      BY <2>3 DEF ResumeP, Resumes, Inv, Places
    <3> QED BY <1>1, <3>1, UnitsP
  <2>4. CASE ResumeAcquire(t)
    <3>1. kpc[t] = "Acquire" /\ Return(t, Reaped) /\ UNCHANGED semVars
      BY <2>4 DEF ResumeAcquire, Resumes
    <3>2. \A u \in Threads : SameInP(u)
      BY <1>1, <3>1, ReturnKeepsUp DEF SameInP
    <3> QED BY <3>1, <3>2, UnitsQuiet
  <2>5. CASE ResumeWait(t)
    <3>1. currentThread = t /\ kpc[t] = "Wait" /\ karg[t] \in Locks
          /\ AcquireBody(t, karg[t], Reaped) /\ UNCHANGED semVars
      BY <2>5 DEF ResumeWait, Resumes, Inv, Places
    <3>2. \A u \in Threads : SameInP(u)
      BY <1>1, <3>1, AcquireKeepsUp
    <3> QED BY <3>1, <3>2, UnitsQuiet
  <2> QED BY <1>3, <2>1, <2>2, <2>3, <2>4, <2>5 DEF Resume
<1>4. ASSUME NEW s \in Semaphores, InterruptV(s) PROVE NoUnitStranded'
  BY <1>4, UnitsV DEF InterruptV
<1>5. CASE IdleDispatch
  <2>1. /\ readyList \in Seq(Threads) /\ status \in [Threads -> Statuses]
        /\ \A u \in Threads : u \in Elements(readyList) => status[u] = "READY"
    BY DEF Inv, TypeOK, Sched
  <2>2. Run(readyList, status) /\ UNCHANGED <<kpc, karg, semVars>>
    BY <1>5 DEF IdleDispatch
  <2>3. \A u \in Threads : Up(status', u) <=> Up(status, u)
    BY <2>1, <2>2, RunKeepsUp
  <2>4. \A u \in Threads : SameInP(u)
    BY <2>2, <2>3 DEF SameInP
  <2> QED BY <2>2, <2>4, UnitsQuiet
<1>6. CASE UNCHANGED vars
  BY <1>6 DEF vars, schedVars, semVars, NoUnitStranded, Woken
<1> QED BY <1>2, <1>3, <1>4, <1>5, <1>6 DEF Next

(* P() and V() strand no unit: while threads queue on a semaphore, each unit
   has a woken thread on its way to take it, for any finite set of threads. *)
THEOREM NoUnitStrandedHolds ==
    ASSUME IsFiniteSet(Threads)
    PROVE  CleanLocks /\ Spec => []NoUnitStranded
<1>1. Init => NoUnitStranded
  BY DEF Init, NoUnitStranded
<1>2. Inv /\ NoUnitStranded /\ [Next]_vars => NoUnitStranded'
  BY NextUnits
<1> QED BY <1>1, <1>2, InvHolds, PTL DEF Spec
=============================================================================
