--------------------------- MODULE VirtualMemory ---------------------------
(***************************************************************************)
(* Demand paging: HandlePageFault, Evict and HandleIPTMiss of              *)
(* code/userprog/exception.cc, the TLB flush of AddrSpace::SaveState, the  *)
(* TLB lookup of machine/translate.cc, and what Exit_Syscall frees.        *)
(*                                                                         *)
(* The kernel can lose the CPU only where a routine turns interrupts on    *)
(* again: behind the Acquire() and Release() of pageTableLock and iptLock, *)
(* and inside Evict once the TLB was searched.  Each action runs from one  *)
(* such point to the next.  A context switch flushes the TLB.              *)
(*                                                                         *)
(* The contents of a page are the number of the last write to it.          *)
(***************************************************************************)
EXTENDS Integers, Sequences, FiniteSets

CONSTANTS
    Threads, Spaces,
    Space,           \* the address space of each thread
    ThreadID,        \* its number in its process, from 0
    Touches,         \* bound: the virtual pages each thread accesses
    NumExecPages,    \* numExecutablePages
    StackPages,      \* UserStackSize / PageSize
    NumThreads,      \* bound: MAX_THREADS, the stacks of an address space
    NumPhysPages, TLBSize, SwapSize,
    Policy,          \* evictionPolicy
    FreshFrame,      \* what the uninitialised physicalPage of an entry may hold
    MaxWrites,       \* bound: writes to one page
    Exits,           \* "never", "quiet" (no other thread in a fault) or "any"
    NoThread, NoSpace

Frames == 0 .. NumPhysPages - 1
Pages  == 0 .. NumExecPages + NumThreads * StackPages - 1
Slots  == 0 .. SwapSize - 1
NoFrame == -1

ASSUME VMAssumption ==
    /\ Space \in [Threads -> Spaces] /\ ThreadID \in [Threads -> 0 .. NumThreads - 1]
    /\ Touches \in [Threads -> SUBSET Pages]
    /\ {NumExecPages, StackPages, NumThreads, NumPhysPages, TLBSize, SwapSize} \subseteq Nat \ {0}
    /\ Policy \in {"FIFO", "RAND"} /\ Exits \in {"never", "quiet", "any"}
    /\ FreshFrame \in Frames \cup {NoFrame}
    /\ MaxWrites \in Nat
    /\ NoThread \notin Threads /\ NoSpace \notin Spaces

VARIABLES
    currentThread,
    tlb, currentTLB,
    IPT, mainMemoryBitmap, evictionList, iptLock,
    pageTable, pageTableLock,
    mainMemory, swapFile, swapMap,
    pc, vpn, ppn,     \* where a thread is in HandlePageFault, and its locals
    dead,             \* the machine hangs or aborts
    latest            \* history: number of the last write to each page

tlbVars   == <<tlb, currentTLB>>
frameVars == <<IPT, mainMemoryBitmap, evictionList, mainMemory>>
diskVars  == <<swapFile, swapMap>>
faultVars == <<pc, vpn, ppn>>
vars == <<currentThread, tlbVars, frameVars, iptLock, pageTable, pageTableLock,
          diskVars, faultVars, dead, latest>>

(* "scan": holds pageTableLock; "fill": found the page in memory; "alloc": did
   not; "evict": chose a victim, holds iptLock; "load": has a frame.        *)
Phases == {"user", "scan", "fill", "alloc", "evict", "load", "exited"}

Junk == <<>>                                   \* not the contents of any page
Data == {Junk} \cup (Spaces \X Pages \X (0 .. MaxWrites))

TLBEntries  == [valid : BOOLEAN, virtualPage : Pages, physicalPage : Frames, dirty : BOOLEAN]
(* The other fields of an invalid TLB entry are never read.                 *)
NoEntry == [valid |-> FALSE, virtualPage |-> 0, physicalPage |-> 0, dirty |-> FALSE]
IPTEntries  == [valid : BOOLEAN, use : BOOLEAN, dirty : BOOLEAN,
                space : Spaces \cup {NoSpace}, virtualPage : Pages]
PageEntries == [location : {"IN_EXECUTABLE", "IN_SWAP", "UNINIT"}, offset : Slots,
                physicalPage : Frames \cup {NoFrame}]

Elements(q) == {q[i] : i \in 1..Len(q)}
Lowest(S) == CHOOSE i \in S : \A j \in S : i <= j

(* new IPTEntry[] is not initialised either, but it is carved out of fresh,
   zeroed heap while Nachos starts.  The page table of a process starts
   behind its executable; uninitialised data count as stack here.           *)
Init ==
    /\ currentThread \in Threads
    /\ tlb = [i \in 0 .. TLBSize - 1 |-> NoEntry]
    /\ currentTLB = 0
    /\ IPT = [f \in Frames |-> [valid |-> FALSE, use |-> FALSE, dirty |-> FALSE,
                                space |-> NoSpace, virtualPage |-> 0]]
    /\ mainMemoryBitmap = {}
    /\ evictionList = <<>>
    /\ iptLock = NoThread
    /\ pageTable = [s \in Spaces |-> [v \in Pages |->
                      [location |-> IF v < NumExecPages THEN "IN_EXECUTABLE" ELSE "UNINIT",
                       offset |-> 0, physicalPage |-> FreshFrame]]]
    /\ pageTableLock = [s \in Spaces |-> NoThread]
    /\ mainMemory = [f \in Frames |-> Junk]
    /\ swapFile = [k \in Slots |-> Junk]
    /\ swapMap = {}
    /\ pc = [t \in Threads |-> "user"]
    /\ vpn = [t \in Threads |-> 0]
    /\ ppn = [t \in Threads |-> NoFrame]
    /\ dead = FALSE
    /\ latest = [s \in Spaces |-> [v \in Pages |-> IF v < NumExecPages THEN 0 ELSE -1]]

At(t, p) == ~dead /\ currentThread = t /\ pc[t] = p
MySpace(t) == Space[t]

-----------------------------------------------------------------------------
(* User instructions and context switches                                  *)

(* Machine::Translate: the first valid entry for the page.                  *)
Hits(v) == {i \in DOMAIN tlb : tlb[i].valid /\ tlb[i].virtualPage = v}

(* A store through the TLB; a load changes nothing.                         *)
Write(t, v) ==
    LET i == Lowest(Hits(v))
        s == MySpace(t)
    IN /\ At(t, "user") /\ v \in Touches[t]
       /\ Hits(v) # {}
       /\ latest[s][v] < MaxWrites
       /\ tlb' = [tlb EXCEPT ![i].dirty = TRUE]
       /\ latest' = [latest EXCEPT ![s][v] = @ + 1]
       /\ mainMemory' = [mainMemory EXCEPT ![tlb[i].physicalPage] = <<s, v, latest[s][v] + 1>>]
       /\ UNCHANGED <<currentThread, currentTLB, IPT, mainMemoryBitmap, evictionList,
                      iptLock, pageTable, pageTableLock, diskVars, faultVars, dead>>

(* The IPT with the dirty bits of the valid TLB entries in E.               *)
WrittenBack(I, E) ==
    [f \in Frames |->
        IF \E i \in E : tlb[i].valid /\ tlb[i].physicalPage = f
        THEN [I[f] EXCEPT !.dirty = \E i \in E : /\ tlb[i].valid /\ tlb[i].dirty
                                                 /\ tlb[i].physicalPage = f]
        ELSE I[f]]

(* Deviation: a context switch leaves the TLB alone.                        *)
FlushedNot(T) == tlb

Flushed(T) == [i \in DOMAIN tlb |-> NoEntry]

(* Scheduler::Run: SaveState of the old thread's address space.             *)
Switch(u) ==
    /\ ~dead
    /\ u # currentThread /\ pc[u] # "exited"
    /\ currentThread' = u
    /\ IPT' = WrittenBack(IPT, DOMAIN tlb)
    /\ tlb' = Flushed(tlb)
    /\ UNCHANGED <<currentTLB, mainMemoryBitmap, evictionList, mainMemory, iptLock,
                   pageTable, pageTableLock, diskVars, faultVars, dead, latest>>

-----------------------------------------------------------------------------
(* HandlePageFault                                                         *)

Fault(t, v) ==
    /\ At(t, "user") /\ v \in Touches[t]
    /\ Hits(v) = {}
    /\ pageTableLock[MySpace(t)] = NoThread
    /\ pageTableLock' = [pageTableLock EXCEPT ![MySpace(t)] = t]
    /\ pc' = [pc EXCEPT ![t] = "scan"]
    /\ vpn' = [vpn EXCEPT ![t] = v]
    /\ UNCHANGED <<currentThread, tlbVars, frameVars, iptLock, pageTable, diskVars,
                   ppn, dead, latest>>

(* Deviation: the search starts at frame 1.                                 *)
InMemoryFromOne(t) ==
    {f \in Frames \ {0} : /\ IPT[f].valid /\ ~IPT[f].use
                          /\ IPT[f].virtualPage = vpn[t] /\ IPT[f].space = MySpace(t)}

(* The frames the search of the inverted page table accepts.                *)
InMemory(t) ==
    {f \in Frames : /\ IPT[f].valid /\ ~IPT[f].use
                    /\ IPT[f].virtualPage = vpn[t] /\ IPT[f].space = MySpace(t)}

Scan(t) ==
    /\ At(t, "scan")
    /\ iptLock = NoThread
    /\ IF InMemory(t) # {}
       THEN LET f == Lowest(InMemory(t)) IN
            /\ IPT' = [IPT EXCEPT ![f].use = TRUE]
            /\ ppn' = [ppn EXCEPT ![t] = f]
            /\ pc' = [pc EXCEPT ![t] = "fill"]
       ELSE /\ pc' = [pc EXCEPT ![t] = "alloc"]
            /\ UNCHANGED <<IPT, ppn>>
    /\ UNCHANGED <<currentThread, tlbVars, mainMemoryBitmap, evictionList, mainMemory, iptLock,
                   pageTable, pageTableLock, diskVars, vpn, dead, latest>>

(* mainMemoryBitmap->Find() succeeds.                                       *)
TakeFree(t) ==
    LET f == Lowest(Frames \ mainMemoryBitmap) IN
    /\ At(t, "alloc")
    /\ iptLock = NoThread
    /\ mainMemoryBitmap # Frames
    /\ mainMemoryBitmap' = mainMemoryBitmap \cup {f}
    /\ IPT' = [IPT EXCEPT ![f].use = TRUE]
    /\ ppn' = [ppn EXCEPT ![t] = f]
    /\ pc' = [pc EXCEPT ![t] = "load"]
    /\ UNCHANGED <<currentThread, tlbVars, evictionList, mainMemory, iptLock,
                   pageTable, pageTableLock, diskVars, vpn, dead, latest>>

(* Evict()'s loop over evictionList: frames in use go to the back.  The
   first one that is not is the victim.                                     *)
FirstUnused == Lowest({k \in 1..Len(evictionList) : ~IPT[evictionList[k]].use})
Rotated == SubSeq(evictionList, FirstUnused + 1, Len(evictionList))
           \o SubSeq(evictionList, 1, FirstUnused - 1)

(* Deviation: frames in use are not spared.                                 *)
VictimsInUse == Frames

(* Deviation: only the first frame of the list is tried.                    *)
VictimsFirst == {evictionList[k] : k \in {j \in 1..Len(evictionList) :
                                            j = 1 /\ ~IPT[evictionList[j]].use}}

(* The frames the policy may pick.                                          *)
Victims == IF Policy = "RAND" THEN {f \in Frames : ~IPT[f].use}
           ELSE IF \A k \in 1..Len(evictionList) : IPT[evictionList[k]].use THEN {}
           ELSE {evictionList[FirstUnused]}

(* Evict() up to its switch point, and with no victim: the loop never ends
   or takes a NULL from the empty list.  The dirty bit of the TLB entry is
   kept only if the entry at currentTLB is valid.                           *)
ChooseVictim(t) ==
    /\ At(t, "alloc")
    /\ iptLock = NoThread
    /\ mainMemoryBitmap = Frames
    /\ \/ /\ Victims = {}
          /\ dead' = TRUE
          /\ UNCHANGED <<tlb, IPT, evictionList, iptLock, ppn, pc>>
       \/ \E f \in Victims :
             LET E == {i \in DOMAIN tlb : tlb[i].physicalPage = f /\ tlb[i].valid}
                 I == [IPT EXCEPT ![f].use = TRUE]
             IN /\ evictionList' = IF Policy = "RAND" THEN evictionList ELSE Rotated
                /\ IPT' = IF tlb[currentTLB].valid THEN WrittenBack(I, E) ELSE I
                /\ tlb' = [i \in DOMAIN tlb |->
                             IF i \in E THEN NoEntry ELSE tlb[i]]
                /\ iptLock' = t
                /\ ppn' = [ppn EXCEPT ![t] = f]
                /\ pc' = [pc EXCEPT ![t] = "evict"]
                /\ UNCHANGED dead
    /\ UNCHANGED <<currentThread, currentTLB, mainMemoryBitmap, mainMemory, pageTable,
                   pageTableLock, diskVars, vpn, latest>>

(* The swap slot of a dirty page: its own if it has one.                    *)
Slot(e) == IF e.location = "IN_SWAP" THEN e.offset ELSE Lowest(Slots \ swapMap)

(* Deviation: nothing is saved and iptLock is kept.                         *)
WriteOutKeepsLock(t) ==
    /\ At(t, "evict")
    /\ pc' = [pc EXCEPT ![t] = "load"]
    /\ UNCHANGED <<currentThread, tlbVars, frameVars, iptLock, pageTable, pageTableLock, diskVars,
                   vpn, ppn, dead, latest>>

(* The rest of Evict(): a dirty page goes to the swap file.  Writing with no
   slot left aborts.                                                        *)
WriteOut(t) ==
    LET f == ppn[t]
        s == IPT[f].space
        v == IPT[f].virtualPage
        e == pageTable[s][v]
    IN /\ At(t, "evict")
       /\ \/ /\ ~IPT[f].dirty
             /\ iptLock' = NoThread
             /\ pc' = [pc EXCEPT ![t] = "load"]
             /\ UNCHANGED <<swapFile, swapMap, pageTable, dead>>
          \/ /\ IPT[f].dirty
             /\ e.location # "IN_SWAP" /\ swapMap = Slots
             /\ dead' = TRUE
             /\ UNCHANGED <<iptLock, pc, swapFile, swapMap, pageTable>>
          \/ /\ IPT[f].dirty
             /\ e.location = "IN_SWAP" \/ swapMap # Slots
             /\ swapFile' = [swapFile EXCEPT ![Slot(e)] = mainMemory[f]]
             /\ swapMap' = swapMap \cup {Slot(e)}
             /\ pageTable' = [pageTable EXCEPT ![s][v].location = "IN_SWAP",
                                               ![s][v].offset = Slot(e)]
             /\ iptLock' = NoThread
             /\ pc' = [pc EXCEPT ![t] = "load"]
             /\ UNCHANGED dead
       /\ UNCHANGED <<currentThread, tlbVars, frameVars, pageTableLock, vpn, ppn, latest>>

NextTLB(i) == (i + 1) % TLBSize

Unused(J, f) == [J EXCEPT ![f].use = FALSE]

(* The end of HandlePageFault, with interrupts off: the TLB entry that is
   replaced gives its dirty bit to I, frame f enters the TLB.               *)
FillTLB(t, f, I) ==
    LET J == IF tlb[currentTLB].valid THEN WrittenBack(I, {currentTLB}) ELSE I
    IN /\ tlb' = [tlb EXCEPT ![currentTLB] =
                    [valid |-> TRUE, virtualPage |-> J[f].virtualPage, physicalPage |-> f,
                     dirty |-> J[f].dirty]]
       /\ currentTLB' = NextTLB(currentTLB)
       /\ IPT' = Unused(J, f)
       /\ pageTableLock' = [pageTableLock EXCEPT ![MySpace(t)] = NoThread]
       /\ pc' = [pc EXCEPT ![t] = "user"]
       /\ ppn' = [ppn EXCEPT ![t] = NoFrame]
       /\ vpn' = [vpn EXCEPT ![t] = 0]

Fill(t) ==
    /\ At(t, "fill")
    /\ FillTLB(t, ppn[t], IPT)
    /\ UNCHANGED <<currentThread, mainMemoryBitmap, evictionList, mainMemory, iptLock,
                   pageTable, diskVars, dead, latest>>

(* Deviation: every page but one never touched comes from the executable.   *)
FetchedFromExecutable(s, v) ==
    IF pageTable[s][v].location = "UNINIT" THEN Junk ELSE <<s, v, 0>>

(* What is in a frame after HandleIPTMiss for page v of space s; UNINIT: what
   some other page left there.                                              *)
Fetched(s, v) ==
    LET e == pageTable[s][v] IN
    CASE e.location = "IN_EXECUTABLE" -> <<s, v, 0>>
      [] e.location = "IN_SWAP"       -> swapFile[e.offset]
      [] e.location = "UNINIT"        -> Junk

(* HandleIPTMiss and, without a switch point between them, FillTLB.         *)
Load(t) ==
    LET s == MySpace(t)
        v == vpn[t]
        f == ppn[t]
        isNew == pageTable[s][v].location = "UNINIT"
    IN /\ At(t, "load")
       /\ mainMemory' = [mainMemory EXCEPT ![f] = Fetched(s, v)]
       /\ evictionList' = IF Policy = "FIFO" THEN Append(evictionList, f) ELSE evictionList
       /\ pageTable' = [pageTable EXCEPT ![s][v].physicalPage = f]
       /\ FillTLB(t, f, [IPT EXCEPT ![f] = [valid |-> TRUE, use |-> IPT[f].use, dirty |-> isNew,
                                            space |-> s, virtualPage |-> v]])
       /\ UNCHANGED <<currentThread, mainMemoryBitmap, iptLock, diskVars, dead, latest>>

-----------------------------------------------------------------------------
(* Exit                                                                    *)

Others(t) == {u \in Threads \ {t} : pc[u] # "exited"}
InFault(u) == pc[u] \notin {"user", "exited"}

MayExit(t) ==
    /\ At(t, "user")
    /\ iptLock = NoThread
    /\ \E u \in Others(t) : Space[u] # Space[t]     \* otherwise the machine halts
    /\ \/ Exits = "any"
       \/ Exits = "quiet" /\ \A u \in Others(t) : ~InFault(u)

(* Deviation: the bit map is left alone.                                    *)
ClearedNot(F) == mainMemoryBitmap

Cleared(F) == mainMemoryBitmap \ F

(* The frames in F leave the inverted page table and the bit map.           *)
Drop(t, F) ==
    /\ IPT' = [f \in Frames |-> IF f \in F THEN [IPT[f] EXCEPT !.valid = FALSE, !.use = FALSE]
                                ELSE IPT[f]]
    /\ mainMemoryBitmap' = Cleared(F)
    /\ pc' = [pc EXCEPT ![t] = "exited"]
    /\ UNCHANGED <<currentThread, tlbVars, evictionList, mainMemory, iptLock, pageTable,
                   pageTableLock, diskVars, vpn, ppn, dead, latest>>

(* The last thread of a process frees every frame the IPT gives to it.      *)
ExitProcess(t) ==
    /\ MayExit(t)
    /\ \A u \in Others(t) : Space[u] # Space[t]
    /\ Drop(t, {f \in Frames : IPT[f].space = Space[t]})

(* threadStacks[]: one page behind the thread's own stack.                  *)
LastStackPage(t) == NumExecPages + (ThreadID[t] + 1) * StackPages

(* Any other thread frees the frames that pages lastStackPage, ...,
   lastStackPage - 7 were last loaded into.                                 *)
ExitThread(t) ==
    LET freed == {pageTable[Space[t]][v].physicalPage :
                     v \in Pages \cap (LastStackPage(t) - StackPages + 1 .. LastStackPage(t))}
    IN /\ MayExit(t)
       /\ \E u \in Others(t) : Space[u] = Space[t]
       /\ Drop(t, {f \in Frames \cap freed :
                     IPT[f].valid /\ ~IPT[f].use /\ IPT[f].space = Space[t]})

-----------------------------------------------------------------------------
FaultStep(t) == Scan(t) \/ TakeFree(t) \/ ChooseVictim(t) \/ WriteOut(t) \/ Load(t) \/ Fill(t)

ThreadNext(t) ==
    \/ Switch(t)
    \/ \E v \in Pages : Write(t, v) \/ Fault(t, v)
    \/ FaultStep(t)
    \/ ExitProcess(t) \/ ExitThread(t)

Next == \E t \in Threads : ThreadNext(t)

Spec == Init /\ [][Next]_vars

(* The timer and the FIFO ready list run every thread again and again; a
   thread that waits for iptLock is in its queue and gets it in turn.       *)
Fairness ==
    \A t \in Threads :
        /\ WF_vars(Switch(t))
        /\ SF_vars(Switch(t) /\ pc[t] \in {"scan", "alloc"} /\ iptLock = NoThread)
        /\ SF_vars(FaultStep(t))

FairSpec == Spec /\ Fairness


-----------------------------------------------------------------------------
TypeOK ==
    /\ currentThread \in Threads
    /\ tlb \in [0 .. TLBSize - 1 -> TLBEntries] /\ currentTLB \in 0 .. TLBSize - 1
    /\ IPT \in [Frames -> IPTEntries] /\ mainMemoryBitmap \subseteq Frames
    /\ evictionList \in Seq(Frames)
    /\ iptLock \in Threads \cup {NoThread}
    /\ pageTable \in [Spaces -> [Pages -> PageEntries]]
    /\ pageTableLock \in [Spaces -> Threads \cup {NoThread}]
    /\ mainMemory \in [Frames -> Data] /\ swapFile \in [Slots -> Data] /\ swapMap \subseteq Slots
    /\ pc \in [Threads -> Phases] /\ vpn \in [Threads -> Pages]
    /\ ppn \in [Threads -> Frames \cup {NoFrame}]
    /\ dead \in BOOLEAN
    /\ latest \in [Spaces -> [Pages -> -1 .. MaxWrites]]

Live(t) == pc[t] # "exited"

(* The frames with page v of space s, but for those already given away.     *)
Holding(s, v) ==
    {f \in Frames : /\ IPT[f].valid /\ IPT[f].space = s /\ IPT[f].virtualPage = v
                    /\ \A t \in Threads : ~(pc[t] = "load" /\ ppn[t] = f)}

Dirty(f) ==
    LET E == {i \in DOMAIN tlb : tlb[i].valid /\ tlb[i].physicalPage = f}
    IN IF E = {} THEN IPT[f].dirty ELSE \E i \in E : tlb[i].dirty

(* Two threads in HandlePageFault never work on the same frame: the use bit
   set under iptLock still reserves the frame once the lock is released.    *)
OneLoaderPerFrame ==
    \A t, u \in Threads :
        t # u /\ InFault(t) /\ InFault(u) /\ ppn[t] # NoFrame => ppn[t] # ppn[u]

(* The bit map marks the frames that hold a page or are about to: Exit gives
   back every frame of the process, and none that is still used.            *)
BitmapExact ==
    \A f \in Frames : f \in mainMemoryBitmap <=>
        IPT[f].valid \/ \E t \in Threads : InFault(t) /\ ppn[t] = f

(* HandlePageFault never brings a page into a second frame while a first one
   still holds it: writes would go to one copy, reads to the other.         *)
OneFramePerPage ==
    \A s \in Spaces, v \in Pages : Cardinality(Holding(s, v)) <= 1

(* The running thread reaches through the TLB only the frames that hold its
   own pages: Evict and the flush of SaveState leave no translation of a page
   that is gone, or of another process, behind.                             *)
TranslationsOwn ==
    Live(currentThread) =>
    \A i \in DOMAIN tlb : tlb[i].valid =>
        tlb[i].physicalPage \in Holding(MySpace(currentThread), tlb[i].virtualPage)

(* What has ever been in page v of space s.  The first contents of a page
   that is not part of the executable are not its own.                      *)
Versions(s, v) ==
    {<<s, v, k>> : k \in 0 .. latest[s][v]} \cup (IF v < NumExecPages THEN {} ELSE {Junk})

(* Evict and HandleIPTMiss never mix up pages: what a live process finds in a
   frame that holds its page, and what HandleIPTMiss would bring there from
   the executable or the swap file, was once written to that very page.     *)
PagesNotMixed ==
    \A t \in Threads : Live(t) =>
    \A v \in Pages :
        /\ Fetched(MySpace(t), v) \in Versions(MySpace(t), v)
        /\ \A f \in Holding(MySpace(t), v) : mainMemory[f] \in Versions(MySpace(t), v)

(* "otherwise, on eviction from memory we wouldn't know if page has been
   modified": what a live thread's process wrote to a page is in the frame
   that holds the page, and Evict will know that it has to save it; or else it
   is where HandleIPTMiss will look.                                        *)
WrittenDataSurvives ==
    \A t \in Threads : Live(t) =>
    \A v \in Touches[t] :
        LET s   == MySpace(t)
            now == <<s, v, latest[s][v]>>
        IN latest[s][v] >= 0 =>
              /\ Holding(s, v) = {} => Fetched(s, v) = now
              /\ \A f \in Holding(s, v) :
                    mainMemory[f] = now /\ (Dirty(f) \/ Fetched(s, v) = now)

(* The machine stops only when every frame is being worked on, or the swap
   file is full: Evict's search gives up on no other account.               *)
StopsOnlyWhenFull == dead => (\A f \in Frames : IPT[f].use) \/ swapMap = Slots

(* A thread that faults gets back to its program, whoever else faults, as
   long as the machine does not stop.                                       *)
FaultsEnd == \A t \in Threads : InFault(t) ~> (pc[t] = "user" \/ dead)
=============================================================================
