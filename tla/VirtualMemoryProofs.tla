------------------------ MODULE VirtualMemoryProofs ------------------------
(***************************************************************************)
(* Proofs about VirtualMemory for any number of threads, address spaces,   *)
(* pages, frames and TLB entries and for both eviction policies, where no  *)
(* thread exits while another is in a page fault (Exits # "any").          *)
(*                                                                         *)
(* The use bit of a frame is what protects it once iptLock is released: it *)
(* is set exactly while one thread works on the frame.  The lock of the    *)
(* page table keeps a second thread of a process from looking for a page   *)
(* that a first one did not find.                                          *)
(***************************************************************************)
EXTENDS VirtualMemory, FiniteSetTheorems, WellFoundedInduction, TLAPS

(* Where a thread is says which frame it works on and which locks it holds. *)
Place(t) ==
    /\ pc[t] \in {"fill", "evict", "load"} => ppn[t] \in Frames /\ IPT[ppn[t]].use
    /\ pc[t] \notin {"fill", "evict", "load"} => ppn[t] = NoFrame
    /\ pc[t] \in {"fill", "evict"} => IPT[ppn[t]].valid
    /\ pc[t] = "fill" => IPT[ppn[t]].space = Space[t] /\ IPT[ppn[t]].virtualPage = vpn[t]
    /\ pc[t] = "evict" <=> iptLock = t
    /\ InFault(t) <=> pageTableLock[Space[t]] = t

Places == \A t \in Threads : Place(t)

(* A frame in use is worked on, and one that holds a page knows whose.      *)
FramesKnown ==
    \A f \in Frames :
        /\ IPT[f].use => \E t \in Threads : ppn[t] = f
        /\ IPT[f].valid => IPT[f].space \in Spaces

(* No two threads work on one frame, and the bit map marks the frames that
   are worked on or hold a page.                                            *)
Owners == \A t, u \in Threads : t # u /\ ppn[t] # NoFrame => ppn[t] # ppn[u]

Marked ==
    \A f \in Frames : f \in mainMemoryBitmap <=> IPT[f].valid \/ \E t \in Threads : ppn[t] = f

(* No page is in two frames, and a page that a thread is about to load is in
   none.                                                                    *)
OneCopy ==
    /\ \A s \in Spaces, v \in Pages : \A f, g \in Holding(s, v) : f = g
    /\ \A t \in Threads : pc[t] \in {"alloc", "evict", "load"} => Holding(Space[t], vpn[t]) = {}

(* FIFO: the frames that Evict may take are on its list.                    *)
Listed ==
    Policy = "FIFO" => \A f \in Frames :
        IPT[f].valid /\ (\A t \in Threads : ppn[t] = f => pc[t] = "fill")
        => f \in Elements(evictionList)

(* The TLB names no frame that Evict is taking away.                        *)
NotTaken ==
    Live(currentThread) =>
    \A i \in DOMAIN tlb, t \in Threads : tlb[i].valid /\ pc[t] = "evict" => tlb[i].physicalPage # ppn[t]

Inv == /\ TypeOK /\ Places /\ FramesKnown /\ Owners /\ Marked
       /\ OneCopy /\ Listed /\ TranslationsOwn /\ NotTaken /\ StopsOnlyWhenFull

(* What is in a frame, and in a slot of the swap file, was written to the page
   that the inverted page table, or a page table, has there.                *)
ContentsOwn ==
    \A f \in Frames : IPT[f].valid => mainMemory[f] \in Versions(IPT[f].space, IPT[f].virtualPage)

SlotsOwn ==
    \A s \in Spaces, v \in Pages :
        /\ pageTable[s][v].location = "IN_EXECUTABLE" => v < NumExecPages
        /\ pageTable[s][v].location = "UNINIT" => ~(v < NumExecPages)
        /\ v < NumExecPages => latest[s][v] >= 0
        /\ pageTable[s][v].location = "IN_SWAP" =>
              pageTable[s][v].offset \in swapMap /\ swapFile[pageTable[s][v].offset] \in Versions(s, v)

(* No two pages have the same slot.                                         *)
SlotsApart ==
    \A s, r \in Spaces : \A v, w \in Pages :
        /\ pageTable[s][v].location = "IN_SWAP" /\ pageTable[r][w].location = "IN_SWAP"
        /\ pageTable[s][v].offset = pageTable[r][w].offset
        => s = r /\ v = w

DataInv == ContentsOwn /\ SlotsOwn /\ SlotsApart

-----------------------------------------------------------------------------
(* Facts about the operators                                                *)

(* What the constants are.                                                  *)
LEMMA Constants ==
    /\ Frames \subseteq Nat /\ Slots \subseteq Nat /\ Pages \subseteq Nat /\ NoFrame \notin Frames
    /\ 0 \in Frames /\ 0 \in Slots /\ 0 \in Pages /\ 0 \in 0 .. TLBSize - 1 /\ 0 .. TLBSize - 1 \subseteq Nat
    /\ TLBSize \in Nat \ {0} /\ MaxWrites \in Nat /\ FreshFrame \in Frames \cup {NoFrame}
    /\ NoThread \notin Threads /\ NoSpace \notin Spaces
    /\ Space \in [Threads -> Spaces] /\ Touches \in [Threads -> SUBSET Pages]
<1>1. {NumExecPages, StackPages, NumThreads, NumPhysPages, TLBSize, SwapSize} \subseteq Nat \ {0}
  BY VMAssumption
<1>2. \A b, c \in Nat : b * c \in Nat
  OBVIOUS
<1>3. NumThreads * StackPages \in Nat
  BY <1>1, <1>2
<1>4. Pages \subseteq Nat /\ 0 \in Pages
  <2> DEFINE m == NumThreads * StackPages
  <2>1. Pages = 0 .. NumExecPages + m - 1
    BY Zenon DEF Pages
  <2>2. m \in Nat /\ NumExecPages \in Nat \ {0}
    BY <1>1, <1>3
  <2> HIDE DEF m
  <2> QED BY <2>1, <2>2
<1>5. Frames \subseteq Nat /\ Slots \subseteq Nat /\ NoFrame \notin Frames /\ 0 \in Frames /\ 0 \in Slots
      /\ 0 \in 0 .. TLBSize - 1 /\ 0 .. TLBSize - 1 \subseteq Nat
  BY <1>1 DEF Frames, Slots, NoFrame
<1> QED BY <1>1, <1>4, <1>5, VMAssumption

(* The lowest number of a nonempty set is one of its numbers.               *)
LEMMA LowestIn ==
    ASSUME NEW S \in SUBSET Nat, S # {}
    PROVE  Lowest(S) \in S /\ \A m \in S : Lowest(S) <= m
<1> DEFINE R == OpToRel(<, Nat)
<1>1. IsWellFoundedOn(R, Nat)
  BY NatLessThanWellFounded
<1>2. \A m, n \in Nat : m < n => <<m, n>> \in R
  BY DEF OpToRel
<1> HIDE DEF R
<1>3. PICK n \in S : \A m \in S : ~ (<<m, n>> \in R)
  BY <1>1, WFMin
<1>4. \A m \in S : m \in Nat /\ n \in Nat /\ ~ (m < n)
  BY <1>2, <1>3
<1>5. \A m \in S : n <= m
  BY <1>4
<1> QED BY <1>5 DEF Lowest

(* All of an entry of the inverted page table but its dirty bit.            *)
SameFrame(J, I, f) ==
    /\ J[f].valid = I[f].valid /\ J[f].use = I[f].use
    /\ J[f].space = I[f].space /\ J[f].virtualPage = I[f].virtualPage

(* Writing dirty bits back changes only dirty bits.                         *)
LEMMA WrittenBackFacts ==
    ASSUME NEW I \in [Frames -> IPTEntries], NEW E
    PROVE  /\ WrittenBack(I, E) \in [Frames -> IPTEntries]
           /\ \A f \in Frames : SameFrame(WrittenBack(I, E), I, f)
<1>1. ASSUME NEW e \in IPTEntries, NEW b \in BOOLEAN
      PROVE  /\ [e EXCEPT !.dirty = b] \in IPTEntries
             /\ [e EXCEPT !.dirty = b].valid = e.valid /\ [e EXCEPT !.dirty = b].use = e.use
             /\ [e EXCEPT !.dirty = b].space = e.space
             /\ [e EXCEPT !.dirty = b].virtualPage = e.virtualPage
  BY DEF IPTEntries
<1> DEFINE D(f) == \E i \in E : tlb[i].valid /\ tlb[i].dirty /\ tlb[i].physicalPage = f
<1>2. ASSUME NEW f \in Frames
      PROVE  /\ WrittenBack(I, E)[f] \in IPTEntries
             /\ SameFrame(WrittenBack(I, E), I, f)
  <2>1. \/ WrittenBack(I, E)[f] = I[f]
        \/ WrittenBack(I, E)[f] = [I[f] EXCEPT !.dirty = D(f)]
    BY DEF WrittenBack
  <2>2. D(f) \in BOOLEAN /\ I[f] \in IPTEntries
    OBVIOUS
  <2> QED BY <1>1, <2>1, <2>2 DEF SameFrame
<1>3. WrittenBack(I, E) = [f \in Frames |-> WrittenBack(I, E)[f]]
  BY DEF WrittenBack
<1> QED BY <1>2, <1>3

(* Setting a use bit changes only that bit.                                 *)
LEMMA UseFacts ==
    ASSUME NEW I \in [Frames -> IPTEntries], NEW f \in Frames, NEW b \in BOOLEAN
    PROVE  /\ [I EXCEPT ![f].use = b] \in [Frames -> IPTEntries]
           /\ \A g \in Frames : g # f => SameFrame([I EXCEPT ![f].use = b], I, g)
           /\ [I EXCEPT ![f].use = b][f].use = b
           /\ [I EXCEPT ![f].use = b][f].valid = I[f].valid
           /\ [I EXCEPT ![f].use = b][f].space = I[f].space
           /\ [I EXCEPT ![f].use = b][f].virtualPage = I[f].virtualPage
BY DEF IPTEntries, SameFrame

(* The invariant holds at first.                                            *)
LEMMA InvInit == Init => Inv
<1> SUFFICES ASSUME Init PROVE Inv
  OBVIOUS
<1>1. TypeOK
  <2>1. NoEntry \in TLBEntries
    BY Constants DEF NoEntry, TLBEntries
  <2>2. \A f \in Frames : IPT[f] \in IPTEntries
    BY Constants DEF Init, IPTEntries
  <2>3. IPT \in [Frames -> IPTEntries]
    BY <2>2 DEF Init
  <2>4. pageTable \in [Spaces -> [Pages -> PageEntries]]
    BY Constants DEF Init, PageEntries
  <2>5. latest \in [Spaces -> [Pages -> -1 .. MaxWrites]]
    BY Constants DEF Init
  <2>6. tlb \in [0 .. TLBSize - 1 -> TLBEntries]
    BY <2>1 DEF Init
  <2>7. evictionList \in Seq(Frames) /\ currentTLB \in 0 .. TLBSize - 1
        /\ mainMemoryBitmap \subseteq Frames /\ iptLock \in Threads \cup {NoThread}
        /\ pageTableLock \in [Spaces -> Threads \cup {NoThread}] /\ swapMap \subseteq Slots
    BY Constants DEF Init
  <2>8. mainMemory \in [Frames -> Data] /\ swapFile \in [Slots -> Data]
    BY DEF Init, Data
  <2>9. pc \in [Threads -> Phases] /\ vpn \in [Threads -> Pages] /\ ppn \in [Threads -> Frames \cup {NoFrame}]
    BY Constants DEF Init, Phases
  <2> QED BY <2>3, <2>4, <2>5, <2>6, <2>7, <2>8, <2>9 DEF TypeOK, Init
<1>2. \A f \in Frames : ~IPT[f].valid /\ ~IPT[f].use
  BY DEF Init
<1>3. \A t \in Threads : pc[t] = "user" /\ ppn[t] = NoFrame /\ iptLock # t /\ ~InFault(t)
                         /\ pageTableLock[Space[t]] # t
  BY Constants DEF Init, InFault
<1>4. Places /\ FramesKnown /\ Owners
  BY <1>2, <1>3 DEF Place, Places, FramesKnown, Owners
<1>5. Marked
  BY <1>2, <1>3, Constants DEF Marked, Init
<1>6. OneCopy
  BY <1>2, <1>3 DEF OneCopy, Holding
<1>7. Listed /\ StopsOnlyWhenFull
  BY <1>2 DEF Listed, StopsOnlyWhenFull, Init
<1>8. \A i \in DOMAIN tlb : ~tlb[i].valid
  BY DEF Init, NoEntry
<1>9. TranslationsOwn /\ NotTaken
  BY <1>8 DEF TranslationsOwn, NotTaken
<1> QED BY <1>1, <1>4, <1>5, <1>6, <1>7, <1>9 DEF Inv

-----------------------------------------------------------------------------
(* What each operation does                                                 *)

(* Scan takes a frame that holds the page and that nobody works on, or goes
   on to allocate one.                                                      *)
LEMMA ScanFacts ==
    ASSUME TypeOK, NEW t \in Threads, Scan(t), InMemory(t) # {}
    PROVE  \E f \in Frames :
              /\ f \in InMemory(t) /\ IPT' = [IPT EXCEPT ![f].use = TRUE]
              /\ ppn' = [ppn EXCEPT ![t] = f] /\ pc' = [pc EXCEPT ![t] = "fill"]
<1>1. InMemory(t) \in SUBSET Nat
  BY Constants DEF InMemory
<1>2. Lowest(InMemory(t)) \in InMemory(t)
  BY <1>1, LowestIn
<1> QED BY <1>2 DEF Scan, InMemory

(* TakeFree takes a frame that the bit map does not mark.                   *)
LEMMA TakeFreeFacts ==
    ASSUME TypeOK, NEW t \in Threads, TakeFree(t)
    PROVE  \E f \in Frames \ mainMemoryBitmap :
              /\ mainMemoryBitmap' = mainMemoryBitmap \cup {f}
              /\ IPT' = [IPT EXCEPT ![f].use = TRUE]
              /\ ppn' = [ppn EXCEPT ![t] = f] /\ pc' = [pc EXCEPT ![t] = "load"]
<1>1. Frames \ mainMemoryBitmap \in SUBSET Nat /\ Frames \ mainMemoryBitmap # {}
  BY Constants DEF TakeFree, TypeOK
<1>2. Lowest(Frames \ mainMemoryBitmap) \in Frames \ mainMemoryBitmap
  BY <1>1, LowestIn
<1> QED BY <1>2 DEF TakeFree

(* Evict's rotation of its list loses one occurrence of the victim.         *)
LEMMA RotatedFacts ==
    ASSUME NEW q \in Seq(Frames), NEW k \in 1 .. Len(q)
    PROVE  /\ SubSeq(q, k + 1, Len(q)) \o SubSeq(q, 1, k - 1) \in Seq(Frames)
           /\ \A f \in Elements(q) : f # q[k] =>
                 f \in Elements(SubSeq(q, k + 1, Len(q)) \o SubSeq(q, 1, k - 1))
<1> DEFINE a == SubSeq(q, k + 1, Len(q))
<1> DEFINE b == SubSeq(q, 1, k - 1)
<1>1. Len(q) \in Nat /\ k \in Nat \ {0}
  OBVIOUS
<1>2. /\ a \in Seq(Frames) /\ Len(a) = Len(q) - k
      /\ \A i \in 1 .. Len(q) - k : a[i] = q[k + i]
  BY <1>1
<1>3. /\ b \in Seq(Frames) /\ Len(b) = k - 1
      /\ \A i \in 1 .. k - 1 : b[i] = q[i]
  BY <1>1
<1> HIDE DEF a, b
<1>4. /\ a \o b \in Seq(Frames) /\ Len(a \o b) = Len(q) - 1
      /\ \A i \in 1 .. Len(q) - 1 : (a \o b)[i] = IF i <= Len(a) THEN a[i] ELSE b[i - Len(a)]
  <2>0. \A x, y \in Seq(Frames) :
           /\ x \o y \in Seq(Frames) /\ Len(x \o y) = Len(x) + Len(y)
           /\ \A i \in 1 .. Len(x) + Len(y) : (x \o y)[i] = IF i <= Len(x) THEN x[i] ELSE y[i - Len(x)]
    OBVIOUS
  <2>1. /\ a \o b \in Seq(Frames) /\ Len(a \o b) = Len(a) + Len(b)
        /\ \A i \in 1 .. Len(a) + Len(b) : (a \o b)[i] = IF i <= Len(a) THEN a[i] ELSE b[i - Len(a)]
    BY <1>2, <1>3, <2>0
  <2>2. Len(a) + Len(b) = Len(q) - 1
    BY <1>1, <1>2, <1>3
  <2> QED BY <2>1, <2>2
<1>5. ASSUME NEW f \in Elements(q), f # q[k] PROVE f \in Elements(a \o b)
  <2>1. PICK i \in 1 .. Len(q) : f = q[i]
    BY DEF Elements
  <2>2. CASE i > k
    <3>1. i - k \in 1 .. Len(q) - 1 /\ i - k <= Len(a) /\ i - k \in 1 .. Len(q) - k /\ k + (i - k) = i
      BY <1>1, <1>2, <2>1, <2>2
    <3>2. (a \o b)[i - k] = f
      BY <1>2, <1>4, <2>1, <3>1
    <3> QED BY <1>4, <3>1, <3>2 DEF Elements
  <2>3. CASE i < k
    <3>1. /\ Len(a) + i \in 1 .. Len(q) - 1 /\ ~(Len(a) + i <= Len(a)) /\ i \in 1 .. k - 1
          /\ (Len(a) + i) - Len(a) = i
      BY <1>1, <1>2, <2>1, <2>3
    <3>2. (a \o b)[Len(a) + i] = f
      BY <1>3, <1>4, <2>1, <3>1
    <3> QED BY <1>4, <3>1, <3>2 DEF Elements
  <2>4. i # k
    BY <1>5, <2>1
  <2> QED BY <1>1, <2>1, <2>2, <2>3, <2>4
<1> QED BY <1>4, <1>5 DEF a, b

(* Evict's search finds a frame that nobody works on, and loses only it.    *)
LEMMA VictimFacts ==
    ASSUME TypeOK, NEW f \in Victims
    PROVE  /\ f \in Frames /\ ~IPT[f].use
           /\ Policy = "FIFO" => /\ Rotated \in Seq(Frames)
                                 /\ \A g \in Elements(evictionList) : g # f => g \in Elements(Rotated)
<1>1. CASE Policy = "RAND"
  BY <1>1 DEF Victims
<1>2. CASE Policy # "RAND"
  <2>0. evictionList \in Seq(Frames) /\ Len(evictionList) \in Nat
    BY DEF TypeOK
  <2> DEFINE K == {k \in 1 .. Len(evictionList) : ~IPT[evictionList[k]].use}
  <2>1. K \in SUBSET Nat /\ K # {} /\ f = evictionList[FirstUnused]
    BY <1>2, <2>0 DEF Victims
  <2>2. Lowest(K) \in K
    <3> HIDE DEF K
    <3> QED BY <2>1, LowestIn
  <2>3. FirstUnused \in 1 .. Len(evictionList) /\ ~IPT[evictionList[FirstUnused]].use
    BY <2>2 DEF FirstUnused
  <2>4. f \in Frames /\ ~IPT[f].use
    BY <2>0, <2>1, <2>3
  <2> QED BY <2>0, <2>1, <2>3, <2>4, RotatedFacts DEF Rotated
<1> QED BY <1>1, <1>2

(* Evict reserves its victim, takes it out of the TLB and keeps iptLock.    *)
LEMMA ChooseFacts ==
    ASSUME TypeOK, NEW t \in Threads, ChooseVictim(t), ~dead'
    PROVE  \E f \in Victims :
              /\ IPT' \in [Frames -> IPTEntries] /\ IPT'[f].use
              /\ IPT'[f].valid = IPT[f].valid /\ IPT'[f].space = IPT[f].space
              /\ IPT'[f].virtualPage = IPT[f].virtualPage
              /\ \A g \in Frames : g # f => SameFrame(IPT', IPT, g)
              /\ tlb' \in [0 .. TLBSize - 1 -> TLBEntries]
              /\ \A i \in 0 .. TLBSize - 1 :
                    tlb'[i].valid => tlb'[i] = tlb[i] /\ tlb[i].valid /\ tlb[i].physicalPage # f
              /\ evictionList' = IF Policy = "RAND" THEN evictionList ELSE Rotated
              /\ iptLock' = t /\ ppn' = [ppn EXCEPT ![t] = f] /\ pc' = [pc EXCEPT ![t] = "evict"]
              /\ dead' = dead
<1>1. PICK f \in Victims :
         LET E == {i \in DOMAIN tlb : tlb[i].physicalPage = f /\ tlb[i].valid}
             I == [IPT EXCEPT ![f].use = TRUE]
         IN /\ evictionList' = IF Policy = "RAND" THEN evictionList ELSE Rotated
            /\ IPT' = IF tlb[currentTLB].valid THEN WrittenBack(I, E) ELSE I
            /\ tlb' = [i \in DOMAIN tlb |-> IF i \in E THEN NoEntry ELSE tlb[i]]
            /\ iptLock' = t /\ ppn' = [ppn EXCEPT ![t] = f] /\ pc' = [pc EXCEPT ![t] = "evict"]
            /\ UNCHANGED dead
  BY DEF ChooseVictim
<1> DEFINE E == {i \in DOMAIN tlb : tlb[i].physicalPage = f /\ tlb[i].valid}
<1> DEFINE I == [IPT EXCEPT ![f].use = TRUE]
<1>2. f \in Frames /\ IPT \in [Frames -> IPTEntries] /\ tlb \in [0 .. TLBSize - 1 -> TLBEntries]
  BY VictimFacts DEF TypeOK
<1>3. /\ I \in [Frames -> IPTEntries] /\ \A g \in Frames : g # f => SameFrame(I, IPT, g)
      /\ I[f].use /\ I[f].valid = IPT[f].valid /\ I[f].space = IPT[f].space
      /\ I[f].virtualPage = IPT[f].virtualPage
  BY <1>2, UseFacts
<1>4. IPT' = WrittenBack(I, E) \/ IPT' = I
  BY <1>1
<1>5. tlb' = [i \in DOMAIN tlb |-> IF i \in E THEN NoEntry ELSE tlb[i]]
  BY <1>1
<1>6. NoEntry \in TLBEntries /\ ~NoEntry.valid
  BY Constants DEF NoEntry, TLBEntries
<1>7. tlb' \in [0 .. TLBSize - 1 -> TLBEntries]
  BY <1>2, <1>5, <1>6
<1>8. \A i \in 0 .. TLBSize - 1 :
         tlb'[i].valid => tlb'[i] = tlb[i] /\ tlb[i].valid /\ tlb[i].physicalPage # f
  BY <1>2, <1>5, <1>6
<1>9. /\ IPT' \in [Frames -> IPTEntries] /\ \A g \in Frames : g # f => SameFrame(IPT', IPT, g)
      /\ IPT'[f].use /\ IPT'[f].valid = IPT[f].valid /\ IPT'[f].space = IPT[f].space
      /\ IPT'[f].virtualPage = IPT[f].virtualPage
  <2> HIDE DEF I, E
  <2>1. CASE IPT' = I
    BY <1>3, <2>1
  <2>2. CASE IPT' = WrittenBack(I, E)
    <3>1. IPT' \in [Frames -> IPTEntries] /\ \A g \in Frames : SameFrame(IPT', I, g)
      BY <1>3, <2>2, WrittenBackFacts
    <3> QED BY <1>2, <1>3, <3>1 DEF SameFrame
  <2> QED BY <1>4, <2>1, <2>2
<1> QED BY <1>1, <1>7, <1>8, <1>9

(* The end of a fault lets the frame go and puts it into the TLB.           *)
LEMMA FillFacts ==
    ASSUME TypeOK, NEW t \in Threads, NEW f \in Frames, NEW I \in [Frames -> IPTEntries],
           FillTLB(t, f, I)
    PROVE  /\ IPT' \in [Frames -> IPTEntries] /\ ~IPT'[f].use
           /\ IPT'[f].valid = I[f].valid /\ IPT'[f].space = I[f].space
           /\ IPT'[f].virtualPage = I[f].virtualPage
           /\ \A g \in Frames : g # f => SameFrame(IPT', I, g)
           /\ tlb' \in [0 .. TLBSize - 1 -> TLBEntries] /\ currentTLB' \in 0 .. TLBSize - 1
           /\ \A i \in 0 .. TLBSize - 1 :
                 \/ tlb'[i] = tlb[i]
                 \/ tlb'[i].valid /\ tlb'[i].physicalPage = f /\ tlb'[i].virtualPage = I[f].virtualPage
           /\ pageTableLock' = [pageTableLock EXCEPT ![Space[t]] = NoThread]
           /\ pc' = [pc EXCEPT ![t] = "user"] /\ ppn' = [ppn EXCEPT ![t] = NoFrame]
           /\ vpn' = [vpn EXCEPT ![t] = 0]
<1> DEFINE J == IF tlb[currentTLB].valid THEN WrittenBack(I, {currentTLB}) ELSE I
<1> DEFINE e == [valid |-> TRUE, virtualPage |-> J[f].virtualPage, physicalPage |-> f, dirty |-> J[f].dirty]
<1>1. /\ J \in [Frames -> IPTEntries] /\ \A g \in Frames : SameFrame(J, I, g)
  <2>1. CASE tlb[currentTLB].valid
    BY <2>1, WrittenBackFacts
  <2>2. CASE ~tlb[currentTLB].valid
    BY <2>2 DEF SameFrame
  <2> QED BY <2>1, <2>2
<1>2. /\ tlb' = [tlb EXCEPT ![currentTLB] = e] /\ currentTLB' = NextTLB(currentTLB)
      /\ IPT' = [J EXCEPT ![f].use = FALSE]
  BY DEF FillTLB, Unused
<1>3. e \in TLBEntries /\ e.valid /\ e.physicalPage = f /\ e.virtualPage = J[f].virtualPage
  <2> HIDE DEF J
  <2> QED BY <1>1 DEF IPTEntries, TLBEntries
<1> HIDE DEF J, e
<1>4. currentTLB' \in 0 .. TLBSize - 1
  <2>1. \A n \in Nat, d \in Nat \ {0} : n % d \in 0 .. d - 1
    OBVIOUS
  <2>2. currentTLB + 1 \in Nat /\ TLBSize \in Nat \ {0}
    BY Constants DEF TypeOK
  <2> QED BY <1>2, <2>1, <2>2 DEF NextTLB
<1>5. /\ tlb' \in [0 .. TLBSize - 1 -> TLBEntries]
      /\ \A i \in 0 .. TLBSize - 1 : tlb'[i] = tlb[i] \/ tlb'[i] = e
  BY <1>2, <1>3 DEF TypeOK
<1>6. /\ IPT' \in [Frames -> IPTEntries] /\ ~IPT'[f].use
      /\ IPT'[f].valid = J[f].valid /\ IPT'[f].space = J[f].space
      /\ IPT'[f].virtualPage = J[f].virtualPage
      /\ \A g \in Frames : g # f => SameFrame(IPT', J, g)
  BY <1>1, <1>2, UseFacts
<1>7. /\ J[f].virtualPage = I[f].virtualPage /\ J[f].valid = I[f].valid /\ J[f].space = I[f].space
      /\ \A g \in Frames : g # f => SameFrame(IPT', I, g)
  BY <1>1, <1>6 DEF SameFrame
<1>8. /\ pageTableLock' = [pageTableLock EXCEPT ![Space[t]] = NoThread]
      /\ pc' = [pc EXCEPT ![t] = "user"] /\ ppn' = [ppn EXCEPT ![t] = NoFrame]
      /\ vpn' = [vpn EXCEPT ![t] = 0]
  BY DEF FillTLB, MySpace
<1>9. \A i \in 0 .. TLBSize - 1 :
         \/ tlb'[i] = tlb[i]
         \/ tlb'[i].valid /\ tlb'[i].physicalPage = f /\ tlb'[i].virtualPage = I[f].virtualPage
  BY <1>3, <1>5, <1>7
<1> QED BY <1>4, <1>5, <1>6, <1>7, <1>8, <1>9

(* HandleIPTMiss gives the frame its new page.                              *)
LEMMA LoadFacts ==
    ASSUME TypeOK, Places, NEW t \in Threads, Load(t)
    PROVE  \E I \in [Frames -> IPTEntries] :
              /\ FillTLB(t, ppn[t], I) /\ ppn[t] \in Frames
              /\ I[ppn[t]].valid /\ I[ppn[t]].space = Space[t] /\ I[ppn[t]].virtualPage = vpn[t]
              /\ \A g \in Frames : g # ppn[t] => I[g] = IPT[g]
<1> DEFINE b == pageTable[MySpace(t)][vpn[t]].location = "UNINIT"
<1> DEFINE e == [valid |-> TRUE, use |-> IPT[ppn[t]].use, dirty |-> b, space |-> MySpace(t),
                 virtualPage |-> vpn[t]]
<1> DEFINE I == [IPT EXCEPT ![ppn[t]] = e]
<1>1. FillTLB(t, ppn[t], I)
  BY DEF Load
<1>2. ppn[t] \in Frames /\ IPT \in [Frames -> IPTEntries] /\ vpn[t] \in Pages /\ Space[t] \in Spaces
  BY Constants DEF TypeOK, Place, Places, Load, At
<1>3. b \in BOOLEAN /\ IPT[ppn[t]].use \in BOOLEAN
  BY <1>2 DEF IPTEntries
<1>4. e \in IPTEntries /\ e.valid /\ e.space = Space[t] /\ e.virtualPage = vpn[t]
  <2> HIDE DEF b
  <2> QED BY <1>2, <1>3 DEF IPTEntries, MySpace
<1> HIDE DEF e
<1>5. I \in [Frames -> IPTEntries] /\ I[ppn[t]] = e /\ \A g \in Frames : g # ppn[t] => I[g] = IPT[g]
  BY <1>2, <1>4
<1> QED BY <1>1, <1>2, <1>4, <1>5

(* What HandleIPTMiss brings into a frame is the contents of a page.        *)
LEMMA FetchedType ==
    ASSUME TypeOK, NEW s \in Spaces, NEW v \in Pages
    PROVE  Fetched(s, v) \in Data
<1>1. pageTable[s][v] \in PageEntries /\ Junk \in Data /\ <<s, v, 0>> \in Data
  BY Constants DEF TypeOK, Data
<1>2. /\ pageTable[s][v].location \in {"IN_EXECUTABLE", "IN_SWAP", "UNINIT"}
      /\ swapFile[pageTable[s][v].offset] \in Data
  BY <1>1 DEF TypeOK, PageEntries
<1> QED BY <1>1, <1>2 DEF Fetched

(* Every operation keeps the types.                                         *)
LEMMA TypeStep ==
    ASSUME Inv, NEW t \in Threads, ThreadNext(t)
    PROVE  TypeOK'
<1> USE DEF tlbVars, frameVars, diskVars, faultVars
<1>0. TypeOK /\ Places /\ FramesKnown
  BY DEF Inv
<1>1. CASE Switch(t)
  <2>1. IPT' \in [Frames -> IPTEntries]
    BY <1>0, <1>1, WrittenBackFacts DEF Switch, TypeOK
  <2>2. tlb' \in [0 .. TLBSize - 1 -> TLBEntries]
    BY <1>0, <1>1, Constants DEF Switch, Flushed, NoEntry, TLBEntries, TypeOK
  <2> QED BY <1>0, <1>1, <2>1, <2>2 DEF Switch, TypeOK
<1>2. ASSUME NEW v \in Pages, Write(t, v) PROVE TypeOK'
  <2> DEFINE i == Lowest(Hits(v))
  <2>1. tlb \in [0 .. TLBSize - 1 -> TLBEntries] /\ Hits(v) \in SUBSET Nat /\ Hits(v) # {}
    BY <1>0, <1>2, Constants DEF TypeOK, Hits, Write
  <2>2. i \in 0 .. TLBSize - 1
    BY <2>1, LowestIn DEF Hits
  <2>3. /\ tlb' = [tlb EXCEPT ![i].dirty = TRUE]
        /\ latest' = [latest EXCEPT ![Space[t]][v] = @ + 1]
        /\ mainMemory' = [mainMemory EXCEPT ![tlb[i].physicalPage] = <<Space[t], v, latest[Space[t]][v] + 1>>]
        /\ latest[Space[t]][v] < MaxWrites
    BY <1>2 DEF Write, MySpace
  <2> HIDE DEF i
  <2>4. tlb' \in [0 .. TLBSize - 1 -> TLBEntries]
    BY <2>1, <2>2, <2>3 DEF TLBEntries
  <2>5. latest[Space[t]][v] \in -1 .. MaxWrites /\ Space[t] \in Spaces /\ latest[Space[t]][v] + 1 \in 0 .. MaxWrites
    <3>1. latest[Space[t]][v] \in -1 .. MaxWrites /\ Space[t] \in Spaces /\ MaxWrites \in Nat
      BY <1>0, Constants DEF TypeOK
    <3> DEFINE n == latest[Space[t]][v]
    <3> HIDE DEF n
    <3>2. n \in -1 .. MaxWrites /\ n < MaxWrites => n + 1 \in 0 .. MaxWrites
      BY <3>1
    <3> QED BY <2>3, <3>1, <3>2 DEF n
  <2>6. latest' \in [Spaces -> [Pages -> -1 .. MaxWrites]]
    <3>1. latest \in [Spaces -> [Pages -> -1 .. MaxWrites]] /\ latest[Space[t]][v] + 1 \in -1 .. MaxWrites
      BY <1>0, <2>5, Constants DEF TypeOK
    <3> QED BY <2>3, <2>5, <3>1
  <2>7. <<Space[t], v, latest[Space[t]][v] + 1>> \in Data
    BY <2>5 DEF Data
  <2>8. mainMemory' \in [Frames -> Data]
    BY <1>0, <2>3, <2>7 DEF TypeOK
  <2> QED BY <1>0, <1>2, <2>4, <2>6, <2>8 DEF Write, TypeOK
<1>3. ASSUME NEW v \in Pages, Fault(t, v) PROVE TypeOK'
  <2>1. pageTableLock' \in [Spaces -> Threads \cup {NoThread}]
    BY <1>0, <1>3, Constants DEF Fault, MySpace, TypeOK
  <2> QED BY <1>0, <1>3, <2>1 DEF Fault, TypeOK, Phases
<1>4. CASE Scan(t)
  <2>1. IPT' \in [Frames -> IPTEntries] /\ ppn' \in [Threads -> Frames \cup {NoFrame}]
        /\ pc' \in [Threads -> Phases]
    <3>1. CASE InMemory(t) # {}
      <4>1. PICK f \in Frames :
               /\ IPT' = [IPT EXCEPT ![f].use = TRUE]
               /\ ppn' = [ppn EXCEPT ![t] = f] /\ pc' = [pc EXCEPT ![t] = "fill"]
        BY <1>0, <1>4, <3>1, ScanFacts
      <4>2. IPT' \in [Frames -> IPTEntries]
        BY <1>0, <4>1, UseFacts DEF TypeOK
      <4> QED BY <1>0, <4>1, <4>2 DEF TypeOK, Phases
    <3>2. CASE InMemory(t) = {}
      BY <1>0, <1>4, <3>2 DEF Scan, TypeOK, Phases
    <3> QED BY <3>1, <3>2
  <2> QED BY <1>0, <1>4, <2>1 DEF Scan, TypeOK
<1>5. CASE TakeFree(t)
  <2>1. IPT' \in [Frames -> IPTEntries] /\ ppn' \in [Threads -> Frames \cup {NoFrame}]
        /\ pc' \in [Threads -> Phases] /\ mainMemoryBitmap' \subseteq Frames
    <3>1. PICK f \in Frames :
             /\ mainMemoryBitmap' = mainMemoryBitmap \cup {f}
             /\ IPT' = [IPT EXCEPT ![f].use = TRUE]
             /\ ppn' = [ppn EXCEPT ![t] = f] /\ pc' = [pc EXCEPT ![t] = "load"]
      BY <1>0, <1>5, TakeFreeFacts
    <3>2. IPT' \in [Frames -> IPTEntries]
      BY <1>0, <3>1, UseFacts DEF TypeOK
    <3> QED BY <1>0, <3>1, <3>2 DEF TypeOK, Phases
  <2> QED BY <1>0, <1>5, <2>1 DEF TakeFree, TypeOK
<1>6. CASE ChooseVictim(t)
  <2>1. CASE ~dead'
    <3>1. /\ IPT' \in [Frames -> IPTEntries] /\ ppn' \in [Threads -> Frames \cup {NoFrame}]
          /\ pc' \in [Threads -> Phases] /\ tlb' \in [0 .. TLBSize - 1 -> TLBEntries]
          /\ evictionList' \in Seq(Frames) /\ iptLock' = t /\ dead' = dead
      <4>1. PICK f \in Victims :
               /\ IPT' \in [Frames -> IPTEntries] /\ tlb' \in [0 .. TLBSize - 1 -> TLBEntries]
               /\ evictionList' = IF Policy = "RAND" THEN evictionList ELSE Rotated
               /\ iptLock' = t /\ ppn' = [ppn EXCEPT ![t] = f] /\ pc' = [pc EXCEPT ![t] = "evict"]
               /\ dead' = dead
        BY <1>0, <1>6, <2>1, ChooseFacts
      <4>2. f \in Frames /\ (Policy = "FIFO" => Rotated \in Seq(Frames))
        BY <1>0, VictimFacts
      <4>3. evictionList' \in Seq(Frames)
        BY <1>0, <4>1, <4>2, VMAssumption DEF TypeOK
      <4> QED BY <1>0, <4>1, <4>2, <4>3 DEF TypeOK, Phases
    <3> QED BY <1>0, <1>6, <3>1 DEF ChooseVictim, TypeOK
  <2>2. CASE dead'
    BY <1>0, <1>6, <2>2 DEF ChooseVictim, TypeOK, At
  <2> QED BY <2>1, <2>2
<1>7. CASE WriteOut(t)
  <2> DEFINE f == ppn[t]
  <2> DEFINE s == IPT[f].space
  <2> DEFINE v == IPT[f].virtualPage
  <2> DEFINE e == pageTable[s][v]
  <2>1. /\ f \in Frames /\ s \in Spaces /\ v \in Pages /\ mainMemory[f] \in Data
        /\ e \in PageEntries /\ pageTable \in [Spaces -> [Pages -> PageEntries]]
    <3>1. f \in Frames /\ IPT[f] \in IPTEntries /\ IPT[f].valid
      BY <1>0, <1>7 DEF WriteOut, At, Place, Places, TypeOK
    <3>2. s \in Spaces /\ v \in Pages
      BY <1>0, <3>1 DEF FramesKnown, IPTEntries
    <3> HIDE DEF f, s, v
    <3> QED BY <1>0, <3>1, <3>2 DEF TypeOK, e
  <2>2. e.offset \in Slots /\ (e.location # "IN_SWAP" /\ swapMap # Slots => Lowest(Slots \ swapMap) \in Slots)
    <3>1. swapMap # Slots => Lowest(Slots \ swapMap) \in Slots
      <4>1. Slots \ swapMap \in SUBSET Nat
        BY Constants
      <4>2. swapMap # Slots => Slots \ swapMap # {}
        BY <1>0 DEF TypeOK
      <4> QED BY <4>1, <4>2, LowestIn
    <3> HIDE DEF e
    <3> QED BY <2>1, <3>1 DEF PageEntries
  <2>3. e.location = "IN_SWAP" \/ swapMap # Slots => Slot(e) \in Slots
    <3> HIDE DEF e
    <3> QED BY <2>2 DEF Slot
  <2>4. /\ swapFile' \in [Slots -> Data] /\ swapMap' \subseteq Slots
        /\ pageTable' \in [Spaces -> [Pages -> PageEntries]]
        /\ iptLock' \in Threads \cup {NoThread} /\ pc' \in [Threads -> Phases] /\ dead' \in BOOLEAN
    <3>1. CASE UNCHANGED <<swapFile, swapMap, pageTable>>
      BY <1>0, <1>7, <3>1 DEF WriteOut, TypeOK, Phases
    <3>2. CASE ~UNCHANGED <<swapFile, swapMap, pageTable>>
      <4>1. /\ e.location = "IN_SWAP" \/ swapMap # Slots
            /\ swapFile' = [swapFile EXCEPT ![Slot(e)] = mainMemory[f]]
            /\ swapMap' = swapMap \cup {Slot(e)}
            /\ pageTable' = [pageTable EXCEPT ![s][v].location = "IN_SWAP", ![s][v].offset = Slot(e)]
            /\ iptLock' = NoThread /\ pc' = [pc EXCEPT ![t] = "load"] /\ dead' = dead
        BY <1>7, <3>2 DEF WriteOut
      <4>2. Slot(e) \in Slots
        BY <2>3, <4>1
      <4> HIDE DEF e, s, v, f
      <4>3. swapFile' \in [Slots -> Data] /\ swapMap' \subseteq Slots
        BY <1>0, <2>1, <4>1, <4>2 DEF TypeOK
      <4>4. pageTable' \in [Spaces -> [Pages -> PageEntries]]
        <5>1. ASSUME NEW x \in PageEntries, NEW k \in Slots
              PROVE  [x EXCEPT !.location = "IN_SWAP", !.offset = k] \in PageEntries
          BY DEF PageEntries
        <5>2. [pageTable[s][v] EXCEPT !.location = "IN_SWAP", !.offset = Slot(e)] \in PageEntries
          BY <2>1, <4>2, <5>1
        <5>3. pageTable' = [pageTable EXCEPT ![s] = [pageTable[s] EXCEPT ![v] =
                 [pageTable[s][v] EXCEPT !.location = "IN_SWAP", !.offset = Slot(e)]]]
          BY <2>1, <4>1
        <5> QED BY <2>1, <5>2, <5>3
      <4> QED BY <1>0, <4>1, <4>3, <4>4 DEF TypeOK, Phases
    <3> QED BY <3>1, <3>2
  <2> QED BY <1>0, <1>7, <2>4 DEF WriteOut, TypeOK
<1>8. CASE Fill(t)
  <2>1. PICK f \in Frames : f = ppn[t] /\ FillTLB(t, f, IPT)
    BY <1>0, <1>8 DEF Fill, At, Place, Places
  <2>2. IPT \in [Frames -> IPTEntries]
    BY <1>0 DEF TypeOK
  <2>3. /\ IPT' \in [Frames -> IPTEntries] /\ tlb' \in [0 .. TLBSize - 1 -> TLBEntries]
        /\ currentTLB' \in 0 .. TLBSize - 1
        /\ pageTableLock' = [pageTableLock EXCEPT ![Space[t]] = NoThread]
        /\ pc' = [pc EXCEPT ![t] = "user"] /\ ppn' = [ppn EXCEPT ![t] = NoFrame]
        /\ vpn' = [vpn EXCEPT ![t] = 0]
    BY <1>0, <2>1, <2>2, FillFacts
  <2> QED BY <1>0, <1>8, <2>3, Constants DEF Fill, TypeOK, Phases
<1>9. CASE Load(t)
  <2>1. PICK I \in [Frames -> IPTEntries] : FillTLB(t, ppn[t], I)
    BY <1>0, <1>9, LoadFacts
  <2>2. PICK f \in Frames : f = ppn[t]
    BY <1>0, <1>9 DEF Load, At, Place, Places
  <2>3. /\ IPT' \in [Frames -> IPTEntries] /\ tlb' \in [0 .. TLBSize - 1 -> TLBEntries]
        /\ currentTLB' \in 0 .. TLBSize - 1
        /\ pageTableLock' = [pageTableLock EXCEPT ![Space[t]] = NoThread]
        /\ pc' = [pc EXCEPT ![t] = "user"] /\ ppn' = [ppn EXCEPT ![t] = NoFrame]
        /\ vpn' = [vpn EXCEPT ![t] = 0]
    BY <1>0, <2>1, <2>2, FillFacts
  <2>4. vpn[t] \in Pages /\ Space[t] \in Spaces
    BY <1>0, Constants DEF TypeOK
  <2>5. Fetched(Space[t], vpn[t]) \in Data
    BY <1>0, <2>4, FetchedType
  <2>6. mainMemory' \in [Frames -> Data]
    BY <1>0, <1>9, <2>2, <2>5 DEF Load, MySpace, TypeOK
  <2>7. evictionList' \in Seq(Frames)
    BY <1>0, <1>9, <2>2 DEF Load, TypeOK
  <2>8. pageTable' \in [Spaces -> [Pages -> PageEntries]]
    <3>1. pageTable' = [pageTable EXCEPT ![Space[t]][vpn[t]].physicalPage = f]
      BY <1>9, <2>2 DEF Load, MySpace
    <3>2. [pageTable[Space[t]][vpn[t]] EXCEPT !.physicalPage = f] \in PageEntries
      <4>1. ASSUME NEW x \in PageEntries PROVE [x EXCEPT !.physicalPage = f] \in PageEntries
        BY DEF PageEntries
      <4> QED BY <1>0, <2>4, <4>1 DEF TypeOK
    <3>3. pageTable \in [Spaces -> [Pages -> PageEntries]]
      BY <1>0 DEF TypeOK
    <3>4. pageTable' = [pageTable EXCEPT ![Space[t]] = [pageTable[Space[t]] EXCEPT ![vpn[t]] =
             [pageTable[Space[t]][vpn[t]] EXCEPT !.physicalPage = f]]]
      BY <2>4, <3>1, <3>3
    <3> QED BY <2>4, <3>2, <3>3, <3>4
  <2> QED BY <1>0, <1>9, <2>3, <2>6, <2>7, <2>8, Constants DEF Load, TypeOK, Phases
<1>10. ASSUME NEW F \in SUBSET Frames, Drop(t, F) PROVE TypeOK'
  <2>1. IPT' = [f \in Frames |-> IF f \in F THEN [IPT[f] EXCEPT !.valid = FALSE, !.use = FALSE] ELSE IPT[f]]
    BY <1>10 DEF Drop
  <2>2. ASSUME NEW x \in IPTEntries PROVE [x EXCEPT !.valid = FALSE, !.use = FALSE] \in IPTEntries
    BY DEF IPTEntries
  <2>3. IPT \in [Frames -> IPTEntries]
    BY <1>0 DEF TypeOK
  <2>4. IPT' \in [Frames -> IPTEntries]
    BY <2>1, <2>2, <2>3
  <2> QED BY <1>0, <1>10, <2>4 DEF Drop, Cleared, TypeOK, Phases
<1>11. CASE ExitProcess(t)
  BY <1>10, <1>11 DEF ExitProcess
<1>12. CASE ExitThread(t)
  BY <1>10, <1>12 DEF ExitThread
<1> QED BY <1>1, <1>2, <1>3, <1>4, <1>5, <1>6, <1>7, <1>8, <1>9, <1>11, <1>12 DEF ThreadNext, FaultStep

-----------------------------------------------------------------------------
(* Every operation keeps the rest of the invariant                          *)

(* Who works on a frame set its use bit, and holds the lock of its page
   table, so the threads of a process fault one at a time.                  *)
LEMMA Basics ==
    ASSUME Inv
    PROVE  /\ pc \in [Threads -> Phases] /\ ppn \in [Threads -> Frames \cup {NoFrame}]
           /\ vpn \in [Threads -> Pages] /\ pageTableLock \in [Spaces -> Threads \cup {NoThread}]
           /\ IPT \in [Frames -> IPTEntries] /\ tlb \in [0 .. TLBSize - 1 -> TLBEntries]
           /\ \A u \in Threads : ppn[u] \in Frames => pc[u] \in {"fill", "evict", "load"} /\ IPT[ppn[u]].use
           /\ \A u, w \in Threads : InFault(u) /\ InFault(w) /\ Space[u] = Space[w] => u = w
<1>1. /\ pc \in [Threads -> Phases] /\ ppn \in [Threads -> Frames \cup {NoFrame}]
      /\ vpn \in [Threads -> Pages] /\ pageTableLock \in [Spaces -> Threads \cup {NoThread}]
      /\ IPT \in [Frames -> IPTEntries] /\ tlb \in [0 .. TLBSize - 1 -> TLBEntries]
  BY DEF Inv, TypeOK
<1>2. \A u \in Threads : ppn[u] \in Frames => pc[u] \in {"fill", "evict", "load"} /\ IPT[ppn[u]].use
  BY <1>1, Constants DEF Inv, Place, Places
<1>3. \A u, w \in Threads : InFault(u) /\ InFault(w) /\ Space[u] = Space[w] => u = w
  BY DEF Inv, Place, Places
<1> QED BY <1>1, <1>2, <1>3

(* A frame is taken from the page it holds where it is about to be loaded.  *)
Loading(u, f) == pc[u] = "load" /\ ppn[u] = f

(* Holding depends on the pages in the frames and on who is loading them.   *)
LEMMA HoldingSame ==
    ASSUME \A f \in Frames : /\ IPT'[f].valid = IPT[f].valid /\ IPT'[f].space = IPT[f].space
                             /\ IPT'[f].virtualPage = IPT[f].virtualPage,
           \A f \in Frames, u \in Threads : IPT[f].valid => (Loading(u, f)' <=> Loading(u, f))
    PROVE  \A x, y : Holding(x, y)' = Holding(x, y)
BY DEF Holding, Loading

(* A thread stays in its place where its frame, its locks and it are left
   alone.                                                                   *)
LEMMA PlaceSame ==
    ASSUME Inv, NEW u \in Threads, pc'[u] = pc[u], ppn'[u] = ppn[u], vpn'[u] = vpn[u],
           ppn[u] \in Frames => SameFrame(IPT', IPT, ppn[u]),
           iptLock' = u <=> iptLock = u,
           pageTableLock'[Space[u]] = u <=> pageTableLock[Space[u]] = u
    PROVE  Place(u)'
<1>1. Place(u)
  BY DEF Inv, Places
<1>2. InFault(u)' <=> InFault(u)
  BY DEF InFault
<1> HIDE DEF InFault
<1> QED BY <1>1, <1>2 DEF Place, SameFrame

(* Dirty bits and the TLB are no concern of most of the invariant.          *)
LEMMA DirtyStep ==
    ASSUME Inv, \A f \in Frames : SameFrame(IPT', IPT, f), ~dead,
           UNCHANGED <<pc, ppn, vpn, iptLock, pageTableLock, mainMemoryBitmap, evictionList, dead>>
    PROVE  /\ Places' /\ FramesKnown' /\ Owners' /\ Marked' /\ OneCopy' /\ Listed' /\ StopsOnlyWhenFull'
           /\ \A s, v : Holding(s, v)' = Holding(s, v)
<1>0. Places /\ FramesKnown /\ Owners /\ Marked /\ OneCopy /\ Listed
  BY DEF Inv
<1>1. \A s, v : Holding(s, v)' = Holding(s, v)
  BY DEF Holding, SameFrame
<1>2. Places'
  BY PlaceSame DEF Places
<1>3. FramesKnown' /\ Owners' /\ Marked'
  BY <1>0 DEF FramesKnown, Owners, Marked, SameFrame
<1>4. OneCopy'
  BY <1>0, <1>1 DEF OneCopy
<1>5. Listed'
  BY <1>0 DEF Listed, Elements, SameFrame
<1> QED BY <1>1, <1>2, <1>3, <1>4, <1>5 DEF StopsOnlyWhenFull

(* A context switch.                                                        *)
LEMMA SwitchStep ==
    ASSUME Inv, TypeOK', NEW t \in Threads, Switch(t)
    PROVE  Inv'
<1> USE DEF tlbVars, frameVars, diskVars, faultVars
<1>1. \A f \in Frames : SameFrame(IPT', IPT, f)
  BY Basics, WrittenBackFacts DEF Switch
<1>2. /\ Places' /\ FramesKnown' /\ Owners' /\ Marked' /\ OneCopy' /\ Listed' /\ StopsOnlyWhenFull'
  BY <1>1, DirtyStep DEF Switch
<1>3. \A i \in DOMAIN tlb' : ~tlb'[i].valid
  BY DEF Switch, Flushed, NoEntry
<1>4. TranslationsOwn' /\ NotTaken'
  BY <1>3 DEF TranslationsOwn, NotTaken
<1> QED BY <1>2, <1>4 DEF Inv

(* A store.                                                                 *)
LEMMA WriteStep ==
    ASSUME Inv, TypeOK', NEW t \in Threads, NEW v \in Pages, Write(t, v)
    PROVE  Inv'
<1> USE DEF tlbVars, frameVars, diskVars, faultVars
<1>1. /\ Places' /\ FramesKnown' /\ Owners' /\ Marked' /\ OneCopy' /\ Listed' /\ StopsOnlyWhenFull'
      /\ \A x, y : Holding(x, y)' = Holding(x, y)
  BY DirtyStep DEF Write, At, SameFrame
<1>2. DOMAIN tlb' = DOMAIN tlb
  BY DEF Write
<1>3. \A j \in DOMAIN tlb : /\ tlb'[j].valid = tlb[j].valid /\ tlb'[j].virtualPage = tlb[j].virtualPage
                            /\ tlb'[j].physicalPage = tlb[j].physicalPage
  <2>1. \A e \in TLBEntries : /\ [e EXCEPT !.dirty = TRUE].valid = e.valid
                              /\ [e EXCEPT !.dirty = TRUE].virtualPage = e.virtualPage
                              /\ [e EXCEPT !.dirty = TRUE].physicalPage = e.physicalPage
    BY DEF TLBEntries
  <2>2. \A j \in DOMAIN tlb : tlb'[j] = tlb[j] \/ tlb'[j] = [tlb[j] EXCEPT !.dirty = TRUE]
    BY DEF Write
  <2>3. \A j \in DOMAIN tlb : tlb[j] \in TLBEntries
    BY Basics
  <2> QED BY <2>1, <2>2, <2>3
<1>4. TranslationsOwn'
  BY <1>1, <1>2, <1>3 DEF Inv, TranslationsOwn, Write, Live, MySpace
<1>5. NotTaken'
  BY <1>2, <1>3 DEF Inv, NotTaken, Write, Live
<1> QED BY <1>1, <1>4, <1>5 DEF Inv

(* A miss in the TLB takes the lock of the page table.                      *)
LEMMA FaultStart ==
    ASSUME Inv, TypeOK', NEW t \in Threads, NEW v \in Pages, Fault(t, v)
    PROVE  Inv'
<1> USE DEF tlbVars, frameVars, diskVars, faultVars
<1>0. Places /\ FramesKnown /\ Owners /\ Marked /\ OneCopy /\ Listed /\ TranslationsOwn /\ NotTaken
  BY DEF Inv
<1>1. /\ UNCHANGED <<currentThread, tlb, IPT, mainMemoryBitmap, evictionList, iptLock, ppn, dead>>
      /\ ~dead /\ currentThread = t /\ pc[t] = "user" /\ pageTableLock[Space[t]] = NoThread /\ Space[t] \in Spaces
      /\ pc'[t] = "scan" /\ \A u \in Threads \ {t} : pc'[u] = pc[u] /\ vpn'[u] = vpn[u]
      /\ pageTableLock'[Space[t]] = t
      /\ \A s \in Spaces \ {Space[t]} : pageTableLock'[s] = pageTableLock[s]
  BY Basics, Constants DEF Fault, At, MySpace
<1>2. \A x, y : Holding(x, y)' = Holding(x, y)
  BY <1>1 DEF Holding
<1>3. Places'
  <2>1. ASSUME NEW u \in Threads, u # t PROVE InFault(u)' <=> pageTableLock'[Space[u]] = u
    BY <1>0, <1>1, <2>1, Constants DEF Place, Places, InFault
  <2>2. InFault(t)'
    BY <1>1 DEF InFault
  <2> QED BY <1>0, <1>1, <2>1, <2>2 DEF Place, Places
<1>4. FramesKnown' /\ Owners' /\ Marked' /\ StopsOnlyWhenFull'
  BY <1>0, <1>1 DEF FramesKnown, Owners, Marked, StopsOnlyWhenFull
<1>5. OneCopy'
  BY <1>0, <1>1, <1>2 DEF OneCopy
<1>6. Listed'
  <2>1. ppn[t] \notin Frames
    BY <1>0, <1>1, Constants DEF Place, Places
  <2> QED BY <1>0, <1>1, <2>1 DEF Listed, Elements
<1>7. TranslationsOwn' /\ NotTaken'
  BY <1>0, <1>1, <1>2 DEF TranslationsOwn, NotTaken, Live, MySpace
<1> QED BY <1>3, <1>4, <1>5, <1>6, <1>7 DEF Inv

(* HandlePageFault found the page in memory.                                *)
LEMMA ScanHit ==
    ASSUME Inv, TypeOK', NEW t \in Threads, Scan(t), InMemory(t) # {}
    PROVE  Inv'
<1> USE DEF tlbVars, frameVars, diskVars, faultVars
<1>0. TypeOK /\ Places /\ FramesKnown /\ Owners /\ Marked /\ OneCopy /\ Listed /\ TranslationsOwn /\ NotTaken
  BY DEF Inv
<1>1. PICK f \in Frames :
         /\ f \in InMemory(t) /\ IPT' = [IPT EXCEPT ![f].use = TRUE]
         /\ ppn' = [ppn EXCEPT ![t] = f] /\ pc' = [pc EXCEPT ![t] = "fill"]
  BY <1>0, ScanFacts
<1>2. /\ IPT'[f].use /\ IPT'[f].valid = IPT[f].valid /\ IPT'[f].space = IPT[f].space
      /\ IPT'[f].virtualPage = IPT[f].virtualPage
      /\ \A g \in Frames : g # f => SameFrame(IPT', IPT, g)
  BY <1>1, Basics, UseFacts
<1>3. /\ UNCHANGED <<currentThread, tlb, mainMemoryBitmap, evictionList, iptLock, pageTableLock, vpn, dead>>
      /\ ~dead /\ pc[t] = "scan" /\ currentThread = t
      /\ pc'[t] = "fill" /\ ppn'[t] = f
      /\ \A u \in Threads \ {t} : pc'[u] = pc[u] /\ ppn'[u] = ppn[u]
  BY <1>1, Basics DEF Scan, At
<1>4. /\ IPT[f].valid /\ ~IPT[f].use /\ IPT[f].space = Space[t] /\ IPT[f].virtualPage = vpn[t]
      /\ ppn[t] = NoFrame /\ \A u \in Threads : ppn[u] # f
  BY <1>0, <1>1, <1>3, Basics DEF InMemory, MySpace, Place, Places
<1>5. \A x, y : Holding(x, y)' = Holding(x, y)
  <2>1. \A g \in Frames, u \in Threads : IPT[g].valid => (Loading(u, g)' <=> Loading(u, g))
    BY <1>3, <1>4, Constants DEF Loading
  <2> QED BY <1>2, <2>1, HoldingSame DEF SameFrame
<1>6. Places'
  <2>1. ASSUME NEW u \in Threads, u # t PROVE Place(u)'
    BY <1>2, <1>3, <1>4, <2>1, PlaceSame
  <2>2. Place(t)'
    BY <1>0, <1>2, <1>3, <1>4 DEF Place, Places, InFault
  <2> QED BY <2>1, <2>2 DEF Places
<1>7. FramesKnown' /\ StopsOnlyWhenFull'
  BY <1>0, <1>2, <1>3, <1>4, Constants DEF FramesKnown, SameFrame, StopsOnlyWhenFull
<1>8. Owners' /\ Marked'
  BY <1>0, <1>2, <1>3, <1>4, Constants DEF Owners, Marked, SameFrame
<1>9. OneCopy'
  BY <1>0, <1>3, <1>5 DEF OneCopy
<1>10. Listed'
  <2>1. ASSUME Policy = "FIFO", NEW g \in Frames, IPT'[g].valid,
               \A u \in Threads : ppn'[u] = g => pc'[u] = "fill"
        PROVE  g \in Elements(evictionList)
    <3>1. IPT[g].valid /\ \A u \in Threads : ppn[u] = g => pc[u] = "fill"
      BY <1>2, <1>3, <1>4, <2>1, Constants DEF SameFrame
    <3> QED BY <1>0, <2>1, <3>1 DEF Listed
  <2> QED BY <1>3, <2>1 DEF Listed, Elements
<1>11. TranslationsOwn' /\ NotTaken'
  BY <1>0, <1>3, <1>4, <1>5 DEF TranslationsOwn, NotTaken, Live, MySpace
<1> QED BY <1>6, <1>7, <1>8, <1>9, <1>10, <1>11 DEF Inv

(* HandlePageFault did not find the page: a frame in use that holds it would
   belong to a thread of the same process, and this one has the lock.       *)
LEMMA ScanMiss ==
    ASSUME Inv, TypeOK', NEW t \in Threads, Scan(t), InMemory(t) = {}
    PROVE  Inv'
<1> USE DEF tlbVars, frameVars, diskVars, faultVars
<1>0. TypeOK /\ Places /\ FramesKnown /\ Owners /\ Marked /\ OneCopy /\ Listed /\ TranslationsOwn /\ NotTaken
  BY DEF Inv
<1>1. /\ UNCHANGED <<currentThread, tlb, IPT, mainMemoryBitmap, evictionList, iptLock, pageTableLock,
                     ppn, vpn, dead>>
      /\ ~dead /\ iptLock = NoThread /\ pc[t] = "scan" /\ currentThread = t
      /\ pc'[t] = "alloc" /\ \A u \in Threads \ {t} : pc'[u] = pc[u]
  BY Basics DEF Scan, At
<1>2. ppn[t] = NoFrame
  BY <1>0, <1>1 DEF Place, Places
<1>3. \A x, y : Holding(x, y)' = Holding(x, y)
  BY <1>1, <1>2, Constants DEF Holding
<1>4. Holding(Space[t], vpn[t]) = {}
  <2> SUFFICES ASSUME NEW g \in Holding(Space[t], vpn[t]) PROVE FALSE
    OBVIOUS
  <2>1. /\ g \in Frames /\ IPT[g].valid /\ IPT[g].space = Space[t] /\ IPT[g].virtualPage = vpn[t]
        /\ \A u \in Threads : ~(pc[u] = "load" /\ ppn[u] = g)
    BY DEF Holding
  <2>2. IPT[g].use
    BY <2>1 DEF InMemory, MySpace
  <2>3. PICK u \in Threads : ppn[u] = g
    BY <1>0, <2>1, <2>2 DEF FramesKnown
  <2>4. pc[u] = "fill"
    BY <1>0, <1>1, <2>1, <2>3, Basics, Constants DEF Place, Places
  <2>5. InFault(t) /\ InFault(u) /\ Space[u] = Space[t]
    BY <1>0, <1>1, <2>1, <2>3, <2>4 DEF Place, Places, InFault
  <2> QED BY <1>1, <2>4, <2>5, Basics
<1>5. Places'
  <2>1. \A u \in Threads : InFault(u)' <=> InFault(u)
    BY <1>1 DEF InFault
  <2> QED BY <1>0, <1>1, <2>1 DEF Place, Places
<1>6. FramesKnown' /\ Owners' /\ Marked' /\ StopsOnlyWhenFull'
  BY <1>0, <1>1 DEF FramesKnown, Owners, Marked, StopsOnlyWhenFull
<1>7. OneCopy'
  BY <1>0, <1>1, <1>3, <1>4 DEF OneCopy
<1>8. Listed'
  BY <1>0, <1>1, <1>2, Constants DEF Listed, Elements
<1>9. TranslationsOwn' /\ NotTaken'
  BY <1>0, <1>1, <1>3 DEF TranslationsOwn, NotTaken, Live, MySpace
<1> QED BY <1>5, <1>6, <1>7, <1>8, <1>9 DEF Inv

(* The bit map has a free frame.                                            *)
LEMMA TakeFreeStep ==
    ASSUME Inv, TypeOK', NEW t \in Threads, TakeFree(t)
    PROVE  Inv'
<1> USE DEF tlbVars, frameVars, diskVars, faultVars
<1>0. TypeOK /\ Places /\ FramesKnown /\ Owners /\ Marked /\ OneCopy /\ Listed /\ TranslationsOwn /\ NotTaken
  BY DEF Inv
<1>1. PICK f \in Frames \ mainMemoryBitmap :
         /\ mainMemoryBitmap' = mainMemoryBitmap \cup {f} /\ IPT' = [IPT EXCEPT ![f].use = TRUE]
         /\ ppn' = [ppn EXCEPT ![t] = f] /\ pc' = [pc EXCEPT ![t] = "load"]
  BY <1>0, TakeFreeFacts
<1>2. /\ IPT'[f].use /\ IPT'[f].valid = IPT[f].valid /\ IPT'[f].space = IPT[f].space
      /\ IPT'[f].virtualPage = IPT[f].virtualPage
      /\ \A g \in Frames : g # f => SameFrame(IPT', IPT, g)
  BY <1>1, Basics, UseFacts
<1>3. /\ UNCHANGED <<currentThread, tlb, evictionList, iptLock, pageTableLock, vpn, dead>>
      /\ ~dead /\ pc[t] = "alloc" /\ currentThread = t
      /\ pc'[t] = "load" /\ ppn'[t] = f
      /\ \A u \in Threads \ {t} : pc'[u] = pc[u] /\ ppn'[u] = ppn[u]
  BY <1>1, Basics DEF TakeFree, At
<1>4. ~IPT[f].valid /\ ppn[t] = NoFrame /\ \A u \in Threads : ppn[u] # f
  BY <1>0, <1>1, <1>3 DEF Marked, Place, Places
<1>5. \A x, y : Holding(x, y)' = Holding(x, y)
  <2>1. \A g \in Frames, u \in Threads : IPT[g].valid => (Loading(u, g)' <=> Loading(u, g))
    BY <1>3, <1>4, Constants DEF Loading
  <2> QED BY <1>2, <2>1, HoldingSame DEF SameFrame
<1>6. Places'
  <2>1. ASSUME NEW u \in Threads, u # t PROVE Place(u)'
    BY <1>2, <1>3, <1>4, <2>1, PlaceSame
  <2>2. Place(t)'
    BY <1>0, <1>2, <1>3, <1>4 DEF Place, Places, InFault
  <2> QED BY <2>1, <2>2 DEF Places
<1>7. FramesKnown' /\ StopsOnlyWhenFull'
  BY <1>0, <1>2, <1>3, <1>4, Constants DEF FramesKnown, SameFrame, StopsOnlyWhenFull
<1>8. Owners' /\ Marked'
  BY <1>0, <1>1, <1>2, <1>3, <1>4, Constants DEF Owners, Marked, SameFrame
<1>9. OneCopy'
  BY <1>0, <1>3, <1>5 DEF OneCopy
<1>10. Listed'
  <2>1. ASSUME Policy = "FIFO", NEW g \in Frames, IPT'[g].valid,
               \A u \in Threads : ppn'[u] = g => pc'[u] = "fill"
        PROVE  g \in Elements(evictionList)
    <3>1. IPT[g].valid /\ \A u \in Threads : ppn[u] = g => pc[u] = "fill"
      BY <1>2, <1>3, <1>4, <2>1, Constants DEF SameFrame
    <3> QED BY <1>0, <2>1, <3>1 DEF Listed
  <2> QED BY <1>3, <2>1 DEF Listed, Elements
<1>11. TranslationsOwn' /\ NotTaken'
  BY <1>0, <1>3, <1>4, <1>5 DEF TranslationsOwn, NotTaken, Live, MySpace
<1> QED BY <1>6, <1>7, <1>8, <1>9, <1>10, <1>11 DEF Inv

(* Evict finds a victim: it holds a page, and nobody works on it.           *)
LEMMA ChooseStep ==
    ASSUME Inv, TypeOK', NEW t \in Threads, ChooseVictim(t), ~dead'
    PROVE  Inv'
<1> USE DEF tlbVars, frameVars, diskVars, faultVars
<1>0. TypeOK /\ Places /\ FramesKnown /\ Owners /\ Marked /\ OneCopy /\ Listed /\ TranslationsOwn /\ NotTaken
  BY DEF Inv
<1>1. PICK f \in Victims :
         /\ IPT'[f].use /\ IPT'[f].valid = IPT[f].valid /\ IPT'[f].space = IPT[f].space
         /\ IPT'[f].virtualPage = IPT[f].virtualPage
         /\ \A g \in Frames : g # f => SameFrame(IPT', IPT, g)
         /\ tlb' \in [0 .. TLBSize - 1 -> TLBEntries]
         /\ \A i \in 0 .. TLBSize - 1 :
               tlb'[i].valid => tlb'[i] = tlb[i] /\ tlb[i].valid /\ tlb[i].physicalPage # f
         /\ evictionList' = IF Policy = "RAND" THEN evictionList ELSE Rotated
         /\ iptLock' = t /\ ppn' = [ppn EXCEPT ![t] = f] /\ pc' = [pc EXCEPT ![t] = "evict"]
         /\ dead' = dead
  BY <1>0, ChooseFacts
<1>2. f \in Frames /\ ~IPT[f].use
  BY <1>0, VictimFacts
<1>3. /\ UNCHANGED <<currentThread, mainMemoryBitmap, pageTableLock, vpn>>
      /\ ~dead /\ pc[t] = "alloc" /\ currentThread = t /\ iptLock = NoThread /\ mainMemoryBitmap = Frames
      /\ pc'[t] = "evict" /\ ppn'[t] = f
      /\ \A u \in Threads \ {t} : pc'[u] = pc[u] /\ ppn'[u] = ppn[u]
  BY <1>1, Basics DEF ChooseVictim, At
<1>4. ppn[t] = NoFrame /\ (\A u \in Threads : ppn[u] # f) /\ IPT[f].valid
  <2>1. \A u \in Threads : ppn[u] # f
    BY <1>2, Basics
  <2> QED BY <1>0, <1>2, <1>3, <2>1 DEF Place, Places, Marked
<1>5. \A x, y : Holding(x, y)' = Holding(x, y)
  <2>1. \A g \in Frames, u \in Threads : IPT[g].valid => (Loading(u, g)' <=> Loading(u, g))
    BY <1>3, <1>4, Constants DEF Loading
  <2> QED BY <1>1, <2>1, HoldingSame DEF SameFrame
<1>6. Places'
  <2>1. ASSUME NEW u \in Threads, u # t PROVE Place(u)'
    <3>1. iptLock' = u <=> iptLock = u
      BY <1>1, <1>3, <2>1, Constants
    <3> QED BY <1>1, <1>3, <1>4, <2>1, <3>1, PlaceSame
  <2>2. Place(t)'
    BY <1>0, <1>1, <1>2, <1>3, <1>4 DEF Place, Places, InFault
  <2> QED BY <2>1, <2>2 DEF Places
<1>7. FramesKnown' /\ StopsOnlyWhenFull'
  BY <1>0, <1>1, <1>3, <1>4, Constants DEF FramesKnown, SameFrame, StopsOnlyWhenFull
<1>8. Owners' /\ Marked'
  BY <1>0, <1>1, <1>2, <1>3, <1>4, Constants DEF Owners, Marked, SameFrame
<1>9. OneCopy'
  BY <1>0, <1>3, <1>5 DEF OneCopy
<1>10. Listed'
  <2>1. ASSUME Policy = "FIFO", NEW g \in Frames, IPT'[g].valid,
               \A u \in Threads : ppn'[u] = g => pc'[u] = "fill"
        PROVE  g \in Elements(Rotated)
    <3>1. g # f
      BY <1>3, <2>1
    <3>2. IPT[g].valid /\ \A u \in Threads : ppn[u] = g => pc[u] = "fill"
      BY <1>1, <1>3, <1>4, <2>1, <3>1, Constants DEF SameFrame
    <3> QED BY <1>0, <2>1, <3>1, <3>2, VictimFacts DEF Listed
  <2>2. Policy = "FIFO" => evictionList' = Rotated
    BY <1>1
  <2>3. Policy = "FIFO" => Elements(evictionList)' = Elements(Rotated)
    BY <2>2 DEF Elements
  <2> QED BY <2>1, <2>3 DEF Listed
<1>11. TranslationsOwn' /\ NotTaken'
  <2>1. Live(currentThread) /\ DOMAIN tlb = 0 .. TLBSize - 1 /\ DOMAIN tlb' = 0 .. TLBSize - 1
    BY <1>1, <1>3, Basics DEF Live
  <2>2. TranslationsOwn'
    BY <1>0, <1>1, <1>3, <1>5, <2>1 DEF TranslationsOwn, MySpace
  <2>3. NotTaken'
    BY <1>0, <1>1, <1>3, <2>1 DEF NotTaken
  <2> QED BY <2>2, <2>3
<1> QED BY <1>6, <1>7, <1>8, <1>9, <1>10, <1>11 DEF Inv

(* Evict finds no victim: all frames are worked on.                         *)
LEMMA NoVictim ==
    ASSUME Inv, TypeOK', NEW t \in Threads, ChooseVictim(t), dead'
    PROVE  Inv'
<1> USE DEF tlbVars, frameVars, diskVars, faultVars
<1>0. TypeOK /\ Places /\ FramesKnown /\ Owners /\ Marked /\ OneCopy /\ Listed /\ TranslationsOwn /\ NotTaken
  BY DEF Inv
<1>1. /\ Victims = {} /\ mainMemoryBitmap = Frames
      /\ UNCHANGED <<currentThread, tlb, IPT, mainMemoryBitmap, evictionList, iptLock, pageTableLock,
                     pc, ppn, vpn, swapMap>>
  BY DEF ChooseVictim, At
<1>2. ASSUME NEW f \in Frames PROVE IPT[f].use
  <2>1. CASE Policy = "RAND"
    BY <1>1, <2>1 DEF Victims
  <2>2. CASE Policy = "FIFO"
    <3>1. \A k \in 1 .. Len(evictionList) : IPT[evictionList[k]].use
      BY <1>1, <2>2 DEF Victims
    <3>2. CASE \E u \in Threads : ppn[u] = f
      BY <3>2, Basics
    <3>3. CASE \A u \in Threads : ppn[u] # f
      <4>1. IPT[f].valid
        BY <1>0, <1>1, <3>3 DEF Marked
      <4>2. f \in Elements(evictionList)
        BY <1>0, <2>2, <3>3, <4>1 DEF Listed
      <4> QED BY <3>1, <4>2 DEF Elements
    <3> QED BY <3>2, <3>3
  <2> QED BY <2>1, <2>2, VMAssumption
<1>3. StopsOnlyWhenFull'
  BY <1>1, <1>2 DEF StopsOnlyWhenFull
<1>4. \A x, y : Holding(x, y)' = Holding(x, y)
  BY <1>1 DEF Holding
<1>5. Places' /\ FramesKnown' /\ Owners' /\ Marked' /\ Listed'
  BY <1>0, <1>1 DEF Places, Place, InFault, FramesKnown, Owners, Marked, Listed, Elements
<1>6. OneCopy'
  BY <1>0, <1>1, <1>4 DEF OneCopy
<1>7. TranslationsOwn' /\ NotTaken'
  BY <1>0, <1>1, <1>4 DEF TranslationsOwn, NotTaken, Live, MySpace
<1> QED BY <1>3, <1>5, <1>6, <1>7 DEF Inv

(* The end of Evict: no translation to the victim is left.                  *)
LEMMA WriteOutStep ==
    ASSUME Inv, TypeOK', NEW t \in Threads, WriteOut(t)
    PROVE  Inv'
<1> USE DEF tlbVars, frameVars, diskVars, faultVars
<1>0. TypeOK /\ Places /\ FramesKnown /\ Owners /\ Marked /\ OneCopy /\ Listed /\ TranslationsOwn /\ NotTaken
  BY DEF Inv
<1>1. /\ UNCHANGED <<currentThread, tlb, IPT, mainMemoryBitmap, evictionList, pageTableLock, ppn, vpn>>
      /\ ~dead /\ pc[t] = "evict" /\ currentThread = t
  BY DEF WriteOut, At
<1>2. ppn[t] \in Frames /\ IPT[ppn[t]].use /\ iptLock = t /\ InFault(t) /\ pageTableLock[Space[t]] = t
  BY <1>0, <1>1 DEF Place, Places, InFault
<1>3. CASE dead'
  <2>1. UNCHANGED <<iptLock, pc, swapMap>> /\ swapMap = Slots
    BY <1>1, <1>3 DEF WriteOut
  <2>2. \A x, y : Holding(x, y)' = Holding(x, y)
    BY <1>1, <2>1 DEF Holding
  <2>3. Places' /\ FramesKnown' /\ Owners' /\ Marked' /\ Listed' /\ StopsOnlyWhenFull'
    BY <1>0, <1>1, <2>1 DEF Places, Place, InFault, FramesKnown, Owners, Marked, Listed, Elements, StopsOnlyWhenFull
  <2>4. OneCopy'
    BY <1>0, <1>1, <2>1, <2>2 DEF OneCopy
  <2>5. TranslationsOwn' /\ NotTaken'
    BY <1>0, <1>1, <2>1, <2>2 DEF TranslationsOwn, NotTaken, Live, MySpace
  <2> QED BY <2>3, <2>4, <2>5 DEF Inv
<1>4. CASE ~dead'
  <2>1. /\ iptLock' = NoThread /\ pc' = [pc EXCEPT ![t] = "load"]
        /\ pc'[t] = "load" /\ \A u \in Threads \ {t} : pc'[u] = pc[u]
    <3>1. iptLock' = NoThread /\ pc' = [pc EXCEPT ![t] = "load"]
      BY <1>1, <1>4 DEF WriteOut
    <3> QED BY <3>1, Basics
  <2>2. \A x, y : Holding(x, y)' = Holding(x, y) \ {ppn[t]}
    BY <1>1, <2>1 DEF Holding
  <2>3. Places'
    <3>1. ASSUME NEW u \in Threads, u # t PROVE Place(u)'
      <4>1. iptLock' = u <=> iptLock = u
        BY <1>2, <2>1, <3>1, Constants
      <4> QED BY <1>1, <2>1, <3>1, <4>1, PlaceSame DEF SameFrame
    <3>2. Place(t)'
      BY <1>1, <1>2, <2>1, Constants DEF Place, InFault
    <3> QED BY <3>1, <3>2 DEF Places
  <2>4. FramesKnown' /\ Owners' /\ Marked' /\ StopsOnlyWhenFull'
    BY <1>0, <1>1, <1>4 DEF FramesKnown, Owners, Marked, StopsOnlyWhenFull
  <2>5. OneCopy'
    BY <1>0, <1>1, <2>1, <2>2 DEF OneCopy
  <2>6. Listed'
    BY <1>0, <1>1, <2>1 DEF Listed, Elements
  <2>7. TranslationsOwn' /\ NotTaken'
    <3>1. \A i \in DOMAIN tlb : tlb[i].valid => tlb[i].physicalPage # ppn[t]
      BY <1>0, <1>1 DEF NotTaken, Live
    <3>2. TranslationsOwn'
      BY <1>0, <1>1, <2>1, <2>2, <3>1 DEF TranslationsOwn, Live, MySpace
    <3>3. NotTaken'
      BY <1>0, <1>1, <2>1 DEF NotTaken, Live
    <3> QED BY <3>2, <3>3
  <2> QED BY <2>3, <2>4, <2>5, <2>6, <2>7 DEF Inv
<1> QED BY <1>3, <1>4

(* A list with one frame more has the old frames and the new one.           *)
LEMMA AppendElements ==
    ASSUME NEW q \in Seq(Frames), NEW f \in Frames
    PROVE  f \in Elements(Append(q, f)) /\ \A g \in Elements(q) : g \in Elements(Append(q, f))
<1>1. /\ Len(Append(q, f)) = Len(q) + 1 /\ Len(q) \in Nat /\ Append(q, f)[Len(q) + 1] = f
      /\ \A i \in 1 .. Len(q) : Append(q, f)[i] = q[i]
  OBVIOUS
<1>2. Len(q) + 1 \in 1 .. Len(q) + 1 /\ \A i \in 1 .. Len(q) : i \in 1 .. Len(q) + 1
  BY <1>1
<1> QED BY <1>1, <1>2 DEF Elements

(* The end of a fault: the frame now holds the page that the thread wanted,
   whether it did before or has just been loaded.                           *)
LEMMA FillStep ==
    ASSUME Inv, TypeOK', NEW t \in Threads, NEW f \in Frames, NEW I \in [Frames -> IPTEntries],
           FillTLB(t, f, I), f = ppn[t], ~dead, currentThread = t, pc[t] \in {"fill", "load"},
           I[f].valid, I[f].space = Space[t], I[f].virtualPage = vpn[t],
           \A g \in Frames : g # f => I[g] = IPT[g],
           UNCHANGED <<currentThread, mainMemoryBitmap, iptLock, dead>>,
           IF pc[t] = "load" /\ Policy = "FIFO" THEN evictionList' = Append(evictionList, f)
                                                ELSE UNCHANGED evictionList
    PROVE  Inv'
<1>0. TypeOK /\ Places /\ FramesKnown /\ Owners /\ Marked /\ OneCopy /\ Listed /\ TranslationsOwn /\ NotTaken
  BY DEF Inv
<1>1. /\ ~IPT'[f].use /\ IPT'[f].valid /\ IPT'[f].space = Space[t] /\ IPT'[f].virtualPage = vpn[t]
      /\ \A g \in Frames : g # f => SameFrame(IPT', IPT, g)
      /\ tlb' \in [0 .. TLBSize - 1 -> TLBEntries]
      /\ \A i \in 0 .. TLBSize - 1 :
            \/ tlb'[i] = tlb[i]
            \/ tlb'[i].valid /\ tlb'[i].physicalPage = f /\ tlb'[i].virtualPage = vpn[t]
      /\ pageTableLock' = [pageTableLock EXCEPT ![Space[t]] = NoThread]
      /\ pc' = [pc EXCEPT ![t] = "user"] /\ ppn' = [ppn EXCEPT ![t] = NoFrame]
      /\ vpn' = [vpn EXCEPT ![t] = 0]
  BY <1>0, FillFacts DEF SameFrame
<1>2. /\ pc'[t] = "user" /\ ppn'[t] = NoFrame /\ Space[t] \in Spaces /\ pageTableLock'[Space[t]] = NoThread
      /\ \A u \in Threads \ {t} : pc'[u] = pc[u] /\ ppn'[u] = ppn[u] /\ vpn'[u] = vpn[u]
      /\ \A x \in Spaces \ {Space[t]} : pageTableLock'[x] = pageTableLock[x]
  BY <1>1, Basics, Constants
<1>3. /\ InFault(t) /\ pageTableLock[Space[t]] = t /\ iptLock # t
      /\ \A u \in Threads \ {t} : ppn[u] # f
      /\ \A u \in Threads \ {t} : InFault(u) => Space[u] # Space[t]
  BY <1>0, Basics, Constants DEF Place, Places, InFault, Owners
<1>4. Places'
  <2>1. ASSUME NEW u \in Threads, u # t PROVE Place(u)'
    <3>1. pageTableLock'[Space[u]] = u <=> pageTableLock[Space[u]] = u
      BY <1>2, <1>3, <2>1, Constants
    <3>2. ppn[u] \in Frames => SameFrame(IPT', IPT, ppn[u])
      BY <1>1, <1>3, <2>1
    <3> QED BY <1>2, <2>1, <3>1, <3>2, PlaceSame
  <2>2. Place(t)'
    BY <1>2, <1>3, Constants DEF Place, InFault
  <2> QED BY <2>1, <2>2 DEF Places
<1>5. FramesKnown' /\ StopsOnlyWhenFull'
  <2>1. ASSUME NEW g \in Frames, IPT'[g].use PROVE \E u \in Threads : ppn'[u] = g
    <3>1. g # f /\ IPT[g].use
      BY <1>1, <2>1 DEF SameFrame
    <3>2. PICK u \in Threads : ppn[u] = g
      BY <1>0, <3>1 DEF FramesKnown
    <3> QED BY <1>2, <3>1, <3>2
  <2>2. \A g \in Frames : IPT'[g].valid => IPT'[g].space \in Spaces
    BY <1>0, <1>1, <1>2 DEF FramesKnown, SameFrame
  <2> QED BY <2>1, <2>2 DEF FramesKnown, StopsOnlyWhenFull
<1>6. Owners' /\ Marked'
  <2>1. Owners'
    BY <1>0, <1>2 DEF Owners
  <2>2. ASSUME NEW g \in Frames
        PROVE  g \in mainMemoryBitmap' <=> IPT'[g].valid \/ \E u \in Threads : ppn'[u] = g
    <3>1. CASE g = f
      BY <1>0, <1>1, <3>1 DEF Marked
    <3>2. CASE g # f
      <4>1. (\E u \in Threads : ppn'[u] = g) <=> (\E u \in Threads : ppn[u] = g)
        BY <1>2, <3>2, Constants
      <4>2. IPT'[g].valid = IPT[g].valid
        BY <1>1, <3>2 DEF SameFrame
      <4> QED BY <1>0, <4>1, <4>2 DEF Marked
    <3> QED BY <3>1, <3>2
  <2> QED BY <2>1, <2>2 DEF Marked
<1>7. ASSUME NEW x, NEW y
      PROVE  Holding(x, y)' = Holding(x, y) \cup (IF x = Space[t] /\ y = vpn[t] THEN {f} ELSE {})
  <2>1. ASSUME NEW g \in Frames, g # f PROVE g \in Holding(x, y)' <=> g \in Holding(x, y)
    <3>1. (\E u \in Threads : Loading(u, g)') <=> (\E u \in Threads : Loading(u, g))
      BY <1>2, <2>1, Constants DEF Loading
    <3> QED BY <1>1, <2>1, <3>1 DEF Holding, SameFrame, Loading
  <2>2. f \in Holding(x, y)' <=> x = Space[t] /\ y = vpn[t]
    BY <1>1, <1>2, <1>3 DEF Holding
  <2>3. f \in Holding(x, y) => x = Space[t] /\ y = vpn[t]
    BY <1>0 DEF Holding, Place, Places
  <2>4. Holding(x, y) \subseteq Frames /\ Holding(x, y)' \subseteq Frames
    BY DEF Holding
  <2> QED BY <2>1, <2>2, <2>3, <2>4
<1>8. OneCopy'
  <2>1. Holding(Space[t], vpn[t]) \subseteq {f}
    <3>1. CASE pc[t] = "load"
      BY <1>0, <3>1 DEF OneCopy
    <3>2. CASE pc[t] = "fill"
      <4>1. f \in Holding(Space[t], vpn[t])
        BY <1>0, <1>3, <3>2 DEF Holding, Place, Places
      <4> QED BY <1>0, <1>2, <4>1, Basics DEF OneCopy
    <3> QED BY <3>1, <3>2
  <2>2. \A x \in Spaces, y \in Pages : \A g, h \in Holding(x, y)' : g = h
    BY <1>0, <1>7, <2>1 DEF OneCopy
  <2>3. ASSUME NEW u \in Threads, pc'[u] \in {"alloc", "evict", "load"}
        PROVE  Holding(Space[u], vpn[u])' = {}
    <3>1. PICK y : u # t /\ pc[u] \in {"alloc", "evict", "load"} /\ y = vpn[u] /\ y = vpn'[u]
      BY <1>2, <2>3
    <3>2. Space[u] # Space[t] /\ Holding(Space[u], y) = {}
      BY <1>0, <1>3, <3>1 DEF InFault, OneCopy
    <3>3. Holding(Space[u], y)' = {}
      BY <1>7, <3>2
    <3> QED BY <3>1, <3>3 DEF Holding
  <2> QED BY <2>2, <2>3 DEF OneCopy
<1>9. Listed'
  <2>1. ASSUME Policy = "FIFO", NEW g \in Frames, IPT'[g].valid,
               \A u \in Threads : ppn'[u] = g => pc'[u] = "fill"
        PROVE  g \in Elements(evictionList)'
    <3>0. evictionList \in Seq(Frames)
      BY <1>0 DEF TypeOK
    <3>1. CASE g = f /\ pc[t] = "load"
      <4>1. evictionList' = Append(evictionList, f)
        BY <2>1, <3>1
      <4> QED BY <3>0, <3>1, <4>1, AppendElements DEF Elements
    <3>2. CASE ~(g = f /\ pc[t] = "load")
      <4>1. IPT[g].valid
        BY <1>0, <1>1, <2>1, <3>2 DEF SameFrame, Place, Places
      <4>2. \A u \in Threads : ppn[u] = g => pc[u] = "fill"
        BY <1>2, <1>3, <2>1, <3>2
      <4>3. g \in Elements(evictionList)
        BY <1>0, <2>1, <4>1, <4>2 DEF Listed
      <4>4. evictionList' = Append(evictionList, f) \/ evictionList' = evictionList
        OBVIOUS
      <4> QED BY <3>0, <4>3, <4>4, AppendElements DEF Elements
    <3> QED BY <3>1, <3>2
  <2> QED BY <2>1 DEF Listed
<1>10. TranslationsOwn' /\ NotTaken'
  <2>1. Live(currentThread) /\ DOMAIN tlb = 0 .. TLBSize - 1 /\ DOMAIN tlb' = 0 .. TLBSize - 1
    BY <1>1, Basics DEF Live
  <2>2. TranslationsOwn'
    <3>1. ASSUME NEW i \in 0 .. TLBSize - 1, tlb'[i].valid
          PROVE  (tlb[i].physicalPage \in Holding(Space[t], tlb[i].virtualPage))'
      <4>1. PICK g, y : g = tlb'[i].physicalPage /\ y = tlb'[i].virtualPage
        OBVIOUS
      <4>2. g \in Holding(Space[t], y) \/ (g = f /\ y = vpn[t])
        BY <1>0, <1>1, <2>1, <3>1, <4>1 DEF TranslationsOwn, MySpace
      <4>3. g \in Holding(Space[t], y)'
        BY <1>7, <4>2
      <4> QED BY <4>1, <4>3 DEF Holding
    <3> QED BY <2>1, <3>1 DEF TranslationsOwn, MySpace, Holding
  <2>3. NotTaken'
    BY <1>0, <1>1, <1>2, <1>3, <2>1 DEF NotTaken
  <2> QED BY <2>2, <2>3
<1> QED BY <1>4, <1>5, <1>6, <1>8, <1>9, <1>10 DEF Inv

(* A thread exits while no thread is in a fault: no frame is worked on.     *)
LEMMA ExitStep ==
    ASSUME Inv, TypeOK', Exits # "any", NEW t \in Threads, MayExit(t), NEW F \in SUBSET Frames, Drop(t, F)
    PROVE  Inv'
<1> USE DEF tlbVars, frameVars, diskVars, faultVars
<1>0. TypeOK /\ Places /\ FramesKnown /\ Owners /\ Marked /\ OneCopy /\ Listed
  BY DEF Inv
<1>1. /\ UNCHANGED <<currentThread, evictionList, iptLock, pageTableLock, ppn, vpn, dead>>
      /\ ~dead /\ currentThread = t /\ pc[t] = "user" /\ mainMemoryBitmap' = mainMemoryBitmap \ F
      /\ pc'[t] = "exited" /\ \A u \in Threads \ {t} : pc'[u] = pc[u]
  BY Basics DEF Drop, Cleared, MayExit, At
<1>2. ASSUME NEW u \in Threads PROVE ~InFault(u) /\ pc[u] \in {"user", "exited"} /\ ppn[u] = NoFrame
  <2>1. ~InFault(u)
    BY <1>1, VMAssumption DEF MayExit, Others, InFault
  <2> QED BY <1>0, <2>1 DEF Place, Places, InFault
<1>3. \A f \in Frames : \/ f \in F /\ ~IPT'[f].valid /\ ~IPT'[f].use
                        \/ f \notin F /\ IPT'[f] = IPT[f]
  <2>1. \A e \in IPTEntries : ~[e EXCEPT !.valid = FALSE, !.use = FALSE].valid
                             /\ ~[e EXCEPT !.valid = FALSE, !.use = FALSE].use
    BY DEF IPTEntries
  <2>2. \A f \in Frames : IF f \in F THEN IPT'[f] = [IPT[f] EXCEPT !.valid = FALSE, !.use = FALSE]
                                      ELSE IPT'[f] = IPT[f]
    BY DEF Drop
  <2> QED BY <2>1, <2>2, Basics
<1>4. \A u \in Threads : pc'[u] \in {"user", "exited"} /\ ~InFault(u)'
  BY <1>1, <1>2 DEF InFault
<1>5. Places'
  BY <1>0, <1>1, <1>2, <1>4 DEF Place, Places
<1>6. FramesKnown' /\ Owners' /\ StopsOnlyWhenFull'
  BY <1>0, <1>1, <1>3 DEF FramesKnown, Owners, StopsOnlyWhenFull
<1>7. Marked'
  BY <1>0, <1>1, <1>2, <1>3, Constants DEF Marked
<1>8. OneCopy'
  <2>1. \A x, y : Holding(x, y)' \subseteq Holding(x, y)
    BY <1>2, <1>3 DEF Holding
  <2> QED BY <1>0, <1>4, <2>1 DEF OneCopy
<1>9. Listed'
  BY <1>0, <1>1, <1>2, <1>3, Constants DEF Listed, Elements
<1>10. TranslationsOwn' /\ NotTaken'
  BY <1>1 DEF TranslationsOwn, NotTaken, Live
<1> QED BY <1>5, <1>6, <1>7, <1>8, <1>9, <1>10 DEF Inv

(* Every step keeps the invariant.                                          *)
LEMMA InvStep ==
    ASSUME Inv, Exits # "any", [Next]_vars
    PROVE  Inv'
<1> USE DEF tlbVars, frameVars, diskVars, faultVars
<1>1. CASE Next
  <2>1. PICK t \in Threads : ThreadNext(t)
    BY <1>1 DEF Next
  <2>2. TypeOK'
    BY <2>1, TypeStep
  <2>3. CASE Switch(t)
    BY <2>2, <2>3, SwitchStep
  <2>4. CASE \E v \in Pages : Write(t, v) \/ Fault(t, v)
    BY <2>2, <2>4, WriteStep, FaultStart
  <2>5. CASE Scan(t)
    BY <2>2, <2>5, ScanHit, ScanMiss
  <2>6. CASE TakeFree(t)
    BY <2>2, <2>6, TakeFreeStep
  <2>7. CASE ChooseVictim(t)
    BY <2>2, <2>7, ChooseStep, NoVictim
  <2>8. CASE WriteOut(t)
    BY <2>2, <2>8, WriteOutStep
  <2>9. CASE Fill(t)
    <3>1. /\ pc[t] = "fill" /\ currentThread = t /\ ~dead
          /\ UNCHANGED <<currentThread, mainMemoryBitmap, iptLock, dead, evictionList>>
      BY <2>9 DEF Fill, At
    <3>2. PICK f \in Frames : f = ppn[t]
      BY <3>1 DEF Inv, Place, Places
    <3>3. /\ FillTLB(t, f, IPT) /\ IPT \in [Frames -> IPTEntries] /\ IPT[f].valid
          /\ IPT[f].space = Space[t] /\ IPT[f].virtualPage = vpn[t]
      BY <2>9, <3>1, <3>2, Basics DEF Fill, Inv, Place, Places
    <3> QED BY <2>2, <3>1, <3>2, <3>3, FillStep
  <2>10. CASE Load(t)
    <3>1. /\ pc[t] = "load" /\ currentThread = t /\ ~dead
          /\ UNCHANGED <<currentThread, mainMemoryBitmap, iptLock, dead>>
          /\ evictionList' = IF Policy = "FIFO" THEN Append(evictionList, ppn[t]) ELSE evictionList
      BY <2>10 DEF Load, At
    <3>2. PICK f \in Frames : f = ppn[t]
      BY <3>1 DEF Inv, Place, Places
    <3>3. TypeOK /\ Places
      BY DEF Inv
    <3>4. PICK I \in [Frames -> IPTEntries] :
             /\ FillTLB(t, f, I) /\ I[f].valid /\ I[f].space = Space[t] /\ I[f].virtualPage = vpn[t]
             /\ \A g \in Frames : g # f => I[g] = IPT[g]
      BY <2>10, <3>2, <3>3, LoadFacts
    <3> QED BY <2>2, <3>1, <3>2, <3>4, FillStep
  <2>11. CASE ExitProcess(t)
    BY <2>2, <2>11, ExitStep DEF ExitProcess
  <2>12. CASE ExitThread(t)
    BY <2>2, <2>12, ExitStep DEF ExitThread
  <2> QED BY <2>1, <2>3, <2>4, <2>5, <2>6, <2>7, <2>8, <2>9, <2>10, <2>11, <2>12 DEF ThreadNext, FaultStep
<1>2. CASE UNCHANGED vars
  <2>1. UNCHANGED <<currentThread, tlb, currentTLB, IPT, mainMemoryBitmap, evictionList, mainMemory, iptLock,
                    pageTable, pageTableLock, swapFile, swapMap, pc, vpn, ppn, dead, latest>>
    BY <1>2 DEF vars
  <2>2. TypeOK'
    BY <2>1 DEF Inv, TypeOK
  <2>3. \A x, y : Holding(x, y)' = Holding(x, y)
    BY <2>1 DEF Holding
  <2>4. Places' /\ FramesKnown' /\ Owners' /\ Marked' /\ Listed' /\ StopsOnlyWhenFull'
    BY <2>1 DEF Inv, Places, Place, InFault, FramesKnown, Owners, Marked, Listed, Elements, StopsOnlyWhenFull
  <2>5. OneCopy'
    BY <2>1, <2>3 DEF Inv, OneCopy
  <2>6. TranslationsOwn' /\ NotTaken'
    BY <2>1, <2>3 DEF Inv, TranslationsOwn, NotTaken, Live, MySpace
  <2> QED BY <2>2, <2>4, <2>5, <2>6 DEF Inv
<1> QED BY <1>1, <1>2

-----------------------------------------------------------------------------
(* Every operation keeps the pages apart                                    *)

LEMMA DataInit == Init => DataInv
<1> SUFFICES ASSUME Init PROVE DataInv
  OBVIOUS
<1>1. ContentsOwn
  BY DEF Init, ContentsOwn
<1>2. ASSUME NEW s \in Spaces, NEW v \in Pages
      PROVE  /\ pageTable[s][v].location = IF v < NumExecPages THEN "IN_EXECUTABLE" ELSE "UNINIT"
             /\ latest[s][v] = IF v < NumExecPages THEN 0 ELSE -1
  BY DEF Init
<1>3. SlotsOwn /\ SlotsApart
  BY <1>2 DEF SlotsOwn, SlotsApart
<1> QED BY <1>1, <1>3 DEF DataInv

(* Handlers that only change which frames are used keep them.               *)
LEMMA DataSame ==
    ASSUME DataInv, UNCHANGED <<mainMemory, pageTable, swapFile, swapMap, latest>>,
           \A f \in Frames : IPT'[f].valid => /\ IPT[f].valid /\ IPT'[f].space = IPT[f].space
                                             /\ IPT'[f].virtualPage = IPT[f].virtualPage
    PROVE  DataInv'
<1>1. \A s, v : Versions(s, v)' = Versions(s, v)
  BY DEF Versions
<1>2. ContentsOwn'
  BY <1>1 DEF DataInv, ContentsOwn
<1>3. SlotsOwn' /\ SlotsApart'
  BY <1>1 DEF DataInv, SlotsOwn, SlotsApart
<1> QED BY <1>2, <1>3 DEF DataInv

(* What HandleIPTMiss brings into a frame was written to that page.         *)
LEMMA FetchedOwn ==
    ASSUME Inv, DataInv, NEW s \in Spaces, NEW v \in Pages
    PROVE  Fetched(s, v) \in Versions(s, v)
<1>1. /\ pageTable[s][v].location \in {"IN_EXECUTABLE", "IN_SWAP", "UNINIT"}
      /\ latest[s][v] \in -1 .. MaxWrites /\ MaxWrites \in Nat
  BY Constants DEF Inv, TypeOK, PageEntries
<1>2. CASE pageTable[s][v].location = "IN_EXECUTABLE"
  <2>1. latest[s][v] >= 0
    BY <1>2 DEF DataInv, SlotsOwn
  <2>2. 0 \in 0 .. latest[s][v]
    BY <1>1, <2>1
  <2> QED BY <1>2, <2>2 DEF Fetched, Versions
<1>3. CASE pageTable[s][v].location = "IN_SWAP"
  BY <1>3 DEF Fetched, DataInv, SlotsOwn
<1>4. CASE pageTable[s][v].location = "UNINIT"
  BY <1>4 DEF Fetched, Versions, DataInv, SlotsOwn
<1> QED BY <1>1, <1>2, <1>3, <1>4

(* A store goes to a frame with that page.                                  *)
LEMMA DataWrite ==
    ASSUME Inv, DataInv, NEW t \in Threads, NEW v \in Pages, Write(t, v)
    PROVE  DataInv'
<1> USE DEF tlbVars, frameVars, diskVars, faultVars
<1> DEFINE i == Lowest(Hits(v))
<1> DEFINE s == Space[t]
<1> DEFINE n == latest[s][v] + 1
<1> DEFINE f == tlb[i].physicalPage
<1>1. /\ mainMemory' = [mainMemory EXCEPT ![f] = <<s, v, n>>]
      /\ latest' = [latest EXCEPT ![s][v] = n]
      /\ UNCHANGED <<IPT, pageTable, swapFile, swapMap>>
      /\ currentThread = t /\ pc[t] = "user" /\ Hits(v) # {}
  BY DEF Write, MySpace, At
<1>2. /\ latest \in [Spaces -> [Pages -> -1 .. MaxWrites]] /\ mainMemory \in [Frames -> Data]
      /\ s \in Spaces /\ latest[s][v] \in -1 .. MaxWrites /\ MaxWrites \in Nat
  BY Constants DEF Inv, TypeOK
<1>3. f \in Frames /\ IPT[f].valid /\ IPT[f].space = s /\ IPT[f].virtualPage = v
  <2>1. tlb \in [0 .. TLBSize - 1 -> TLBEntries] /\ Hits(v) \in SUBSET Nat
    BY Basics, Constants DEF Hits
  <2>2. i \in Hits(v)
    BY <1>1, <2>1, LowestIn
  <2>3. i \in DOMAIN tlb /\ tlb[i].valid /\ tlb[i].virtualPage = v
    BY <2>2 DEF Hits
  <2> HIDE DEF i
  <2>4. f \in Holding(Space[t], v)
    BY <1>1, <2>3 DEF Inv, TranslationsOwn, Live, MySpace
  <2> QED BY <2>4 DEF Holding
<1> HIDE DEF i, f
<1>4. n \in Int /\ latest[s][v] \in Int /\ n \in 0 .. n
  BY <1>2
<1>5. ASSUME NEW r \in Spaces, NEW w \in Pages
      PROVE  /\ latest'[r][w] \in Int /\ latest[r][w] \in Int /\ latest[r][w] <= latest'[r][w]
             /\ Versions(r, w) \subseteq Versions(r, w)'
  <2>1. /\ latest[r][w] \in -1 .. MaxWrites
        /\ latest'[r][w] = IF r = s /\ w = v THEN n ELSE latest[r][w]
    BY <1>1, <1>2
  <2>2. latest'[r][w] \in Int /\ latest[r][w] \in Int /\ latest[r][w] <= latest'[r][w]
    BY <1>2, <2>1
  <2>3. 0 .. latest[r][w] \subseteq 0 .. latest'[r][w]
    BY <2>2
  <2> QED BY <2>2, <2>3 DEF Versions
<1>6. <<s, v, n>> \in Versions(s, v)'
  <2>1. latest'[s][v] = n
    BY <1>1, <1>2
  <2> QED BY <1>4, <2>1 DEF Versions
<1>7. ContentsOwn'
  <2> SUFFICES ASSUME NEW g \in Frames, IPT[g].valid
               PROVE  mainMemory'[g] \in Versions(IPT[g].space, IPT[g].virtualPage)'
    BY <1>1 DEF ContentsOwn
  <2>1. CASE g = f
    BY <1>1, <1>2, <1>3, <1>6, <2>1
  <2>2. CASE g # f
    <3>1. IPT[g].space \in Spaces /\ IPT[g].virtualPage \in Pages
      BY Basics DEF Inv, FramesKnown, IPTEntries
    <3>2. mainMemory'[g] \in Versions(IPT[g].space, IPT[g].virtualPage)
      BY <1>1, <1>2, <2>2 DEF DataInv, ContentsOwn
    <3> QED BY <1>1, <1>5, <3>1, <3>2
  <2> QED BY <2>1, <2>2
<1>8. SlotsOwn'
  <2> SUFFICES ASSUME NEW r \in Spaces, NEW w \in Pages
               PROVE  /\ w < NumExecPages => latest'[r][w] >= 0
                      /\ pageTable[r][w].location = "IN_SWAP" =>
                            swapFile[pageTable[r][w].offset] \in Versions(r, w)'
    BY <1>1 DEF DataInv, SlotsOwn
  <2> QED BY <1>5 DEF DataInv, SlotsOwn
<1>9. SlotsApart'
  BY <1>1 DEF DataInv, SlotsApart
<1> QED BY <1>7, <1>8, <1>9 DEF DataInv

(* Evict writes a dirty page to its own slot, or to one that no page has.   *)
LEMMA DataWriteOut ==
    ASSUME Inv, DataInv, NEW t \in Threads, WriteOut(t)
    PROVE  DataInv'
<1> USE DEF tlbVars, frameVars, diskVars, faultVars
<1> DEFINE f == ppn[t]
<1> DEFINE s == IPT[f].space
<1> DEFINE v == IPT[f].virtualPage
<1> DEFINE e == pageTable[s][v]
<1> DEFINE k == Slot(e)
<1>1. UNCHANGED <<IPT, mainMemory, latest>>
  BY DEF WriteOut
<1>2. CASE UNCHANGED <<swapFile, swapMap, pageTable>>
  BY <1>1, <1>2, DataSame
<1>3. CASE ~UNCHANGED <<swapFile, swapMap, pageTable>>
  <2>1. /\ e.location = "IN_SWAP" \/ swapMap # Slots
        /\ swapFile' = [swapFile EXCEPT ![k] = mainMemory[f]]
        /\ swapMap' = swapMap \cup {k}
        /\ pageTable' = [pageTable EXCEPT ![s][v].location = "IN_SWAP", ![s][v].offset = k]
        /\ pc[t] = "evict"
    BY <1>3 DEF WriteOut, At
  <2>2. f \in Frames /\ IPT[f].valid /\ IPT[f] \in IPTEntries
    BY <2>1, Basics DEF Inv, Place, Places
  <2>3. s \in Spaces /\ v \in Pages
    BY <2>2 DEF Inv, FramesKnown, IPTEntries
  <2>4. mainMemory[f] \in Versions(s, v)
    BY <2>2 DEF DataInv, ContentsOwn
  <2> HIDE DEF f, s, v
  <2>5. /\ pageTable \in [Spaces -> [Pages -> PageEntries]] /\ swapFile \in [Slots -> Data]
        /\ swapMap \subseteq Slots /\ e \in PageEntries
    BY <2>3 DEF Inv, TypeOK
  <2>6. /\ k \in Slots
        /\ \A r \in Spaces, w \in Pages :
              pageTable[r][w].location = "IN_SWAP" /\ pageTable[r][w].offset = k => r = s /\ w = v
    <3>1. CASE e.location = "IN_SWAP"
      <4>1. k = e.offset
        BY <3>1 DEF Slot
      <4>2. k \in swapMap
        BY <2>3, <3>1, <4>1 DEF DataInv, SlotsOwn
      <4> QED BY <2>3, <2>5, <3>1, <4>1, <4>2 DEF DataInv, SlotsApart
    <3>2. CASE e.location # "IN_SWAP"
      <4>1. k = Lowest(Slots \ swapMap)
        BY <3>2 DEF Slot
      <4>2. Slots \ swapMap \in SUBSET Nat /\ Slots \ swapMap # {}
        BY <2>1, <2>5, <3>2, Constants
      <4>3. k \in Slots \ swapMap
        BY <4>1, <4>2, LowestIn
      <4> QED BY <4>3 DEF DataInv, SlotsOwn
    <3> QED BY <3>1, <3>2
  <2> HIDE DEF k
  <2>7. ASSUME NEW r \in Spaces, NEW w \in Pages
        PROVE  IF r = s /\ w = v THEN /\ pageTable'[r][w].location = "IN_SWAP"
                                      /\ pageTable'[r][w].offset = k
                                 ELSE pageTable'[r][w] = pageTable[r][w]
    <3>1. \A x \in PageEntries : /\ [x EXCEPT !.location = "IN_SWAP", !.offset = k].location = "IN_SWAP"
                                  /\ [x EXCEPT !.location = "IN_SWAP", !.offset = k].offset = k
      BY DEF PageEntries
    <3>2. pageTable' = [pageTable EXCEPT ![s] = [pageTable[s] EXCEPT ![v] =
             [pageTable[s][v] EXCEPT !.location = "IN_SWAP", !.offset = k]]]
      BY <2>1, <2>3, <2>5
    <3> QED BY <2>3, <2>5, <3>1, <3>2
  <2>8. \A r, w : Versions(r, w)' = Versions(r, w)
    BY <1>1 DEF Versions
  <2>9. ContentsOwn'
    BY <1>1, <2>8 DEF DataInv, ContentsOwn
  <2>10. SlotsOwn'
    <3> SUFFICES ASSUME NEW r \in Spaces, NEW w \in Pages
                 PROVE  /\ pageTable'[r][w].location = "IN_EXECUTABLE" => w < NumExecPages
                        /\ pageTable'[r][w].location = "UNINIT" => ~(w < NumExecPages)
                        /\ w < NumExecPages => latest[r][w] >= 0
                        /\ pageTable'[r][w].location = "IN_SWAP" =>
                              /\ pageTable'[r][w].offset \in swapMap'
                              /\ swapFile'[pageTable'[r][w].offset] \in Versions(r, w)
      BY <1>1, <2>8 DEF SlotsOwn
    <3>1. CASE r = s /\ w = v
      BY <2>1, <2>3, <2>4, <2>5, <2>6, <2>7, <3>1 DEF DataInv, SlotsOwn
    <3>2. CASE ~(r = s /\ w = v)
      <4>1. pageTable'[r][w] = pageTable[r][w]
        BY <2>7, <3>2
      <4>2. ASSUME pageTable[r][w].location = "IN_SWAP"
            PROVE  /\ pageTable[r][w].offset \in swapMap /\ pageTable[r][w].offset # k
                   /\ swapFile[pageTable[r][w].offset] \in Versions(r, w)
        BY <2>6, <3>2, <4>2 DEF DataInv, SlotsOwn
      <4>3. \A j \in swapMap : j # k => swapFile'[j] = swapFile[j] /\ j \in swapMap'
        BY <2>1, <2>5
      <4> QED BY <4>1, <4>2, <4>3 DEF DataInv, SlotsOwn
    <3> QED BY <3>1, <3>2
  <2>11. SlotsApart'
    BY <2>6, <2>7 DEF DataInv, SlotsApart
  <2> QED BY <2>9, <2>10, <2>11 DEF DataInv
<1> QED BY <1>2, <1>3

(* A frame that is loaded gets what was written to its new page.            *)
LEMMA DataLoad ==
    ASSUME Inv, DataInv, NEW t \in Threads, Load(t)
    PROVE  DataInv'
<1> USE DEF tlbVars, frameVars, diskVars, faultVars
<1> DEFINE s == Space[t]
<1> DEFINE v == vpn[t]
<1>1. PICK I \in [Frames -> IPTEntries] :
         /\ FillTLB(t, ppn[t], I) /\ ppn[t] \in Frames
         /\ I[ppn[t]].valid /\ I[ppn[t]].space = s /\ I[ppn[t]].virtualPage = v
         /\ \A g \in Frames : g # ppn[t] => I[g] = IPT[g]
  BY LoadFacts DEF Inv
<1>2. PICK f \in Frames : f = ppn[t]
  BY <1>1
<1>3. /\ IPT'[f].space = s /\ IPT'[f].virtualPage = v
      /\ \A g \in Frames : g # f => SameFrame(IPT', IPT, g)
  <2>1. TypeOK
    BY DEF Inv
  <2>2. /\ IPT'[f].space = I[f].space /\ IPT'[f].virtualPage = I[f].virtualPage
        /\ \A g \in Frames : g # f => SameFrame(IPT', I, g)
    BY <1>1, <1>2, <2>1, FillFacts
  <2> QED BY <1>1, <1>2, <2>2 DEF SameFrame
<1>4. /\ mainMemory' = [mainMemory EXCEPT ![f] = Fetched(s, v)]
      /\ pageTable' = [pageTable EXCEPT ![s][v].physicalPage = f]
      /\ UNCHANGED <<swapFile, swapMap, latest>>
  BY <1>2 DEF Load, MySpace
<1>5. /\ s \in Spaces /\ v \in Pages /\ mainMemory \in [Frames -> Data]
      /\ pageTable \in [Spaces -> [Pages -> PageEntries]]
  BY Basics, Constants DEF Inv, TypeOK
<1>6. Fetched(s, v) \in Versions(s, v)
  BY <1>5, FetchedOwn
<1> HIDE DEF s, v
<1>7. \A r, w : Versions(r, w)' = Versions(r, w)
  BY <1>4 DEF Versions
<1>8. ASSUME NEW r \in Spaces, NEW w \in Pages
      PROVE  /\ pageTable'[r][w].location = pageTable[r][w].location
             /\ pageTable'[r][w].offset = pageTable[r][w].offset
  <2>1. \A x \in PageEntries : /\ [x EXCEPT !.physicalPage = f].location = x.location
                                /\ [x EXCEPT !.physicalPage = f].offset = x.offset
    BY DEF PageEntries
  <2>2. pageTable' = [pageTable EXCEPT ![s] = [pageTable[s] EXCEPT ![v] =
           [pageTable[s][v] EXCEPT !.physicalPage = f]]]
    BY <1>4, <1>5
  <2> QED BY <1>5, <2>1, <2>2
<1>9. ContentsOwn'
  <2> SUFFICES ASSUME NEW g \in Frames, IPT'[g].valid
               PROVE  mainMemory'[g] \in Versions(IPT'[g].space, IPT'[g].virtualPage)
    BY <1>7 DEF ContentsOwn
  <2>1. CASE g = f
    BY <1>3, <1>4, <1>5, <1>6, <2>1
  <2>2. CASE g # f
    BY <1>3, <1>4, <1>5, <2>2 DEF SameFrame, DataInv, ContentsOwn
  <2> QED BY <2>1, <2>2
<1>10. SlotsOwn' /\ SlotsApart'
  BY <1>4, <1>7, <1>8 DEF DataInv, SlotsOwn, SlotsApart
<1> QED BY <1>9, <1>10 DEF DataInv

(* Every step keeps the pages apart.                                        *)
LEMMA DataStep ==
    ASSUME Inv, DataInv, [Next]_vars
    PROVE  DataInv'
<1> USE DEF tlbVars, frameVars, diskVars, faultVars
<1>0. TypeOK /\ Places /\ IPT \in [Frames -> IPTEntries]
  BY DEF Inv, TypeOK
<1>1. ASSUME UNCHANGED <<mainMemory, pageTable, swapFile, swapMap, latest>>,
             \A f \in Frames : SameFrame(IPT', IPT, f)
      PROVE  DataInv'
  BY <1>1, DataSame DEF SameFrame
<1>2. ASSUME UNCHANGED <<mainMemory, pageTable, swapFile, swapMap, latest>>,
             NEW f \in Frames, IPT' = [IPT EXCEPT ![f].use = TRUE]
      PROVE  DataInv'
  <2>1. \A g \in Frames : /\ IPT'[g].valid = IPT[g].valid /\ IPT'[g].space = IPT[g].space
                          /\ IPT'[g].virtualPage = IPT[g].virtualPage
    BY <1>0, <1>2, UseFacts DEF SameFrame
  <2> QED BY <1>2, <2>1, DataSame
<1>3. ASSUME NEW t \in Threads, NEW F \in SUBSET Frames, Drop(t, F) PROVE DataInv'
  <2>1. \A x \in IPTEntries : ~[x EXCEPT !.valid = FALSE, !.use = FALSE].valid
    BY DEF IPTEntries
  <2>2. \A f \in Frames : IPT'[f].valid => IPT'[f] = IPT[f]
    BY <1>0, <1>3, <2>1 DEF Drop
  <2>3. UNCHANGED <<mainMemory, pageTable, swapFile, swapMap, latest>>
    BY <1>3 DEF Drop
  <2> QED BY <2>2, <2>3, DataSame
<1>4. CASE Next
  <2>1. PICK t \in Threads : ThreadNext(t)
    BY <1>4 DEF Next
  <2>2. CASE Switch(t)
    <3>1. \A f \in Frames : SameFrame(IPT', IPT, f)
      BY <1>0, <2>2, WrittenBackFacts DEF Switch
    <3> QED BY <1>1, <2>2, <3>1 DEF Switch
  <2>3. CASE \E v \in Pages : Write(t, v)
    BY <2>3, DataWrite
  <2>4. CASE \E v \in Pages : Fault(t, v)
    BY <1>1, <2>4 DEF Fault, SameFrame
  <2>5. CASE Scan(t)
    <3>1. UNCHANGED <<mainMemory, pageTable, swapFile, swapMap, latest>>
      BY <2>5 DEF Scan
    <3>2. CASE InMemory(t) # {}
      BY <1>0, <1>2, <2>5, <3>1, <3>2, ScanFacts
    <3>3. CASE InMemory(t) = {}
      BY <1>1, <2>5, <3>1, <3>3 DEF Scan, SameFrame
    <3> QED BY <3>2, <3>3
  <2>6. CASE TakeFree(t)
    <3>1. UNCHANGED <<mainMemory, pageTable, swapFile, swapMap, latest>>
      BY <2>6 DEF TakeFree
    <3> QED BY <1>0, <1>2, <2>6, <3>1, TakeFreeFacts
  <2>7. CASE ChooseVictim(t)
    <3>1. UNCHANGED <<mainMemory, pageTable, swapFile, swapMap, latest>>
      BY <2>7 DEF ChooseVictim
    <3>2. CASE ~dead'
      <4>1. \A g \in Frames : /\ IPT'[g].valid = IPT[g].valid /\ IPT'[g].space = IPT[g].space
                              /\ IPT'[g].virtualPage = IPT[g].virtualPage
        BY <1>0, <2>7, <3>2, ChooseFacts DEF SameFrame
      <4> QED BY <3>1, <4>1, DataSame
    <3>3. CASE dead'
      BY <1>1, <2>7, <3>1, <3>3 DEF ChooseVictim, At, SameFrame
    <3> QED BY <3>2, <3>3
  <2>8. CASE WriteOut(t)
    BY <2>8, DataWriteOut
  <2>9. CASE Fill(t)
    <3>1. ppn[t] \in Frames /\ FillTLB(t, ppn[t], IPT)
          /\ UNCHANGED <<mainMemory, pageTable, swapFile, swapMap, latest>>
      BY <1>0, <2>9 DEF Fill, At, Place, Places
    <3>2. \A g \in Frames : /\ IPT'[g].valid = IPT[g].valid /\ IPT'[g].space = IPT[g].space
                            /\ IPT'[g].virtualPage = IPT[g].virtualPage
      BY <1>0, <3>1, FillFacts DEF SameFrame
    <3> QED BY <3>1, <3>2, DataSame
  <2>10. CASE Load(t)
    BY <2>10, DataLoad
  <2>11. CASE ExitProcess(t)
    BY <1>3, <2>11 DEF ExitProcess
  <2>12. CASE ExitThread(t)
    BY <1>3, <2>12 DEF ExitThread
  <2> QED BY <2>1, <2>2, <2>3, <2>4, <2>5, <2>6, <2>7, <2>8, <2>9, <2>10, <2>11, <2>12 DEF ThreadNext, FaultStep
<1>5. CASE UNCHANGED vars
  BY <1>1, <1>5 DEF vars, SameFrame
<1> QED BY <1>4, <1>5

-----------------------------------------------------------------------------
(* The results                                                              *)

(* The invariant holds as long as threads exit only while no other thread is
   in a page fault.                                                         *)
THEOREM InvHolds == ASSUME Exits # "any" PROVE Spec => []Inv
<1>1. Inv /\ [Next]_vars => Inv'
  BY InvStep
<1> QED BY <1>1, InvInit, PTL DEF Spec

(* HandlePageFault and Evict: the use bit keeps two threads from working on
   one frame, for any number of threads, frames and pages.                  *)
THEOREM OneLoaderPerFrameHolds == ASSUME Exits # "any" PROVE Spec => []OneLoaderPerFrame
<1>1. Inv => OneLoaderPerFrame
  BY DEF Inv, Owners, OneLoaderPerFrame
<1> QED BY <1>1, InvHolds, PTL

(* mainMemoryBitmap marks the frames that hold a page or are about to.      *)
THEOREM BitmapExactHolds == ASSUME Exits # "any" PROVE Spec => []BitmapExact
<1>1. Inv => BitmapExact
  <2> SUFFICES ASSUME Inv PROVE BitmapExact
    OBVIOUS
  <2>1. \A t \in Threads : ppn[t] \in Frames => InFault(t)
    BY Basics DEF InFault
  <2> QED BY <2>1 DEF Inv, Marked, BitmapExact
<1> QED BY <1>1, InvHolds, PTL

(* HandlePageFault never brings a page into a second frame.                 *)
THEOREM OneFramePerPageHolds == ASSUME Exits # "any" PROVE Spec => []OneFramePerPage
<1>1. Inv => OneFramePerPage
  <2> SUFFICES ASSUME Inv, NEW s \in Spaces, NEW v \in Pages
               PROVE  Cardinality(Holding(s, v)) <= 1
    BY DEF OneFramePerPage
  <2>1. CASE Holding(s, v) = {}
    BY <2>1, FS_EmptySet
  <2>2. CASE Holding(s, v) # {}
    <3>1. PICK f : f \in Holding(s, v)
      BY <2>2
    <3>2. Holding(s, v) = {f}
      BY <3>1 DEF Inv, OneCopy
    <3>3. Cardinality({f}) = 1
      BY FS_Singleton
    <3> QED BY <3>2, <3>3
  <2> QED BY <2>1, <2>2
<1> QED BY <1>1, InvHolds, PTL

(* Evict: the machine stops only when every frame is worked on or the swap
   file is full.                                                            *)
THEOREM StopsOnlyWhenFullHolds == ASSUME Exits # "any" PROVE Spec => []StopsOnlyWhenFull
<1>1. Inv => StopsOnlyWhenFull
  BY DEF Inv
<1> QED BY <1>1, InvHolds, PTL

(* Evict and SaveState leave no translation to a frame that holds another
   page or is given away: the running thread reaches its own pages only.    *)
THEOREM TranslationsOwnHolds == ASSUME Exits # "any" PROVE Spec => []TranslationsOwn
<1>1. Inv => TranslationsOwn
  BY DEF Inv
<1> QED BY <1>1, InvHolds, PTL

(* Evict and HandleIPTMiss never bring into a page, of the same process or
   another, what was written to a different one.                            *)
THEOREM PagesNotMixedHolds == ASSUME Exits # "any" PROVE Spec => []PagesNotMixed
<1>1. Inv /\ DataInv => PagesNotMixed
  <2> SUFFICES ASSUME Inv, DataInv, NEW t \in Threads, NEW v \in Pages
               PROVE  /\ Fetched(MySpace(t), v) \in Versions(MySpace(t), v)
                      /\ \A f \in Holding(MySpace(t), v) : mainMemory[f] \in Versions(MySpace(t), v)
    BY DEF PagesNotMixed
  <2>1. MySpace(t) \in Spaces
    BY Constants DEF MySpace
  <2>2. Fetched(MySpace(t), v) \in Versions(MySpace(t), v)
    BY <2>1, FetchedOwn
  <2>3. \A f \in Holding(MySpace(t), v) : mainMemory[f] \in Versions(MySpace(t), v)
    BY DEF Holding, DataInv, ContentsOwn
  <2> QED BY <2>2, <2>3
<1>2. Inv /\ DataInv /\ [Next]_vars => DataInv'
  BY DataStep
<1> QED BY <1>1, <1>2, DataInit, InvHolds, PTL DEF Spec
=============================================================================
