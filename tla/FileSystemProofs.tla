-------------------------- MODULE FileSystemProofs --------------------------
(***************************************************************************)
(* Proofs about FileSystem for any disk, directory and file sizes: the     *)
(* bitmap is exact after every call, failures included, and the file       *)
(* system implements FileStore.                                            *)
(***************************************************************************)
EXTENDS FileSystem, FiniteSetTheorems, SequenceTheorems, WellFoundedInduction, TLAPS

(* The directory's entries name sectors, and each sector can hold a header. *)
Tables ==
    /\ freeMap \subseteq Sectors
    /\ directory \in [Entries -> [name : Names, sector : Sectors] \cup {NoFile}]
    /\ header = [s \in Sectors |-> header[s]]

Inv == Tables /\ SpaceExact

-----------------------------------------------------------------------------
(* Numbers                                                                  *)

(* A nonempty set of numbers has a least one.                               *)
LEMMA LeastNumber ==
    ASSUME NEW S \in SUBSET Nat, S # {}
    PROVE  \E n \in S : \A m \in S : n <= m
<1>1. PICK R : R = OpToRel(<, Nat)
  OBVIOUS
<1>2. IsWellFoundedOn(R, Nat)
  BY <1>1, NatLessThanWellFounded
<1>3. \A m, n \in Nat : m < n => <<m, n>> \in R
  BY <1>1 DEF OpToRel
<1>4. PICK n \in S : \A m \in S : ~ (<<m, n>> \in R)
  BY <1>2, WFMin
<1>5. \A m \in S : m \in Nat /\ n \in Nat /\ ~ (m < n)
  BY <1>3, <1>4
<1> QED BY <1>5

(* The number of elements of S below s.                                     *)
Below(S, s) == {r \in S : r < s}
Rank(S, s) == Cardinality(Below(S, s))

(* The ranks of the elements of a finite set are distinct and below its
   size.                                                                    *)
LEMMA RankBounds ==
    ASSUME NEW S \in SUBSET Nat, IsFiniteSet(S), NEW s \in S
    PROVE  /\ Rank(S, s) \in 0 .. Cardinality(S) - 1
           /\ \A u \in S : s < u => Rank(S, s) < Rank(S, u)
<1>1. ASSUME NEW T \in SUBSET S, NEW U \in SUBSET S, NEW x \in U, T \subseteq U, x \notin T
      PROVE  Cardinality(T) \in Nat /\ Cardinality(U) \in Nat /\ Cardinality(T) < Cardinality(U)
  <2>1. IsFiniteSet(U) /\ IsFiniteSet(T)
    BY FS_Subset
  <2>2. Cardinality(T) <= Cardinality(U) /\ (Cardinality(U) = Cardinality(T) => U = T)
    BY <1>1, <2>1, FS_Subset
  <2>3. Cardinality(T) \in Nat /\ Cardinality(U) \in Nat
    BY <2>1, FS_CardinalityType
  <2>4. U # T
    BY <1>1
  <2> QED BY <2>2, <2>3, <2>4
<1>2. Below(S, s) \in SUBSET S /\ s \notin Below(S, s)
  BY DEF Below
<1>3. /\ Cardinality(Below(S, s)) \in Nat /\ Cardinality(S) \in Nat
      /\ Cardinality(Below(S, s)) < Cardinality(S)
  BY <1>1, <1>2
<1>4. ASSUME NEW u \in S, s < u PROVE Rank(S, s) < Rank(S, u)
  <2>1. Below(S, u) \in SUBSET S /\ s \in Below(S, u) /\ Below(S, s) \subseteq Below(S, u)
    <3>1. \A r \in S : r < s => r < u
      BY <1>4
    <3> QED BY <1>4, <3>1 DEF Below
  <2> QED BY <1>1, <1>2, <2>1 DEF Rank
<1> QED BY <1>3, <1>4 DEF Rank

(* Every number below the size is the rank of an element: BitMap::Find, k
   times, finds k clear bits if there are that many.                        *)
LEMMA RankExists ==
    ASSUME NEW S \in SUBSET Nat, IsFiniteSet(S), NEW k \in Nat, k < Cardinality(S)
    PROVE  \E s \in S : Rank(S, s) = k
<1>1. PICK f : f = [s \in S |-> Rank(S, s)]
  OBVIOUS
<1>2. PICK T : T = 0 .. Cardinality(S) - 1
  OBVIOUS
<1>3. Cardinality(S) \in Nat
  BY FS_CardinalityType
<1>4. IsFiniteSet(T) /\ Cardinality(T) = Cardinality(S)
  BY <1>2, <1>3, FS_Interval
<1>5. f \in [S -> T]
  BY <1>1, <1>2, RankBounds
<1>6. \A s, u \in S : f[s] = f[u] => s = u
  <2> SUFFICES ASSUME NEW s \in S, NEW u \in S, s # u PROVE f[s] # f[u]
    OBVIOUS
  <2>1. s < u \/ u < s
    OBVIOUS
  <2>2. Rank(S, s) \in Int /\ Rank(S, u) \in Int
    BY <1>3, RankBounds
  <2>3. CASE s < u
    <3>1. Rank(S, s) < Rank(S, u)
      BY <2>3, RankBounds
    <3> QED BY <1>1, <2>2, <3>1
  <2>4. CASE u < s
    <3>1. Rank(S, u) < Rank(S, s)
      BY <2>4, RankBounds
    <3> QED BY <1>1, <2>2, <3>1
  <2> QED BY <2>1, <2>3, <2>4
<1>7. f \in Injection(S, T)
  BY <1>5, <1>6 DEF Injection, IsInjective
<1>8. f \in Surjection(S, T)
  BY <1>4, <1>7, FS_Injection
<1>9. k \in T
  BY <1>2, <1>3
<1> QED BY <1>1, <1>8, <1>9 DEF Surjection

-----------------------------------------------------------------------------
(* Division                                                                 *)

(* An offset is a sector and an offset in it.                               *)
LEMMA DivFacts ==
    ASSUME NEW p \in Nat
    PROVE  /\ p \div SectorSize \in Nat /\ p % SectorSize \in 0 .. SectorSize - 1
           /\ p = SectorSize * (p \div SectorSize) + (p % SectorSize)
<1>1. SectorSize \in Nat \ {0}
  BY FileAssumption
<1>2. p \div SectorSize \in Int /\ p % SectorSize \in 0 .. SectorSize - 1
  BY <1>1
<1>3. p \div SectorSize \in Nat
  BY <1>1
<1>4. p = SectorSize * (p \div SectorSize) + (p % SectorSize)
  BY <1>1
<1> QED BY <1>2, <1>3, <1>4

(* Products with the sector size.                                           *)
LEMMA TimesFacts ==
    ASSUME NEW a \in Nat, NEW b \in Nat
    PROVE  /\ SectorSize * a \in Nat /\ SectorSize * b \in Nat
           /\ a < b => SectorSize * a + SectorSize <= SectorSize * b
           /\ a * SectorSize = SectorSize * a
<1>1. SectorSize \in Nat \ {0}
  BY FileAssumption
<1>2. SectorSize * a \in Nat /\ SectorSize * b \in Nat /\ a * SectorSize = SectorSize * a
  BY <1>1
<1>3. ASSUME a < b PROVE SectorSize * a + SectorSize <= SectorSize * b
  <2>1. PICK d \in Nat : b = a + 1 + d
    <3>1. b - a - 1 \in Nat /\ b = a + 1 + (b - a - 1)
      BY <1>3
    <3> QED BY <3>1
  <2>2. SectorSize * (a + 1 + d) = SectorSize * a + SectorSize + SectorSize * d
    BY <1>1
  <2>3. SectorSize * d \in Nat
    BY <1>1
  <2> QED BY <1>1, <1>2, <2>1, <2>2, <2>3
<1> QED BY <1>2, <1>3

(* The sector and the offset in it are unique.                              *)
LEMMA DivUnique ==
    ASSUME NEW q \in Nat, NEW r \in 0 .. SectorSize - 1, NEW p \in Nat, p = SectorSize * q + r
    PROVE  p \div SectorSize = q /\ p % SectorSize = r
<1>1. SectorSize \in Nat \ {0}
  BY FileAssumption
<1>2. PICK u : u = p \div SectorSize
  OBVIOUS
<1>3. PICK v : v = p % SectorSize
  OBVIOUS
<1>4. u \in Nat /\ v \in 0 .. SectorSize - 1 /\ SectorSize * q + r = SectorSize * u + v
  BY <1>2, <1>3, DivFacts
<1>5. /\ SectorSize * q \in Nat /\ SectorSize * u \in Nat
      /\ q < u => SectorSize * q + SectorSize <= SectorSize * u
      /\ u < q => SectorSize * u + SectorSize <= SectorSize * q
  BY <1>4, TimesFacts
<1>6. u = q
  BY <1>1, <1>4, <1>5
<1> QED BY <1>1, <1>2, <1>3, <1>4, <1>5, <1>6

(* Later bytes are in later sectors.                                        *)
LEMMA DivMonotone ==
    ASSUME NEW p \in Nat, NEW m \in Nat, p <= m
    PROVE  p \div SectorSize <= m \div SectorSize
<1>1. SectorSize \in Nat \ {0}
  BY FileAssumption
<1>2. PICK u : u = p \div SectorSize
  OBVIOUS
<1>3. PICK v : v = m \div SectorSize
  OBVIOUS
<1>4. PICK x : x = p % SectorSize
  OBVIOUS
<1>5. PICK y : y = m % SectorSize
  OBVIOUS
<1>6. /\ u \in Nat /\ v \in Nat /\ x \in 0 .. SectorSize - 1 /\ y \in 0 .. SectorSize - 1
      /\ p = SectorSize * u + x /\ m = SectorSize * v + y
  BY <1>2, <1>3, <1>4, <1>5, DivFacts
<1>7. /\ SectorSize * v \in Nat /\ SectorSize * u \in Nat
      /\ v < u => SectorSize * v + SectorSize <= SectorSize * u
  BY <1>6, TimesFacts
<1>8. u <= v
  BY <1>1, <1>6, <1>7
<1> QED BY <1>2, <1>3, <1>8

(* The header has a sector for each byte.                                   *)
LEMMA RoundUpFacts ==
    ASSUME NEW m \in Nat
    PROVE  /\ divRoundUp(m, SectorSize) \in Nat
           /\ \A p \in Nat : p < m => p \div SectorSize + 1 \in 1 .. divRoundUp(m, SectorSize)
           /\ Store!SectorsFor(m) = 1 + divRoundUp(m, SectorSize)
<1>1. SectorSize \in Nat \ {0}
  BY FileAssumption
<1>2. PICK q : q = m \div SectorSize
  OBVIOUS
<1>3. PICK r : r = m % SectorSize
  OBVIOUS
<1>4. /\ q \in Nat /\ r \in 0 .. SectorSize - 1 /\ m = SectorSize * q + r
      /\ SectorSize * q \in Nat
  BY <1>2, <1>3, DivFacts, TimesFacts
<1>5. divRoundUp(m, SectorSize) = q + (IF r > 0 THEN 1 ELSE 0)
  BY <1>2, <1>3 DEF divRoundUp
<1>6. divRoundUp(m, SectorSize) \in Nat
  BY <1>4, <1>5
<1>7. ASSUME NEW p \in Nat, p < m
      PROVE  p \div SectorSize + 1 \in 1 .. divRoundUp(m, SectorSize)
  <2>1. PICK u : u = p \div SectorSize
    OBVIOUS
  <2>2. u \in Nat /\ SectorSize * u \in Nat /\ SectorSize * u <= p
    BY <1>1, <2>1, DivFacts, TimesFacts
  <2>3. u <= q
    BY <1>2, <1>7, <2>1, DivMonotone
  <2>4. r = 0 => u # q
    BY <1>4, <1>7, <2>2
  <2> QED BY <1>4, <1>5, <2>1, <2>2, <2>3, <2>4
<1>8. Store!SectorsFor(m) = 1 + divRoundUp(m, SectorSize)
  <2>1. Store!SectorsFor(m) = 1 + (m + SectorSize - 1) \div SectorSize
    BY DEF Store!SectorsFor
  <2>2. m + SectorSize - 1 \in Nat
    BY <1>1
  <2>3. CASE r = 0
    <3>1. m + SectorSize - 1 = SectorSize * q + (SectorSize - 1) /\ SectorSize - 1 \in 0 .. SectorSize - 1
      BY <1>1, <1>4, <2>3
    <3>2. (m + SectorSize - 1) \div SectorSize = q
      BY <1>4, <2>2, <3>1, DivUnique
    <3> QED BY <1>4, <1>5, <2>1, <2>3, <3>2
  <2>4. CASE r # 0
    <3>1. m + SectorSize - 1 = SectorSize * (q + 1) + (r - 1) /\ r - 1 \in 0 .. SectorSize - 1
      <4>1. SectorSize * (q + 1) = SectorSize * q + SectorSize
        BY <1>1, <1>4
      <4> QED BY <1>1, <1>4, <2>4, <4>1
    <3>2. (m + SectorSize - 1) \div SectorSize = q + 1
      <4>1. q + 1 \in Nat
        BY <1>4
      <4> QED BY <2>2, <3>1, <4>1, DivUnique
    <3> QED BY <1>4, <1>5, <2>1, <2>4, <3>2
  <2> QED BY <2>3, <2>4
<1> QED BY <1>6, <1>7, <1>8

-----------------------------------------------------------------------------
(* The bitmap                                                               *)

(* The file system's own sectors are on the disk, which is finite.          *)
LEMMA DiskFacts ==
    /\ Sectors \in SUBSET Nat /\ IsFiniteSet(Sectors) /\ Reserved \subseteq Sectors
    /\ Entries \in SUBSET Nat
<1>1. /\ NumSectors \in Nat /\ NumDirEntries \in Nat /\ MapSectors \in Nat /\ DirSectors \in Nat
      /\ NumSectors >= 2 + MapSectors + DirSectors
  BY FileAssumption
<1>2. IsFiniteSet(Sectors)
  BY <1>1, FS_Interval DEF Sectors
<1>3. Sectors \in SUBSET Nat /\ Entries \in SUBSET Nat
  BY <1>1 DEF Sectors, Entries
<1>4. Reserved \subseteq Sectors
  BY <1>1 DEF Sectors, Reserved, FreeMapSector, DirectorySector, MapData, DirData
<1> QED BY <1>2, <1>3, <1>4

(* BitMap::Find returns a clear bit if there is one.                        *)
LEMMA FindFacts ==
    ASSUME NEW map \in SUBSET Sectors, NumClear(map) > 0
    PROVE  Find(map) \in Sectors \ map
<1>1. PICK C : C = Sectors \ map
  OBVIOUS
<1>2. C \in SUBSET Nat
  BY <1>1, DiskFacts
<1>3. C # {}
  BY <1>1, FS_EmptySet DEF NumClear
<1>4. \E s \in C : \A r \in C : s <= r
  BY <1>2, <1>3, LeastNumber
<1> QED BY <1>1, <1>4 DEF Find

(* k calls of Find return k clear bits, all different.                      *)
LEMMA FindAllFacts ==
    ASSUME NEW map \in SUBSET Sectors, NEW k \in Nat, k <= NumClear(map)
    PROVE  /\ FindAll(map, k) \in [1 .. k -> Sectors \ map]
           /\ \A i, j \in 1 .. k : FindAll(map, k)[i] = FindAll(map, k)[j] => i = j
<1>1. PICK C : C = Sectors \ map
  OBVIOUS
<1>2. C \in SUBSET Nat /\ IsFiniteSet(C)
  BY <1>1, DiskFacts, FS_Subset
<1>3. Cardinality(C) \in Nat /\ k <= Cardinality(C)
  BY <1>1, <1>2, FS_CardinalityType DEF NumClear
<1>4. PICK f : f = FindAll(map, k)
  OBVIOUS
<1>5. f = [i \in 1 .. k |-> CHOOSE s \in C : Rank(C, s) = i - 1]
  BY <1>1, <1>4 DEF FindAll, Rank, Below
<1>6. ASSUME NEW i \in 1 .. k PROVE f[i] \in C /\ Rank(C, f[i]) = i - 1
  <2>1. i - 1 \in Nat /\ i - 1 < Cardinality(C)
    BY <1>3
  <2>2. \E s \in C : Rank(C, s) = i - 1
    BY <1>2, <2>1, RankExists
  <2>3. f[i] = CHOOSE s \in C : Rank(C, s) = i - 1
    BY <1>5
  <2> QED BY <2>2, <2>3
<1>7. f \in [1 .. k -> C]
  BY <1>5, <1>6
<1>8. ASSUME NEW i \in 1 .. k, NEW j \in 1 .. k, f[i] = f[j] PROVE i = j
  <2>1. i - 1 = j - 1
    BY <1>6, <1>8
  <2> QED BY <2>1
<1> QED BY <1>1, <1>4, <1>7, <1>8

(* A header with as many sectors as its size needs, all different.          *)
Sound(h) ==
    /\ h \in Headers /\ Len(h.dataSectors) = divRoundUp(h.numBytes, SectorSize)
    /\ \A i, j \in DOMAIN h.dataSectors : h.dataSectors[i] = h.dataSectors[j] => i = j

(* A function on 1 .. m is a sequence.                                      *)
LEMMA FunIsSeq ==
    ASSUME NEW S, NEW m \in Nat, NEW f \in [1 .. m -> S]
    PROVE  f \in Seq(S) /\ Len(f) = m
<1>1. f \in Seq(S)
  BY SeqDef
<1>2. Len(f) \in Nat /\ DOMAIN f = 1 .. Len(f)
  BY <1>1, LenProperties
<1>3. DOMAIN f = 1 .. m
  OBVIOUS
<1>4. Len(f) = m
  BY <1>2, <1>3
<1> QED BY <1>1, <1>4

(* FileHeader::Allocate takes as many clear sectors as the size needs.      *)
LEMMA AllocateFacts ==
    ASSUME NEW map \in SUBSET Sectors, NEW size \in Nat,
           NumClear(map) >= divRoundUp(size, SectorSize)
    PROVE  /\ Blocks(Allocate(map, size)) \subseteq Sectors \ map
           /\ IsFiniteSet(Blocks(Allocate(map, size)))
           /\ Cardinality(Blocks(Allocate(map, size))) = divRoundUp(size, SectorSize)
           /\ Allocate(map, size).numBytes = size
           /\ Sound(Allocate(map, size))
<1>1. PICK k : k = divRoundUp(size, SectorSize)
  OBVIOUS
<1>2. k \in Nat
  <2>1. SectorSize \in Nat \ {0}
    BY FileAssumption
  <2>2. size \div SectorSize \in Nat
    BY <2>1
  <2> QED BY <1>1, <2>2 DEF divRoundUp
<1>3. IsFiniteSet(Sectors \ map)
  BY DiskFacts, FS_Subset
<1>4. NumClear(map) \in Nat /\ k <= NumClear(map)
  BY <1>1, <1>2, <1>3, FS_CardinalityType DEF NumClear
<1>5. PICK f : f = FindAll(map, k)
  OBVIOUS
<1>6. f \in [1 .. k -> Sectors \ map] /\ \A i, j \in 1 .. k : f[i] = f[j] => i = j
  BY <1>2, <1>4, <1>5, FindAllFacts
<1>7. PICK B : B = {f[i] : i \in 1 .. k}
  OBVIOUS
<1>8. Blocks(Allocate(map, size)) = B /\ Allocate(map, size).numBytes = size
  BY <1>1, <1>5, <1>6, <1>7 DEF Blocks, Allocate
<1>9. f \in Bijection(1 .. k, B)
  BY <1>6, <1>7 DEF Bijection, Injection, Surjection, IsInjective
<1>10. ExistsBijection(1 .. k, B)
  BY <1>9 DEF ExistsBijection
<1>11. IsFiniteSet(1 .. k) /\ Cardinality(1 .. k) = k
  BY <1>2, FS_Interval
<1>12. IsFiniteSet(B) /\ Cardinality(B) = k
  BY <1>10, <1>11, FS_Bijection
<1>13. Sound(Allocate(map, size))
  <2>1. f \in [1 .. k -> Sectors]
    BY <1>6
  <2>2. f \in Seq(Sectors) /\ Len(f) = k
    BY <1>2, <2>1, FunIsSeq
  <2>3. DOMAIN f = 1 .. k
    BY <1>6
  <2>4. PICK h : h = [numBytes |-> size, dataSectors |-> f]
    OBVIOUS
  <2>5. h \in Headers /\ h.numBytes = size /\ h.dataSectors = f
    BY <2>2, <2>4 DEF Headers
  <2>6. Sound(h)
    BY <1>1, <1>6, <2>2, <2>3, <2>5 DEF Sound
  <2> QED BY <1>1, <1>5, <2>4, <2>6 DEF Allocate
<1> QED BY <1>1, <1>6, <1>7, <1>8, <1>12, <1>13

-----------------------------------------------------------------------------
(* The calls                                                                *)

(* A call that changes neither the bitmap nor the directory nor a header.   *)
LEMMA SameSpace ==
    ASSUME Inv, UNCHANGED <<freeMap, directory, header>>
    PROVE  Inv'
<1>1. Files' = Files /\ \A i \in Files : Owned(i)' = Owned(i)
  BY DEF Files, Owned
<1>2. Tables'
  BY DEF Inv, Tables
<1>3. freeMap' = Reserved \cup UNION {Owned(i)' : i \in Files'}
  BY <1>1 DEF Inv, SpaceExact
<1> QED BY <1>1, <1>2, <1>3 DEF Inv, SpaceExact

(* The sectors of a file are marked.                                        *)
LEMMA OwnedMarked ==
    ASSUME Inv, NEW i \in Files
    PROVE  /\ i \in Entries /\ directory[i] \in [name : Names, sector : Sectors]
           /\ Owned(i) \subseteq freeMap /\ directory[i].sector \in Owned(i)
BY DEF Inv, Tables, SpaceExact, Files, Owned

(* What FileSystem::Create changes: a clear sector for the header and clear
   sectors for the contents, all different, and an unused entry.            *)
LEMMA CreateFacts ==
    ASSUME Inv, NEW n \in Names, NEW size \in Sizes, Create(n, size)
    PROVE  \E sector \in Sectors \ freeMap, e \in Entries, hdr \in Headers :
              /\ FindIndex(n) = {} /\ directory[e] = NoFile /\ e \notin Files
              /\ Sound(hdr) /\ hdr.numBytes = size /\ size \in Nat
              /\ Blocks(hdr) \subseteq Sectors \ (freeMap \cup {sector})
              /\ IsFiniteSet(Blocks(hdr))
              /\ Cardinality(Blocks(hdr)) = divRoundUp(size, SectorSize)
              /\ header' = [header EXCEPT ![sector] = hdr]
              /\ directory' = [directory EXCEPT ![e] = [name |-> n, sector |-> sector]]
              /\ freeMap' = (freeMap \cup {sector}) \cup Blocks(hdr)
<1>1. PICK sector : sector = Find(freeMap)
  OBVIOUS
<1>2. PICK map : map = freeMap \cup {sector}
  OBVIOUS
<1>3. PICK hdr : hdr = Allocate(map, size)
  OBVIOUS
<1>4. PICK e : e = CHOOSE i \in Unused : \A j \in Unused : i <= j
  OBVIOUS
<1>5. /\ FindIndex(n) = {} /\ NumClear(freeMap) > 0 /\ Unused # {}
      /\ NumClear(map) >= divRoundUp(size, SectorSize)
      /\ header' = [header EXCEPT ![sector] = hdr]
      /\ directory' = [directory EXCEPT ![e] = [name |-> n, sector |-> sector]]
      /\ freeMap' = map \cup Blocks(hdr)
  BY <1>1, <1>2, <1>3, <1>4 DEF Create, CanCreate
<1>6. freeMap \subseteq Sectors /\ size \in Nat
  BY FileAssumption DEF Inv, Tables
<1>7. sector \in Sectors \ freeMap
  BY <1>1, <1>5, <1>6, FindFacts
<1>8. e \in Unused
  <2>1. Unused \in SUBSET Nat
    BY DiskFacts DEF Unused
  <2>2. \E i \in Unused : \A j \in Unused : i <= j
    BY <1>5, <2>1, LeastNumber
  <2> QED BY <1>4, <2>2
<1>9. /\ Blocks(hdr) \subseteq Sectors \ map /\ IsFiniteSet(Blocks(hdr))
      /\ Cardinality(Blocks(hdr)) = divRoundUp(size, SectorSize) /\ hdr.numBytes = size
      /\ Sound(hdr)
  <2>1. map \in SUBSET Sectors
    BY <1>2, <1>6, <1>7
  <2> QED BY <1>3, <1>5, <1>6, <2>1, AllocateFacts
<1>10. e \in Entries /\ directory[e] = NoFile /\ e \notin Files
  BY <1>8 DEF Unused, Files
<1>11. hdr \in Headers
  BY <1>9 DEF Sound
<1> QED BY <1>2, <1>5, <1>6, <1>7, <1>9, <1>10, <1>11

(* FileSystem::Create.                                                      *)
LEMMA CreateStep ==
    ASSUME Inv, NEW n \in Names, NEW size \in Sizes, Create(n, size)
    PROVE  Inv'
<1>1. PICK sector \in Sectors \ freeMap, e \in Entries, hdr \in Headers :
         /\ FindIndex(n) = {} /\ directory[e] = NoFile /\ e \notin Files
         /\ hdr.numBytes = size /\ size \in Nat
         /\ Blocks(hdr) \subseteq Sectors \ (freeMap \cup {sector})
         /\ IsFiniteSet(Blocks(hdr))
         /\ Cardinality(Blocks(hdr)) = divRoundUp(size, SectorSize)
         /\ header' = [header EXCEPT ![sector] = hdr]
         /\ directory' = [directory EXCEPT ![e] = [name |-> n, sector |-> sector]]
         /\ freeMap' = (freeMap \cup {sector}) \cup Blocks(hdr)
  BY CreateFacts
<1>2. PICK map : map = freeMap \cup {sector}
  OBVIOUS
<1>5. /\ FindIndex(n) = {}
      /\ header' = [header EXCEPT ![sector] = hdr]
      /\ directory' = [directory EXCEPT ![e] = [name |-> n, sector |-> sector]]
      /\ freeMap' = map \cup Blocks(hdr)
  BY <1>1, <1>2
<1>6. freeMap \subseteq Sectors
  BY DEF Inv, Tables
<1>7. sector \in Sectors \ freeMap
  OBVIOUS
<1>9. /\ Blocks(hdr) \subseteq Sectors \ map /\ IsFiniteSet(Blocks(hdr))
      /\ Cardinality(Blocks(hdr)) = divRoundUp(size, SectorSize) /\ hdr.numBytes = size
  BY <1>1, <1>2
<1>10. e \in Entries /\ directory[e] = NoFile /\ e \notin Files
  BY <1>1
<1>11. PICK d : d = [name |-> n, sector |-> sector]
  OBVIOUS
<1>12. d \in [name : Names, sector : Sectors] /\ d # NoFile /\ d.name = n /\ d.sector = sector
  BY <1>7, <1>11, FileAssumption
<1>13. /\ directory'[e] = d /\ \A i \in Entries \ {e} : directory'[i] = directory[i]
       /\ directory' \in [Entries -> [name : Names, sector : Sectors] \cup {NoFile}]
  BY <1>5, <1>10, <1>11, <1>12 DEF Inv, Tables
<1>14. Files' = Files \cup {e}
  BY <1>10, <1>12, <1>13 DEF Files
<1>15. /\ header'[sector] = hdr
       /\ \A s \in Sectors \ {sector} : header'[s] = header[s]
       /\ header' = [s \in Sectors |-> header'[s]]
  BY <1>5, <1>7 DEF Inv, Tables
<1>16. Owned(e)' = {sector} \cup Blocks(hdr)
  BY <1>12, <1>13, <1>15 DEF Owned
<1>17. ASSUME NEW i \in Files
       PROVE  /\ directory'[i] = directory[i] /\ i # e
              /\ header'[directory[i].sector] = header[directory[i].sector]
              /\ Owned(i)' = Owned(i) /\ Owned(i) \subseteq freeMap
  <2>1. /\ i \in Entries /\ directory[i] \in [name : Names, sector : Sectors]
        /\ Owned(i) \subseteq freeMap /\ directory[i].sector \in Owned(i)
    BY OwnedMarked
  <2>2. directory[i].sector # sector /\ directory[i].sector \in Sectors
    BY <1>7, <2>1
  <2>3. directory'[i] = directory[i] /\ header'[directory[i].sector] = header[directory[i].sector]
    BY <1>10, <1>13, <1>15, <2>1, <2>2
  <2> QED BY <1>10, <2>1, <2>3 DEF Owned
<1>18. Tables'
  <2>1. freeMap' \subseteq Sectors
    BY <1>2, <1>5, <1>6, <1>7, <1>9
  <2> QED BY <1>13, <1>15, <2>1 DEF Tables
<1>19. freeMap' = Reserved \cup UNION {Owned(i)' : i \in Files'}
  <2>1. freeMap = Reserved \cup UNION {Owned(i) : i \in Files}
    BY DEF Inv, SpaceExact
  <2>2. ASSUME NEW x
        PROVE  x \in UNION {Owned(i)' : i \in Files'}
                  <=> x \in UNION {Owned(i) : i \in Files} \/ x \in Owned(e)'
    <3>1. \A i \in Files : x \in Owned(i)' <=> x \in Owned(i)
      BY <1>17
    <3> QED BY <1>14, <3>1
  <2>3. freeMap' = freeMap \cup Owned(e)'
    BY <1>2, <1>5, <1>16
  <2>4. PICK U : U = UNION {Owned(i) : i \in Files}
    OBVIOUS
  <2>5. PICK V : V = UNION {Owned(i)' : i \in Files'}
    OBVIOUS
  <2>6. V = U \cup Owned(e)'
    <3>1. \A x : x \in V <=> x \in U \/ x \in Owned(e)'
      BY <2>2, <2>4, <2>5
    <3> QED BY <3>1
  <2>7. freeMap = Reserved \cup U
    BY <2>1, <2>4
  <2>8. freeMap' = Reserved \cup V
    BY <2>3, <2>6, <2>7
  <2> QED BY <2>5, <2>8
<1>20. ASSUME NEW i \in Files'
       PROVE  /\ Owned(i)' \cap Reserved = {}
              /\ Cardinality(Owned(i)') = 1 + divRoundUp(header'[directory'[i].sector].numBytes, SectorSize)
  <2>1. CASE i \in Files
    BY <1>17, <2>1 DEF Inv, SpaceExact
  <2>2. CASE i = e
    <3>1. Reserved \subseteq freeMap
      BY DEF Inv, SpaceExact
    <3>2. Owned(e)' \cap Reserved = {}
      BY <1>2, <1>7, <1>9, <1>16, <3>1
    <3>3. sector \notin Blocks(hdr)
      BY <1>2, <1>9
    <3>4. Cardinality(Blocks(hdr) \cup {sector}) = Cardinality(Blocks(hdr)) + 1
      BY <1>9, <3>3, FS_AddElement
    <3>5. Cardinality(Blocks(hdr)) \in Nat
      BY <1>9, FS_CardinalityType
    <3>6. Blocks(hdr) \cup {sector} = Owned(e)'
      BY <1>16
    <3>7. header'[directory'[e].sector].numBytes = size
      BY <1>9, <1>12, <1>13, <1>15
    <3>8. Cardinality(Owned(e)') = 1 + divRoundUp(size, SectorSize)
      <4>1. Cardinality(Owned(e)') = Cardinality(Blocks(hdr)) + 1
        BY <3>4, <3>6
      <4> QED BY <1>9, <3>5, <4>1
    <3> QED BY <2>2, <3>2, <3>7, <3>8
  <2> QED BY <1>14, <2>1, <2>2
<1>21. ASSUME NEW i \in Files', NEW j \in Files', i # j
       PROVE  Owned(i)' \cap Owned(j)' = {} /\ directory'[i].name # directory'[j].name
  <2>1. CASE i \in Files /\ j \in Files
    BY <1>17, <1>21, <2>1 DEF Inv, SpaceExact
  <2>2. ASSUME NEW x \in Files PROVE Owned(x)' \cap Owned(e)' = {} /\ directory'[x].name # n
    <3>1. Owned(x)' \cap Owned(e)' = {}
      BY <1>2, <1>7, <1>9, <1>16, <1>17
    <3>2. directory[x].name # n
      BY <1>5 DEF FindIndex, Files
    <3> QED BY <1>17, <3>1, <3>2
  <2>3. directory'[e].name = n
    BY <1>12, <1>13
  <2> QED BY <1>14, <1>21, <2>1, <2>2, <2>3
<1> QED BY <1>18, <1>19, <1>20, <1>21 DEF Inv, SpaceExact

(* FileSystem::Remove.                                                      *)
LEMMA RemoveStep ==
    ASSUME Inv, NEW n \in Names, Remove(n)
    PROVE  Inv'
<1>1. PICK e : e = CHOOSE i \in FindIndex(n) : TRUE
  OBVIOUS
<1>2. e \in FindIndex(n)
  BY <1>1 DEF Remove
<1>3. e \in Files /\ directory[e].name = n
  BY <1>2 DEF FindIndex, Files
<1>4. ASSUME NEW i \in Entries PROVE i \in FindIndex(n) <=> i = e
  <2>1. i \in FindIndex(n) => i \in Files /\ directory[i].name = n
    BY DEF FindIndex, Files
  <2> QED BY <1>2, <1>3, <2>1 DEF Inv, SpaceExact
<1>5. PICK sector : sector = SectorOf(n)
  OBVIOUS
<1>6. sector = directory[e].sector
  BY <1>1, <1>5 DEF SectorOf
<1>7. /\ e \in Entries /\ directory[e] \in [name : Names, sector : Sectors]
      /\ Owned(e) \subseteq freeMap /\ directory[e].sector \in Owned(e)
  BY <1>3, OwnedMarked
<1>8. freeMap' = freeMap \ Owned(e)
  BY <1>5, <1>6 DEF Remove, Owned
<1>9. /\ directory' = [i \in Entries |-> IF i = e THEN NoFile ELSE directory[i]]
      /\ header' = [header EXCEPT ![sector] = NoFile]
  BY <1>4, <1>5 DEF Remove
<1>10. /\ directory'[e] = NoFile /\ \A i \in Entries \ {e} : directory'[i] = directory[i]
       /\ directory' \in [Entries -> [name : Names, sector : Sectors] \cup {NoFile}]
  BY <1>7, <1>9 DEF Inv, Tables
<1>11. Files' = Files \ {e}
  BY <1>10 DEF Files
<1>12. /\ \A s \in Sectors \ {sector} : header'[s] = header[s]
       /\ header' = [s \in Sectors |-> header'[s]]
  BY <1>9 DEF Inv, Tables
<1>13. ASSUME NEW i \in Files, i # e
       PROVE  /\ directory'[i] = directory[i]
              /\ header'[directory[i].sector] = header[directory[i].sector]
              /\ Owned(i)' = Owned(i) /\ Owned(i) \cap Owned(e) = {}
  <2>1. /\ i \in Entries /\ directory[i] \in [name : Names, sector : Sectors]
        /\ directory[i].sector \in Owned(i)
    BY OwnedMarked
  <2>2. Owned(i) \cap Owned(e) = {}
    BY <1>3, <1>13 DEF Inv, SpaceExact
  <2>3. directory[i].sector # sector /\ directory[i].sector \in Sectors
    BY <1>6, <1>7, <2>1, <2>2
  <2>4. directory'[i] = directory[i] /\ header'[directory[i].sector] = header[directory[i].sector]
    BY <1>10, <1>12, <1>13, <2>1, <2>3
  <2> QED BY <2>2, <2>4 DEF Owned
<1>14. Tables'
  BY <1>8, <1>10, <1>12 DEF Inv, Tables
<1>15. freeMap' = Reserved \cup UNION {Owned(i)' : i \in Files'}
  <2>1. freeMap = Reserved \cup UNION {Owned(i) : i \in Files}
    BY DEF Inv, SpaceExact
  <2>2. UNION {Owned(i)' : i \in Files'} = UNION {Owned(i) : i \in Files \ {e}}
    BY <1>11, <1>13
  <2>3. Reserved \cap Owned(e) = {}
    BY <1>3 DEF Inv, SpaceExact
  <2>4. (UNION {Owned(i) : i \in Files}) \ Owned(e) = UNION {Owned(i) : i \in Files \ {e}}
    BY <1>13
  <2> QED BY <1>8, <2>1, <2>2, <2>3, <2>4
<1>16. ASSUME NEW i \in Files'
       PROVE  /\ Owned(i)' \cap Reserved = {}
              /\ Cardinality(Owned(i)') = 1 + divRoundUp(header'[directory'[i].sector].numBytes, SectorSize)
  BY <1>11, <1>13 DEF Inv, SpaceExact
<1>17. ASSUME NEW i \in Files', NEW j \in Files', i # j
       PROVE  Owned(i)' \cap Owned(j)' = {} /\ directory'[i].name # directory'[j].name
  BY <1>11, <1>13, <1>17 DEF Inv, SpaceExact
<1> QED BY <1>14, <1>15, <1>16, <1>17 DEF Inv, SpaceExact

(* The formatted disk.                                                      *)
LEMMA InitInv == Init => Inv
<1> SUFFICES ASSUME Init PROVE Inv
  OBVIOUS
<1>1. Files = {}
  BY DEF Init, Files
<1>2. Tables
  BY DiskFacts DEF Init, Tables
<1> QED BY <1>1, <1>2 DEF Init, Inv, SpaceExact

(* Every call keeps the bitmap exact.                                       *)
LEMMA NextInv == Inv /\ [Next]_vars => Inv'
<1> SUFFICES ASSUME Inv, [Next]_vars PROVE Inv'
  OBVIOUS
<1>1. ASSUME NEW n \in Names, NEW size \in Sizes, Create(n, size) PROVE Inv'
  BY <1>1, CreateStep
<1>2. ASSUME NEW n \in Names, Remove(n) PROVE Inv'
  BY <1>2, RemoveStep
<1>3. ASSUME NEW n \in Names, OpenFails(n) \/ RemoveFails(n) \/ Open(n)
             \/ \E size \in Sizes : CreateFails(n, size)
      PROVE  Inv'
  BY <1>3, SameSpace DEF Open, OpenFails, RemoveFails, CreateFails, disk
<1>4. ASSUME NEW id \in Ids, Close(id) \/ (\E n \in Sizes : Read(id, n))
             \/ (\E bytes \in Data : Write(id, bytes)) \/ \E position \in Positions : Seek(id, position)
      PROVE  Inv'
  BY <1>4, SameSpace DEF Close, Read, Write, Seek, disk
<1>5. CASE Restart \/ UNCHANGED vars
  BY <1>5, SameSpace DEF Restart, disk, vars
<1> QED BY <1>1, <1>2, <1>3, <1>4, <1>5 DEF Next

(* The bitmap marks exactly the sectors of the files and of the file system
   itself, no sector is in two files, and no name is there twice, after
   every call of Create, Remove and the others, whether it fails or not.    *)
THEOREM SpaceExactHolds == Spec => []SpaceExact
<1>1. Init => Inv
  BY InitInv
<1>2. Inv /\ [Next]_vars => Inv'
  BY NextInv
<1>3. Inv => SpaceExact
  BY DEF Inv
<1> QED BY <1>1, <1>2, <1>3, PTL DEF Spec

-----------------------------------------------------------------------------
(* What the files contain                                                   *)

Byte == Bytes \cup {Junk}
OpenFiles == [hdr : Headers, seekPosition : Nat, name : Names]

Exists(n) == FindIndex(n) # {}
Hdr(n) == header[SectorOf(n)]

(* The byte of the file with header h at offset p.                          *)
Stored(h, p) == data[ByteToSector(h, p)][p % SectorSize]

Shapes ==
    \A i \in Files : /\ Sound(header[directory[i].sector])
                     /\ directory[i].sector \notin Blocks(header[directory[i].sector])

(* An open file exists, and its copy of the header is the one on the disk.  *)
Opens ==
    /\ fileTable \in [Ids -> OpenFiles \cup {NoFile}]
    /\ \A i \in Ids : fileTable[i] # NoFile =>
          Exists(fileTable[i].name) /\ fileTable[i].hdr = Hdr(fileTable[i].name)

Written == data \in [Sectors -> [0 .. SectorSize - 1 -> Byte]]

StoreInv == Inv /\ Shapes /\ Opens /\ Written

(* What a sound header says.                                                *)
LEMMA SoundFacts ==
    ASSUME NEW h, Sound(h)
    PROVE  /\ h.numBytes \in Nat /\ divRoundUp(h.numBytes, SectorSize) \in Nat
           /\ DOMAIN h.dataSectors = 1 .. divRoundUp(h.numBytes, SectorSize)
           /\ h.dataSectors \in [1 .. divRoundUp(h.numBytes, SectorSize) -> Sectors]
           /\ Blocks(h) \subseteq Sectors
           /\ h = [numBytes |-> h.numBytes, dataSectors |-> h.dataSectors]
<1>1. h.numBytes \in Nat /\ h.dataSectors \in Seq(Sectors)
      /\ h = [numBytes |-> h.numBytes, dataSectors |-> h.dataSectors]
  BY DEF Sound, Headers
<1>2. /\ DOMAIN h.dataSectors = 1 .. Len(h.dataSectors)
      /\ h.dataSectors \in [1 .. Len(h.dataSectors) -> Sectors]
  BY <1>1, LenProperties
<1>3. Len(h.dataSectors) = divRoundUp(h.numBytes, SectorSize)
  BY DEF Sound
<1>4. divRoundUp(h.numBytes, SectorSize) \in Nat
  BY <1>1, RoundUpFacts
<1>5. Blocks(h) \subseteq Sectors
  BY <1>2 DEF Blocks
<1> QED BY <1>1, <1>2, <1>3, <1>4, <1>5

(* The sectors of two bytes are the same only if the bytes are in the same
   sector of the file.                                                      *)
LEMMA ByteFacts ==
    ASSUME NEW h, Sound(h), NEW p \in Nat, p < h.numBytes
    PROVE  /\ ByteToSector(h, p) \in Sectors /\ ByteToSector(h, p) \in Blocks(h)
           /\ \A r \in Nat : r < h.numBytes /\ ByteToSector(h, r) = ByteToSector(h, p)
                 => r \div SectorSize = p \div SectorSize
<1>1. PICK k : k = divRoundUp(h.numBytes, SectorSize)
  OBVIOUS
<1>2. /\ h.numBytes \in Nat /\ DOMAIN h.dataSectors = 1 .. k
      /\ h.dataSectors \in [1 .. k -> Sectors]
  BY <1>1, SoundFacts
<1>3. ASSUME NEW r \in Nat, r < h.numBytes
      PROVE  r \div SectorSize + 1 \in 1 .. k /\ r \div SectorSize \in Nat
  BY <1>1, <1>2, <1>3, RoundUpFacts, DivFacts
<1>4. ASSUME NEW r \in Nat
      PROVE  ByteToSector(h, r) = h.dataSectors[1 + r \div SectorSize]
  BY DEF ByteToSector
<1>5. ASSUME NEW r \in Nat, r < h.numBytes, ByteToSector(h, r) = ByteToSector(h, p)
      PROVE  r \div SectorSize = p \div SectorSize
  <2>1. PICK u : u = r \div SectorSize
    OBVIOUS
  <2>2. PICK v : v = p \div SectorSize
    OBVIOUS
  <2>3. u \in Nat /\ v \in Nat /\ u + 1 \in 1 .. k /\ v + 1 \in 1 .. k
    BY <1>3, <1>5, <2>1, <2>2
  <2>4. h.dataSectors[1 + u] = h.dataSectors[1 + v]
    BY <1>4, <1>5, <2>1, <2>2
  <2>5. 1 + u = 1 + v
    BY <1>2, <2>3, <2>4 DEF Sound
  <2> QED BY <2>1, <2>2, <2>3, <2>5
<1>6. ByteToSector(h, p) \in Sectors /\ ByteToSector(h, p) \in Blocks(h)
  <2>1. PICK v : v = p \div SectorSize
    OBVIOUS
  <2>2. v \in Nat /\ v + 1 \in 1 .. k
    BY <1>3, <2>1
  <2>3. ByteToSector(h, p) = h.dataSectors[1 + v] /\ 1 + v \in 1 .. k
    BY <1>4, <2>1, <2>2
  <2> QED BY <1>2, <2>3 DEF Blocks
<1> QED BY <1>5, <1>6

(* OpenFile::ReadAt returns the bytes from position on, as many as there
   are.                                                                     *)
LEMMA ReadFacts ==
    ASSUME NEW h, Sound(h), Written, NEW n \in Nat, NEW position \in Nat
    PROVE  /\ NumBytes(h, n, position) \in Nat
           /\ NumBytes(h, n, position) # 0 => position + NumBytes(h, n, position) <= h.numBytes
           /\ NumBytes(h, n, position) = Store!Clip(n, position, h.numBytes)
           /\ NumBytes(h, n, position) <= n
           /\ ReadAt(h, n, position) \in Seq(Byte)
           /\ Len(ReadAt(h, n, position)) = NumBytes(h, n, position)
           /\ \A b \in 1 .. NumBytes(h, n, position) :
                 ReadAt(h, n, position)[b] = Stored(h, position + b - 1)
<1>1. h.numBytes \in Nat
  BY SoundFacts
<1>2. PICK k : k = NumBytes(h, n, position)
  OBVIOUS
<1>3. /\ k \in Nat /\ k <= n
      /\ k # 0 => position + k <= h.numBytes
      /\ k = Store!Clip(n, position, h.numBytes)
  BY <1>1, <1>2 DEF NumBytes, Store!Clip
<1>4. PICK f : f = ReadAt(h, n, position)
  OBVIOUS
<1>5. f = [b \in 1 .. k |-> Stored(h, position + b - 1)]
  BY <1>2, <1>4 DEF ReadAt, Stored
<1>6. ASSUME NEW b \in 1 .. k PROVE Stored(h, position + b - 1) \in Byte
  <2>1. PICK p : p = position + b - 1
    OBVIOUS
  <2>2. p \in Nat /\ p < h.numBytes
    BY <1>1, <1>3, <2>1
  <2>3. ByteToSector(h, p) \in Sectors
    BY <2>2, ByteFacts
  <2>4. p % SectorSize \in 0 .. SectorSize - 1
    BY <2>2, DivFacts
  <2>5. Stored(h, p) \in Byte
    BY <2>3, <2>4 DEF Stored, Written
  <2> QED BY <2>1, <2>5
<1>7. f \in [1 .. k -> Byte]
  BY <1>5, <1>6
<1>8. f \in Seq(Byte) /\ Len(f) = k
  BY <1>3, <1>7, FunIsSeq
<1> QED BY <1>2, <1>3, <1>4, <1>5, <1>8

(* A file that exists has one entry, and its header is sound.               *)
LEMMA FileFacts ==
    ASSUME Inv, Shapes, NEW n \in Names, Exists(n)
    PROVE  \E e \in Files : /\ directory[e].name = n /\ FindIndex(n) = {e}
                            /\ SectorOf(n) = directory[e].sector /\ SectorOf(n) \in Sectors
                            /\ Sound(Hdr(n)) /\ SectorOf(n) \notin Blocks(Hdr(n))
                            /\ Owned(e) = {SectorOf(n)} \cup Blocks(Hdr(n))
                            /\ Owned(e) \subseteq freeMap
<1>1. PICK e : e = CHOOSE i \in FindIndex(n) : TRUE
  OBVIOUS
<1>2. e \in FindIndex(n)
  BY <1>1 DEF Exists
<1>3. e \in Files /\ directory[e].name = n
  BY <1>2 DEF FindIndex, Files
<1>4. FindIndex(n) = {e}
  <2>1. ASSUME NEW i \in FindIndex(n) PROVE i = e
    <3>1. i \in Files /\ directory[i].name = n
      BY <2>1 DEF FindIndex, Files
    <3> QED BY <1>3, <3>1 DEF Inv, SpaceExact
  <2> QED BY <1>2, <2>1
<1>5. SectorOf(n) = directory[e].sector
  BY <1>1 DEF SectorOf
<1>6. directory[e].sector \in Sectors /\ Owned(e) \subseteq freeMap
  BY <1>3, OwnedMarked
<1> QED BY <1>3, <1>4, <1>5, <1>6 DEF Shapes, Hdr, Owned

(* What a name holds.                                                       *)
LEMMA ContentsFacts ==
    ASSUME StoreInv, NEW n \in Names
    PROVE  /\ ~Exists(n) => Contents(n) = NoFile
           /\ Exists(n) => /\ Contents(n) \in Seq(Byte) /\ Contents(n) # NoFile
                           /\ Len(Contents(n)) = Hdr(n).numBytes
                           /\ \A b \in 1 .. Hdr(n).numBytes :
                                 Contents(n)[b] = Stored(Hdr(n), b - 1)
<1>1. ~Exists(n) => Contents(n) = NoFile
  BY DEF Exists, Contents
<1>2. ASSUME Exists(n)
      PROVE  /\ Contents(n) \in Seq(Byte) /\ Contents(n) # NoFile
             /\ Len(Contents(n)) = Hdr(n).numBytes
             /\ \A b \in 1 .. Hdr(n).numBytes : Contents(n)[b] = Stored(Hdr(n), b - 1)
  <2>1. PICK h : h = Hdr(n)
    OBVIOUS
  <2>2. Sound(h) /\ h.numBytes \in Nat
    BY <1>2, <2>1, FileFacts, SoundFacts DEF StoreInv
  <2>8. PICK m \in Nat : m = h.numBytes
    BY <2>2
  <2>9. PICK z \in Nat : z = 0
    OBVIOUS
  <2>3. Contents(n) = ReadAt(h, m, z)
    BY <1>2, <2>1, <2>8, <2>9 DEF Contents, Exists, Hdr
  <2>4. NumBytes(h, m, z) = m
    BY <2>2, <2>8, <2>9 DEF NumBytes
  <2>5. /\ ReadAt(h, m, z) \in Seq(Byte)
        /\ Len(ReadAt(h, m, z)) = NumBytes(h, m, z)
        /\ \A b \in 1 .. NumBytes(h, m, z) : ReadAt(h, m, z)[b] = Stored(h, z + b - 1)
    <3>1. Written
      BY DEF StoreInv
    <3> QED BY <2>2, <3>1, ReadFacts
  <2>6. \A b \in 1 .. m : z + b - 1 = b - 1
    BY <2>9
  <2>7. Contents(n) # NoFile
    BY <2>3, <2>5, FileAssumption DEF Byte
  <2> QED BY <2>1, <2>8, <2>3, <2>4, <2>5, <2>6, <2>7
<1> QED BY <1>1, <1>2

-----------------------------------------------------------------------------
(* How the calls change the directory                                       *)

(* Two states with the same entry and header for n, and the same data in the
   sectors of n.                                                            *)
LEMMA SameContents ==
    ASSUME Inv, Shapes, NEW n \in Names, FindIndex(n)' = FindIndex(n),
           Exists(n) => /\ Hdr(n)' = Hdr(n)
                        /\ \A s \in Blocks(Hdr(n)) : data'[s] = data[s]
    PROVE  Contents(n)' = Contents(n)
<1>1. CASE ~Exists(n)
  BY <1>1 DEF Exists, Contents
<1>2. CASE Exists(n)
  <2>1. PICK h : h = Hdr(n)
    OBVIOUS
  <2>2. Sound(h) /\ h.numBytes \in Nat
    BY <1>2, <2>1, FileFacts, SoundFacts
  <2>3. PICK m \in Nat : m = h.numBytes
    BY <2>2
  <2>4. PICK k : k = NumBytes(h, m, 0)
    OBVIOUS
  <2>5. k = m
    BY <2>2, <2>3, <2>4 DEF NumBytes
  <2>6. PICK q : q = [b \in 1 .. m |-> 0 + b - 1]
    OBVIOUS
  <2>7. \A b \in 1 .. m : q[b] \in Nat /\ q[b] < h.numBytes
    BY <2>3, <2>6
  <2>8. Contents(n) = [b \in 1 .. m |-> data[ByteToSector(h, q[b])][q[b] % SectorSize]]
    BY <1>2, <2>1, <2>3, <2>4, <2>5, <2>6 DEF Contents, Exists, Hdr, ReadAt
  <2>9. Contents(n)' = [b \in 1 .. m |-> data'[ByteToSector(h, q[b])][q[b] % SectorSize]]
    <3>1. FindIndex(n)' # {} /\ h = header'[SectorOf(n)']
      BY <1>2, <2>1 DEF Exists, Hdr
    <3> QED BY <2>1, <2>3, <2>4, <2>5, <2>6, <3>1 DEF Contents, ReadAt
  <2>10. ASSUME NEW b \in 1 .. m
         PROVE  data'[ByteToSector(h, q[b])] = data[ByteToSector(h, q[b])]
    <3>1. ByteToSector(h, q[b]) \in Blocks(h)
      BY <2>2, <2>7, ByteFacts
    <3> QED BY <1>2, <2>1, <3>1
  <2> QED BY <2>8, <2>9, <2>10
<1> QED BY <1>1, <1>2

(* A call that changes neither the bitmap nor the directory nor a header.   *)
LEMMA SameDirectory ==
    ASSUME UNCHANGED <<freeMap, directory, header>>
    PROVE  /\ Shapes => Shapes'
           /\ \A n : FindIndex(n)' = FindIndex(n) /\ Exists(n)' = Exists(n)
                     /\ SectorOf(n)' = SectorOf(n) /\ Hdr(n)' = Hdr(n)
<1>1. Files' = Files
  BY DEF Files
<1>2. ASSUME NEW n
      PROVE  FindIndex(n)' = FindIndex(n) /\ Exists(n)' = Exists(n)
             /\ SectorOf(n)' = SectorOf(n) /\ Hdr(n)' = Hdr(n)
  BY DEF FindIndex, Exists, SectorOf, Hdr
<1>3. Shapes => Shapes'
  BY <1>1 DEF Shapes
<1> QED BY <1>2, <1>3

(* Create adds a file of the given size and leaves the others alone.        *)
LEMMA CreateViews ==
    ASSUME Inv, Shapes, NEW n \in Names, NEW size \in Sizes, Create(n, size)
    PROVE  /\ Shapes' /\ FindIndex(n)' # {} /\ Sound(Hdr(n)') /\ Hdr(n)'.numBytes = size
           /\ size \in Nat
           /\ ~Exists(n)
           /\ \A m \in Names \ {n} : /\ FindIndex(m)' = FindIndex(m)
                                     /\ Exists(m) => Hdr(m)' = Hdr(m)
<1>1. PICK sector \in Sectors \ freeMap, e \in Entries, hdr \in Headers :
         /\ FindIndex(n) = {} /\ directory[e] = NoFile /\ e \notin Files
         /\ Sound(hdr) /\ hdr.numBytes = size /\ size \in Nat
         /\ Blocks(hdr) \subseteq Sectors \ (freeMap \cup {sector})
         /\ header' = [header EXCEPT ![sector] = hdr]
         /\ directory' = [directory EXCEPT ![e] = [name |-> n, sector |-> sector]]
  BY CreateFacts
<1>2. PICK d : d = [name |-> n, sector |-> sector]
  OBVIOUS
<1>3. d # NoFile /\ d.name = n /\ d.sector = sector
  BY <1>2, FileAssumption
<1>4. /\ directory'[e] = d /\ \A i \in Entries \ {e} : directory'[i] = directory[i]
      /\ header'[sector] = hdr /\ \A s \in Sectors \ {sector} : header'[s] = header[s]
  BY <1>1, <1>2 DEF Inv, Tables
<1>5. Files' = Files \cup {e}
  BY <1>1, <1>3, <1>4 DEF Files
<1>6. ASSUME NEW i \in Files
      PROVE  /\ i \in Entries /\ i # e /\ directory'[i] = directory[i]
             /\ header'[directory[i].sector] = header[directory[i].sector]
  <2>1. /\ i \in Entries /\ directory[i] \in [name : Names, sector : Sectors]
        /\ directory[i].sector \in freeMap
    BY OwnedMarked
  <2> QED BY <1>1, <1>4, <2>1
<1>7. FindIndex(n)' = {e}
  <2>1. ASSUME NEW i \in FindIndex(n)' PROVE i = e
    <3>1. i \in Entries /\ directory'[i] # NoFile /\ directory'[i].name = n
      BY <2>1 DEF FindIndex
    <3>2. i # e => i \in FindIndex(n)
      BY <1>4, <3>1 DEF FindIndex
    <3> QED BY <1>1, <3>2
  <2>2. e \in FindIndex(n)'
    BY <1>3, <1>4 DEF FindIndex
  <2> QED BY <2>1, <2>2
<1>8. SectorOf(n)' = sector /\ Hdr(n)' = hdr
  BY <1>3, <1>4, <1>7 DEF SectorOf, Hdr
<1>9. ASSUME NEW m \in Names \ {n} PROVE FindIndex(m)' = FindIndex(m)
  BY <1>1, <1>3, <1>4 DEF FindIndex
<1>10. ASSUME NEW m \in Names \ {n}, Exists(m) PROVE Hdr(m)' = Hdr(m)
  <2>1. PICK i \in Files : FindIndex(m) = {i}
    BY <1>10, FileFacts
  <2>2. FindIndex(m)' = {i}
    BY <1>9, <2>1
  <2>3. directory'[i] = directory[i] /\ header'[directory[i].sector] = header[directory[i].sector]
    BY <1>6
  <2> QED BY <2>1, <2>2, <2>3 DEF Hdr, SectorOf
<1>11. Shapes'
  <2>1. ASSUME NEW i \in Files'
        PROVE  /\ Sound(header'[directory'[i].sector])
               /\ directory'[i].sector \notin Blocks(header'[directory'[i].sector])
    <3>1. CASE i \in Files
      BY <1>6, <3>1 DEF Shapes
    <3>2. CASE i = e
      BY <1>1, <1>3, <1>4, <3>2
    <3> QED BY <1>5, <3>1, <3>2
  <2> QED BY <2>1 DEF Shapes
<1> QED BY <1>1, <1>7, <1>8, <1>9, <1>10, <1>11 DEF Exists

(* Remove takes one file away and leaves the others alone.                  *)
LEMMA RemoveViews ==
    ASSUME Inv, Shapes, NEW n \in Names, Remove(n)
    PROVE  /\ Shapes' /\ FindIndex(n)' = {} /\ Exists(n)
           /\ \A m \in Names \ {n} : /\ FindIndex(m)' = FindIndex(m)
                                     /\ Exists(m) => Hdr(m)' = Hdr(m)
<1>1. Exists(n)
  BY DEF Remove, Exists
<1>2. PICK e \in Files : /\ directory[e].name = n /\ FindIndex(n) = {e}
                         /\ SectorOf(n) = directory[e].sector
  BY <1>1, FileFacts
<1>3. /\ directory' = [i \in Entries |-> IF i = e THEN NoFile ELSE directory[i]]
      /\ header' = [header EXCEPT ![directory[e].sector] = NoFile]
  BY <1>2 DEF Remove
<1>4. e \in Entries /\ directory[e].sector \in Owned(e) /\ directory[e].sector \in Sectors
  BY OwnedMarked
<1>5. /\ directory'[e] = NoFile /\ \A i \in Entries \ {e} : directory'[i] = directory[i]
      /\ \A s \in Sectors \ {directory[e].sector} : header'[s] = header[s]
  BY <1>3, <1>4 DEF Inv, Tables
<1>6. Files' = Files \ {e}
  BY <1>4, <1>5 DEF Files
<1>7. ASSUME NEW i \in Files, i # e
      PROVE  /\ directory'[i] = directory[i]
             /\ header'[directory[i].sector] = header[directory[i].sector]
  <2>1. /\ i \in Entries /\ directory[i] \in [name : Names, sector : Sectors]
        /\ directory[i].sector \in Owned(i)
    BY OwnedMarked
  <2>2. Owned(i) \cap Owned(e) = {}
    BY <1>7 DEF Inv, SpaceExact
  <2>3. directory[i].sector \in Sectors \ {directory[e].sector}
    BY <1>4, <2>1, <2>2
  <2> QED BY <1>5, <1>7, <2>1, <2>3
<1>8. FindIndex(n)' = {}
  <2>1. ASSUME NEW i \in FindIndex(n)' PROVE FALSE
    <3>1. i \in Entries /\ directory'[i] # NoFile /\ directory'[i].name = n
      BY <2>1 DEF FindIndex
    <3>2. i # e
      BY <1>5, <3>1
    <3>3. i \in FindIndex(n)
      BY <1>5, <3>1, <3>2 DEF FindIndex
    <3> QED BY <1>2, <3>2, <3>3
  <2> QED BY <2>1
<1>9. ASSUME NEW m \in Names \ {n} PROVE FindIndex(m)' = FindIndex(m)
  <2>1. ASSUME NEW i \in Entries
        PROVE  (directory'[i] # NoFile /\ directory'[i].name = m)
                  <=> (directory[i] # NoFile /\ directory[i].name = m)
    <3>1. CASE i = e
      BY <1>2, <1>5, <3>1
    <3>2. CASE i # e
      BY <1>5, <3>2
    <3> QED BY <3>1, <3>2
  <2> QED BY <2>1 DEF FindIndex
<1>10. ASSUME NEW m \in Names \ {n}, Exists(m) PROVE Hdr(m)' = Hdr(m)
  <2>1. PICK i \in Files : FindIndex(m) = {i} /\ directory[i].name = m
    BY <1>10, FileFacts
  <2>2. FindIndex(m)' = {i} /\ i # e
    BY <1>2, <1>9, <2>1
  <2>3. directory'[i] = directory[i] /\ header'[directory[i].sector] = header[directory[i].sector]
    BY <1>7, <2>2
  <2> QED BY <2>1, <2>2, <2>3 DEF Hdr, SectorOf
<1>11. Shapes'
  BY <1>6, <1>7 DEF Shapes
<1> QED BY <1>1, <1>8, <1>9, <1>10, <1>11

-----------------------------------------------------------------------------
(* OpenFile::WriteAt                                                        *)

(* The bytes of a touched sector that are not written are read back first.  *)
LEMMA ReadBackFacts ==
    ASSUME NEW n \in Nat, n > 0, NEW position \in Nat, NEW p \in Nat, NEW i \in Nat,
           i = p \div SectorSize, firstSector(position) <= i, i <= lastSector(n, position),
           p \notin position .. position + n - 1
    PROVE  ReadBack(n, position, i)
<1>1. SectorSize \in Nat \ {0}
  BY FileAssumption
<1>2. PICK first : first = firstSector(position)
  OBVIOUS
<1>3. PICK last : last = lastSector(n, position)
  OBVIOUS
<1>4. PICK e : e = position + n - 1
  OBVIOUS
<1>5. e \in Nat /\ position + n = e + 1 /\ position <= e
  BY <1>4
<1>6. first = position \div SectorSize /\ last = e \div SectorSize
  BY <1>2, <1>3, <1>4 DEF firstSector, lastSector
<1>7. first \in Nat /\ last \in Nat
  BY <1>5, <1>6, DivFacts
<1>8. PICK a : a = first * SectorSize
  OBVIOUS
<1>9. PICK c : c = (last + 1) * SectorSize
  OBVIOUS
<1>10. /\ ReadBack(n, position, i) <=> \/ i = first /\ position # a
                                       \/ i = last /\ position + n # c /\ (first # last \/ position = a)
  BY <1>2, <1>3, <1>8, <1>9 DEF ReadBack
<1>11. PICK r : r = p % SectorSize
  OBVIOUS
<1>12. r \in 0 .. SectorSize - 1 /\ p = SectorSize * i + r
  BY <1>11, DivFacts
<1>13. CASE p < position
  <2>1. i <= first
    BY <1>6, <1>13, DivMonotone
  <2>2. i = first
    BY <1>2, <1>7, <2>1
  <2>3. a = SectorSize * i /\ a \in Nat
    BY <1>7, <1>8, <2>2, TimesFacts
  <2>4. position # a
    BY <1>1, <1>12, <1>13, <2>3
  <2> QED BY <1>10, <2>2, <2>4
<1>14. CASE p > e
  <2>1. last <= i
    BY <1>5, <1>6, <1>14, DivMonotone
  <2>2. i = last
    BY <1>3, <1>7, <2>1
  <2>3. c = SectorSize * i + SectorSize /\ SectorSize * i \in Nat
    <3>1. PICK j \in Nat : j = i + 1
      OBVIOUS
    <3>2. SectorSize * i \in Nat /\ j * SectorSize = SectorSize * j
      BY <3>1, TimesFacts
    <3>3. SectorSize * (i + 1) = SectorSize * i + SectorSize
      BY <1>1
    <3> QED BY <1>9, <2>2, <3>1, <3>2, <3>3
  <2>4. position + n # c
    BY <1>1, <1>5, <1>12, <1>14, <2>3
  <2>5. CASE first = last
    BY <1>10, <2>2, <2>4, <2>5
  <2>6. CASE first # last
    BY <1>10, <2>2, <2>4, <2>6
  <2> QED BY <2>5, <2>6
<1> QED BY <1>4, <1>5, <1>13, <1>14

(* The first byte of a sector.                                              *)
LEMMA SectorDiv ==
    ASSUME NEW i \in Nat
    PROVE  i * SectorSize \in Nat /\ (i * SectorSize) \div SectorSize = i
<1>1. PICK s : s = i * SectorSize
  OBVIOUS
<1>2. s = SectorSize * i /\ s \in Nat
  BY <1>1, TimesFacts
<1>3. PICK z \in 0 .. SectorSize - 1 : z = 0
  BY FileAssumption
<1>4. s = SectorSize * i + z
  BY <1>2, <1>3
<1> QED BY <1>1, <1>2, <1>4, DivUnique

(* The start of a sector of the file.                                       *)
LEMMA SectorStart ==
    ASSUME NEW h, Sound(h), NEW i \in Nat, NEW p \in Nat, p < h.numBytes, i = p \div SectorSize
    PROVE  /\ i * SectorSize \in Nat /\ i * SectorSize < h.numBytes
           /\ (i * SectorSize) \div SectorSize = i
           /\ ByteToSector(h, i * SectorSize) = ByteToSector(h, p)
           /\ i * SectorSize + (p % SectorSize) = p
<1>1. SectorSize \in Nat \ {0} /\ h.numBytes \in Nat
  BY FileAssumption, SoundFacts
<1>2. PICK s : s = i * SectorSize
  OBVIOUS
<1>3. s = SectorSize * i /\ s \in Nat
  BY <1>2, TimesFacts
<1>4. PICK r : r = p % SectorSize
  OBVIOUS
<1>5. r \in 0 .. SectorSize - 1 /\ p = s + r
  BY <1>3, <1>4, DivFacts
<1>6. s < h.numBytes
  BY <1>1, <1>3, <1>5
<1>7. s \div SectorSize = i
  BY <1>2, SectorDiv
<1>8. ByteToSector(h, s) = ByteToSector(h, p)
  BY <1>7 DEF ByteToSector
<1> QED BY <1>2, <1>3, <1>4, <1>5, <1>6, <1>7, <1>8

(* WriteAt changes the bytes written and no other byte of the file, and no
   sector that is not the file's.                                           *)
LEMMA WriteFacts ==
    ASSUME Written, NEW h, Sound(h), NEW bytes \in Seq(Bytes), NEW position \in Nat,
           WriteAt(h, bytes, position)
    PROVE  /\ Written'
           /\ \A s \in Sectors \ Blocks(h) : data'[s] = data[s]
           /\ \A p \in Nat : p < h.numBytes =>
                data'[ByteToSector(h, p)][p % SectorSize] =
                  IF p \in position .. position + NumBytes(h, Len(bytes), position) - 1
                  THEN bytes[p - position + 1] ELSE Stored(h, p)
<1>1. SectorSize \in Nat \ {0} /\ h.numBytes \in Nat /\ Len(bytes) \in Nat
  BY FileAssumption, SoundFacts, LenProperties
<1>2. PICK n : n = NumBytes(h, Len(bytes), position)
  OBVIOUS
<1>3. n \in Nat /\ n <= Len(bytes) /\ (n # 0 => position + n <= h.numBytes)
  BY <1>1, <1>2, ReadFacts
<1>4. PICK touched : touched = IF n = 0 THEN {} ELSE firstSector(position) .. lastSector(n, position)
  OBVIOUS
<1>5. data' = [s \in Sectors |->
                 IF \E i \in touched : s = ByteToSector(h, i * SectorSize)
                 THEN Buffer(h, bytes, n, position,
                             CHOOSE i \in touched : s = ByteToSector(h, i * SectorSize))
                 ELSE data[s]]
  BY <1>2, <1>4 DEF WriteAt
<1>6. ASSUME n # 0
      PROVE  /\ firstSector(position) \in Nat /\ lastSector(n, position) \in Nat
             /\ position + n - 1 \in Nat /\ position + n - 1 < h.numBytes
             /\ lastSector(n, position) = (position + n - 1) \div SectorSize
             /\ firstSector(position) = position \div SectorSize
  <2>1. position + n - 1 \in Nat /\ position + n - 1 < h.numBytes
    BY <1>1, <1>3, <1>6
  <2> QED BY <2>1, DivFacts DEF firstSector, lastSector
<1>7. ASSUME NEW i \in touched
      PROVE  /\ i \in Nat /\ n # 0 /\ i * SectorSize \in Nat /\ i * SectorSize < h.numBytes
             /\ (i * SectorSize) \div SectorSize = i
             /\ firstSector(position) <= i /\ i <= lastSector(n, position)
  <2>1. n # 0 /\ i \in firstSector(position) .. lastSector(n, position)
    BY <1>4
  <2>2. i \in Nat /\ firstSector(position) <= i /\ i <= lastSector(n, position)
    BY <1>6, <2>1
  <2>3. PICK e \in Nat : e = position + n - 1
    BY <1>6, <2>1
  <2>4. PICK last \in Nat : last = lastSector(n, position)
    BY <1>6, <2>1
  <2>5. e < h.numBytes /\ last = e \div SectorSize
    BY <1>6, <2>1, <2>3, <2>4
  <2>6. last * SectorSize \in Nat /\ last * SectorSize < h.numBytes
    BY <2>5, SectorStart
  <2>7. PICK s : s = i * SectorSize
    OBVIOUS
  <2>8. PICK t : t = last * SectorSize
    OBVIOUS
  <2>9. s \in Nat /\ (i < last => s <= t) /\ s = SectorSize * i
    BY <1>1, <2>2, <2>7, <2>8, TimesFacts
  <2>10. s < h.numBytes
    BY <1>1, <2>2, <2>4, <2>6, <2>7, <2>8, <2>9
  <2>11. s \div SectorSize = i
    BY <2>2, <2>7, SectorDiv
  <2> QED BY <2>1, <2>2, <2>7, <2>9, <2>10, <2>11
<1>8. ASSUME NEW i \in touched
      PROVE  ByteToSector(h, i * SectorSize) \in Blocks(h)
  BY <1>7, ByteFacts
<1>9. ASSUME NEW s \in Sectors \ Blocks(h) PROVE data'[s] = data[s]
  BY <1>5, <1>8
<1>10. ASSUME NEW p \in Nat, p < h.numBytes
       PROVE  data'[ByteToSector(h, p)][p % SectorSize] =
                IF p \in position .. position + n - 1 THEN bytes[p - position + 1] ELSE Stored(h, p)
  <2>1. PICK i : i = p \div SectorSize
    OBVIOUS
  <2>2. PICK k : k = p % SectorSize
    OBVIOUS
  <2>3. PICK s : s = ByteToSector(h, p)
    OBVIOUS
  <2>4. i \in Nat /\ k \in 0 .. SectorSize - 1
    BY <2>1, <2>2, DivFacts
  <2>5. s = ByteToSector(h, i * SectorSize) /\ i * SectorSize + k = p
    BY <1>10, <2>1, <2>2, <2>3, <2>4, SectorStart
  <2>6. s \in Sectors
    BY <1>10, <2>3, ByteFacts
  <2>7. ASSUME NEW j \in touched, s = ByteToSector(h, j * SectorSize) PROVE j = i
    <3>1. j * SectorSize \in Nat /\ j * SectorSize < h.numBytes /\ (j * SectorSize) \div SectorSize = j
      BY <1>7
    <3>2. (j * SectorSize) \div SectorSize = p \div SectorSize
      BY <1>10, <2>3, <2>7, <3>1, ByteFacts
    <3> QED BY <2>1, <3>1, <3>2
  <2>8. CASE i \in touched
    <3>1. data'[s] = Buffer(h, bytes, n, position, i)
      <4>1. (CHOOSE j \in touched : s = ByteToSector(h, j * SectorSize)) = i
        BY <2>5, <2>7, <2>8
      <4> QED BY <1>5, <2>5, <2>6, <2>8, <4>1
    <3>2. data'[s][k] = IF p \in position .. position + n - 1 THEN bytes[p - position + 1]
                        ELSE IF ReadBack(n, position, i) /\ p < h.numBytes
                             THEN data[ByteToSector(h, p)][k] ELSE Junk
      BY <2>4, <2>5, <3>1 DEF Buffer
    <3>3. p \notin position .. position + n - 1 => ReadBack(n, position, i)
      BY <1>3, <1>7, <2>1, <2>4, <2>8, ReadBackFacts
    <3> QED BY <1>10, <2>2, <2>3, <3>2, <3>3 DEF Stored
  <2>9. CASE i \notin touched
    <3>1. data'[s] = data[s]
      BY <1>5, <2>6, <2>7, <2>9
    <3>2. p \notin position .. position + n - 1
      <4> SUFFICES ASSUME p \in position .. position + n - 1 PROVE FALSE
        OBVIOUS
      <4>1. n # 0 /\ position <= p
        BY <1>3
      <4>2. PICK e \in Nat : e = position + n - 1
        BY <1>6, <4>1
      <4>3. p <= e /\ lastSector(n, position) = e \div SectorSize
        BY <1>6, <4>1, <4>2
      <4>4. firstSector(position) <= i /\ i <= lastSector(n, position)
        BY <1>6, <2>1, <4>1, <4>2, <4>3, DivMonotone
      <4> QED BY <1>4, <1>6, <2>4, <2>9, <4>1, <4>4
    <3> QED BY <2>2, <2>3, <3>1, <3>2 DEF Stored
  <2> QED BY <2>8, <2>9
<1>11. ASSUME NEW i \in touched
       PROVE  Buffer(h, bytes, n, position, i) \in [0 .. SectorSize - 1 -> Byte]
  <2>1. ASSUME NEW k \in 0 .. SectorSize - 1
        PROVE  Buffer(h, bytes, n, position, i)[k] \in Byte
    <3>1. PICK p : p = i * SectorSize + k
      OBVIOUS
    <3>2. p \in Nat
      BY <1>1, <1>7, <3>1
    <3>3. Buffer(h, bytes, n, position, i)[k] =
            IF p \in position .. position + n - 1 THEN bytes[p - position + 1]
            ELSE IF ReadBack(n, position, i) /\ p < h.numBytes
                 THEN data[ByteToSector(h, p)][k] ELSE Junk
      BY <3>1 DEF Buffer
    <3>4. p \in position .. position + n - 1 => bytes[p - position + 1] \in Byte
      <4>1. p \in position .. position + n - 1 => p - position + 1 \in 1 .. Len(bytes)
        BY <1>1, <1>3, <3>2
      <4> QED BY <4>1, ElementOfSeq DEF Byte
    <3>5. p < h.numBytes => data[ByteToSector(h, p)][k] \in Byte
      BY <3>2, ByteFacts DEF Written
    <3> QED BY <3>3, <3>4, <3>5 DEF Byte
  <2> QED BY <2>1 DEF Buffer
<1>12. Written'
  <2>1. ASSUME NEW s \in Sectors PROVE data'[s] \in [0 .. SectorSize - 1 -> Byte]
    <3>1. CASE \E i \in touched : s = ByteToSector(h, i * SectorSize)
      <4>1. (CHOOSE i \in touched : s = ByteToSector(h, i * SectorSize)) \in touched
        BY <3>1
      <4> QED BY <1>5, <1>11, <3>1, <4>1
    <3>2. CASE ~ \E i \in touched : s = ByteToSector(h, i * SectorSize)
      BY <1>5, <3>2 DEF Written
    <3> QED BY <3>1, <3>2
  <2> QED BY <1>5, <2>1 DEF Written
<1> QED BY <1>2, <1>9, <1>10, <1>12

-----------------------------------------------------------------------------
(* The headers of open files are those on the disk                          *)

(* The file table's ids and its entries.                                    *)
LEMMA OpenFacts ==
    ASSUME StoreInv, NEW id \in Ids, Get(id) # NoFile
    PROVE  /\ fileTable[id] \in OpenFiles /\ fileTable[id].name \in Names
           /\ fileTable[id].seekPosition \in Nat
           /\ Exists(fileTable[id].name)
           /\ fileTable[id].hdr = Hdr(fileTable[id].name)
           /\ Sound(fileTable[id].hdr) /\ fileTable[id].hdr \in Headers
<1>1. /\ fileTable[id] \in OpenFiles /\ Exists(fileTable[id].name)
      /\ fileTable[id].hdr = Hdr(fileTable[id].name)
  BY DEF StoreInv, Opens, Get
<1>2. fileTable[id].name \in Names /\ fileTable[id].seekPosition \in Nat /\ fileTable[id].hdr \in Headers
  BY <1>1 DEF OpenFiles
<1>3. Sound(fileTable[id].hdr)
  BY <1>1, <1>2, FileFacts DEF StoreInv
<1> QED BY <1>1, <1>2, <1>3

(* Every entry T of the new file table names a file and has its header.     *)
LEMMA OpensStep ==
    ASSUME NEW T, fileTable' = T, T = [i \in Ids |-> T[i]],
           \A i \in Ids : T[i] # NoFile =>
              T[i] \in OpenFiles /\ FindIndex(T[i].name)' # {} /\ T[i].hdr = Hdr(T[i].name)'
    PROVE  Opens'
<1>1. fileTable' \in [Ids -> OpenFiles \cup {NoFile}]
  OBVIOUS
<1>2. ASSUME NEW i \in Ids, fileTable'[i] # NoFile
      PROVE  (Exists(fileTable[i].name) /\ fileTable[i].hdr = Hdr(fileTable[i].name))'
  <2>1. PICK m : m = T[i].name
    OBVIOUS
  <2>2. FindIndex(m)' # {} /\ T[i].hdr = Hdr(m)'
    BY <1>2, <2>1
  <2>3. fileTable'[i].name = m /\ fileTable'[i].hdr = T[i].hdr
    BY <2>1
  <2> QED BY <2>2, <2>3 DEF Exists, Hdr, FindIndex, SectorOf
<1> QED BY <1>1, <1>2 DEF Opens

(* A call that leaves the directory alone.                                  *)
LEMMA TableOpens ==
    ASSUME StoreInv, UNCHANGED <<freeMap, directory, header>>, NEW T, fileTable' = T,
           T = [i \in Ids |-> T[i]],
           \A i \in Ids : T[i] # NoFile =>
              /\ T[i] \in OpenFiles
              /\ \/ T[i].hdr = fileTable[i].hdr /\ T[i].name = fileTable[i].name /\ fileTable[i] # NoFile
                 \/ Exists(T[i].name) /\ T[i].hdr = Hdr(T[i].name)
    PROVE  Opens'
<1>1. ASSUME NEW i \in Ids, T[i] # NoFile
      PROVE  T[i] \in OpenFiles /\ FindIndex(T[i].name)' # {} /\ T[i].hdr = Hdr(T[i].name)'
  <2>1. PICK m : m = T[i].name
    OBVIOUS
  <2>2. T[i] \in OpenFiles /\ Exists(m) /\ T[i].hdr = Hdr(m)
    BY <1>1, <2>1, OpenFacts DEF Get
  <2>3. FindIndex(m)' = FindIndex(m) /\ Hdr(m)' = Hdr(m)
    BY SameDirectory
  <2> QED BY <2>1, <2>2, <2>3 DEF Exists
<1> QED BY <1>1, OpensStep

(* A call that leaves the file table alone, and the files in it.            *)
LEMMA SameOpens ==
    ASSUME StoreInv, UNCHANGED fileTable,
           \A n \in Names : Exists(n) /\ (\E i \in Ids : fileTable[i] # NoFile /\ fileTable[i].name = n)
              => FindIndex(n)' = FindIndex(n) /\ Hdr(n)' = Hdr(n)
    PROVE  Opens'
<1>1. PICK T : T = fileTable
  OBVIOUS
<1>2. T = [i \in Ids |-> T[i]]
  BY <1>1 DEF StoreInv, Opens
<1>3. ASSUME NEW i \in Ids, T[i] # NoFile
      PROVE  T[i] \in OpenFiles /\ FindIndex(T[i].name)' # {} /\ T[i].hdr = Hdr(T[i].name)'
  <2>1. PICK m : m = T[i].name
    OBVIOUS
  <2>2. T[i] \in OpenFiles /\ m \in Names /\ Exists(m) /\ T[i].hdr = Hdr(m)
    BY <1>1, <1>3, <2>1, OpenFacts DEF Get
  <2>3. FindIndex(m)' = FindIndex(m) /\ Hdr(m)' = Hdr(m)
    BY <1>1, <1>3, <2>1, <2>2
  <2> QED BY <2>1, <2>2, <2>3 DEF Exists
<1> QED BY <1>1, <1>2, <1>3, OpensStep

(* Put: the file is entered at a free id.                                   *)
LEMMA PutFacts ==
    ASSUME StoreInv, NEW f, Put(f)
    PROVE  \E i \in Ids : /\ fileTable[i] = NoFile /\ out' = <<"id", i>>
                          /\ fileTable' = [fileTable EXCEPT ![i] = f]
<1>1. Ids \in SUBSET Nat
  BY FileAssumption DEF Ids
<1>2. PICK F : F = FreeIds
  OBVIOUS
<1>3. F \in SUBSET Nat /\ F # {}
  BY <1>1, <1>2 DEF FreeIds, Put
<1>4. \E i \in F : \A j \in F : i <= j
  BY <1>3, LeastNumber
<1>5. PICK i : i = CHOOSE k \in F : \A j \in F : k <= j
  OBVIOUS
<1>6. i \in F
  BY <1>4, <1>5
<1>7. i \in Ids /\ fileTable[i] = NoFile
  BY <1>2, <1>6 DEF FreeIds, Get
<1>8. out' = <<"id", i>> /\ fileTable' = [fileTable EXCEPT ![i] = f]
  BY <1>2, <1>5 DEF Put
<1> QED BY <1>7, <1>8

(* Open, Close and the start of the machine.                                *)
LEMMA CallOpens ==
    ASSUME StoreInv, UNCHANGED disk,
           \/ \E id \in Ids : Close(id)
           \/ \E n \in Names : Open(n)
           \/ Restart
    PROVE  Opens'
<1>1. fileTable \in [Ids -> OpenFiles \cup {NoFile}]
  BY DEF StoreInv, Opens
<1>2. UNCHANGED <<freeMap, directory, header>>
  BY DEF disk
<1>3. ASSUME NEW id \in Ids, Close(id) PROVE Opens'
  <2>1. PICK T : T = [fileTable EXCEPT ![id] = NoFile]
    OBVIOUS
  <2>2. fileTable' = T
    BY <1>3, <2>1 DEF Close, Dropped
  <2>3. T = [i \in Ids |-> T[i]]
    BY <1>1, <2>1
  <2>4. \A i \in Ids : T[i] # NoFile => T[i] = fileTable[i] /\ T[i] \in OpenFiles
    BY <1>1, <2>1
  <2> QED BY <1>2, <2>2, <2>3, <2>4, TableOpens
<1>4. ASSUME NEW n \in Names, Open(n) PROVE Opens'
  <2>1. PICK f : f = NewOpenFile(n)
    OBVIOUS
  <2>2. PICK id \in Ids : /\ fileTable[id] = NoFile
                          /\ fileTable' = [fileTable EXCEPT ![id] = f]
    BY <1>4, <2>1, PutFacts DEF Open
  <2>3. PICK T : T = [fileTable EXCEPT ![id] = f]
    OBVIOUS
  <2>4. Exists(n) /\ Hdr(n) \in Headers
    BY <1>4, FileFacts DEF Open, Exists, StoreInv, Sound
  <2>5. f \in OpenFiles /\ f.name = n /\ f.hdr = Hdr(n)
    BY <2>1, <2>4 DEF OpenFiles, NewOpenFile, Hdr
  <2>6. T = [i \in Ids |-> T[i]] /\ T[id] = f
    BY <1>1, <2>3
  <2>7. \A i \in Ids \ {id} : T[i] # NoFile => T[i] = fileTable[i] /\ T[i] \in OpenFiles
    BY <1>1, <2>3
  <2>8. fileTable' = T
    BY <2>2, <2>3
  <2>9. ASSUME NEW i \in Ids, T[i] # NoFile
        PROVE  /\ T[i] \in OpenFiles
               /\ \/ T[i].hdr = fileTable[i].hdr /\ T[i].name = fileTable[i].name /\ fileTable[i] # NoFile
                  \/ Exists(T[i].name) /\ T[i].hdr = Hdr(T[i].name)
    <3>1. CASE i = id
      BY <2>4, <2>5, <2>6, <3>1
    <3>2. CASE i # id
      BY <2>7, <2>9, <3>2
    <3> QED BY <3>1, <3>2
  <2> QED BY <1>2, <2>6, <2>8, <2>9, TableOpens
<1>5. CASE Restart
  <2>1. PICK T : T = [i \in Ids |-> NoFile]
    OBVIOUS
  <2>2. fileTable' = T /\ T = [i \in Ids |-> T[i]] /\ \A i \in Ids : T[i] = NoFile
    BY <1>5, <2>1 DEF Restart
  <2> QED BY <1>2, <2>2, TableOpens
<1> QED BY <1>3, <1>4, <1>5

(* Read, Write and Seek: a position moves.                                  *)
LEMMA MovedOpens ==
    ASSUME StoreInv, UNCHANGED <<freeMap, directory, header>>,
           NEW id \in Ids, Get(id) # NoFile, NEW q \in Nat,
           fileTable' = [fileTable EXCEPT ![id].seekPosition = q]
    PROVE  Opens'
<1>1. fileTable \in [Ids -> OpenFiles \cup {NoFile}]
  BY DEF StoreInv, Opens
<1>2. PICK f : f = fileTable[id]
  OBVIOUS
<1>3. f \in OpenFiles /\ f # NoFile
  BY <1>2, OpenFacts DEF Get
<1>4. PICK g : g = [f EXCEPT !.seekPosition = q]
  OBVIOUS
<1>5. g \in OpenFiles /\ g.name = f.name /\ g.hdr = f.hdr
  BY <1>3, <1>4 DEF OpenFiles
<1>6. PICK T : T = [fileTable EXCEPT ![id] = g]
  OBVIOUS
<1>7. fileTable' = T
  BY <1>2, <1>4, <1>6
<1>8. T = [i \in Ids |-> T[i]] /\ T[id] = g /\ \A i \in Ids \ {id} : T[i] = fileTable[i]
  BY <1>1, <1>6
<1>9. ASSUME NEW i \in Ids, T[i] # NoFile
      PROVE  /\ T[i] \in OpenFiles /\ fileTable[i] # NoFile
             /\ T[i].hdr = fileTable[i].hdr /\ T[i].name = fileTable[i].name
  <2>1. CASE i = id
    BY <1>2, <1>3, <1>5, <1>8, <2>1
  <2>2. CASE i # id
    BY <1>1, <1>8, <1>9, <2>2
  <2> QED BY <2>1, <2>2
<1> QED BY <1>7, <1>8, <1>9, TableOpens

-----------------------------------------------------------------------------
(* Room for a file                                                          *)

(* The abstract store's view of a name.                                     *)
LEMMA FilesFacts ==
    ASSUME StoreInv
    PROVE  /\ Store!Existing = {n \in Names : Exists(n)}
           /\ \A n \in Names : /\ files[n] = Contents(n)
                               /\ files[n] = NoFile <=> ~Exists(n)
                               /\ Exists(n) => Len(files[n]) = Hdr(n).numBytes
<1>1. ASSUME NEW n \in Names
      PROVE  /\ files[n] = Contents(n)
             /\ files[n] = NoFile <=> ~Exists(n)
             /\ Exists(n) => Len(files[n]) = Hdr(n).numBytes
  <2>1. files[n] = Contents(n)
    BY DEF files
  <2> QED BY <2>1, ContentsFacts
<1>2. Store!Existing = {n \in Names : Exists(n)}
  BY <1>1 DEF Store!Existing
<1> QED BY <1>1, <1>2

(* The store counts with the same Cardinality.                              *)
LEMMA SameCardinality == ASSUME NEW S PROVE Store!Cardinality(S) = Cardinality(S)
BY DEF Store!Cardinality, Cardinality

(* There are as many names as entries in use.                               *)
LEMMA EntriesCount ==
    ASSUME StoreInv
    PROVE  Unused # {} <=> Cardinality(Store!Existing) < NumDirEntries
<1>1. PICK D : D = {n \in Names : Exists(n)}
  OBVIOUS
<1>2. Store!Existing = D
  BY <1>1, FilesFacts
<1>3. PICK f : f = [i \in Files |-> directory[i].name]
  OBVIOUS
<1>4. \A i \in Files : i \in Entries /\ directory[i] \in [name : Names, sector : Sectors]
  BY OwnedMarked DEF StoreInv
<1>5. \A i \in Files : f[i] \in D
  <2>1. ASSUME NEW i \in Files PROVE directory[i].name \in D
    <3>1. i \in FindIndex(directory[i].name)
      BY DEF FindIndex, Files
    <3> QED BY <1>1, <1>4, <3>1 DEF Exists
  <2> QED BY <1>3, <2>1
<1>6. \A i, j \in Files : f[i] = f[j] => i = j
  BY <1>3 DEF StoreInv, Inv, SpaceExact
<1>7. \A n \in D : \E i \in Files : f[i] = n
  <2>1. ASSUME NEW n \in D PROVE \E i \in Files : directory[i].name = n
    BY <1>1, FileFacts DEF StoreInv
  <2> QED BY <1>3, <2>1
<1>8. f \in Bijection(Files, D)
  <2>1. f \in [Files -> D]
    BY <1>3, <1>5
  <2> QED BY <1>6, <1>7, <2>1 DEF Bijection, Injection, Surjection, IsInjective
<1>9. NumDirEntries \in Nat /\ NumDirEntries # 0
  BY FileAssumption
<1>10. IsFiniteSet(Entries) /\ Cardinality(Entries) = NumDirEntries
  BY <1>9, FS_Interval DEF Entries
<1>11. Files \in SUBSET Entries
  BY DEF Files
<1>12. IsFiniteSet(Files) /\ Cardinality(Files) <= NumDirEntries
       /\ (Cardinality(Files) = NumDirEntries => Files = Entries)
  BY <1>10, <1>11, FS_Subset
<1>13. Cardinality(D) = Cardinality(Files)
  BY <1>8, <1>12, FS_Bijection DEF ExistsBijection
<1>14. Cardinality(Files) \in Nat
  BY <1>12, FS_CardinalityType
<1>15. Unused = Entries \ Files
  BY DEF Unused, Files
<1>16. CASE Unused = {}
  <2>1. Files = Entries
    BY <1>11, <1>15, <1>16
  <2> QED BY <1>2, <1>9, <1>10, <1>13, <1>16, <2>1
<1>17. CASE Unused # {}
  <2>1. Files # Entries
    BY <1>15, <1>17
  <2>2. Cardinality(Files) < NumDirEntries
    BY <1>9, <1>12, <1>14, <2>1
  <2> QED BY <1>2, <1>13, <1>17, <2>2
<1> QED BY <1>16, <1>17

(* The k-th sector of a file: its header, then its contents.                *)
Place(n, k) == IF k = 1 THEN SectorOf(n) ELSE Hdr(n).dataSectors[k - 1]

(* The sectors in use are those of the files, each once.                    *)
LEMMA PlaceFacts ==
    ASSUME StoreInv, NEW n \in Names, Exists(n)
    PROVE  /\ Store!SectorsFor(Len(files[n])) = 1 + divRoundUp(Hdr(n).numBytes, SectorSize)
           /\ Store!SectorsFor(Len(files[n])) \in Nat
           /\ \A k \in 1 .. Store!SectorsFor(Len(files[n])) :
                 /\ Place(n, k) \in {SectorOf(n)} \cup Blocks(Hdr(n))
                 /\ \A l \in 1 .. Store!SectorsFor(Len(files[n])) :
                       Place(n, k) = Place(n, l) => k = l
           /\ \A s \in {SectorOf(n)} \cup Blocks(Hdr(n)) :
                 \E k \in 1 .. Store!SectorsFor(Len(files[n])) : Place(n, k) = s
<1>1. PICK h : h = Hdr(n)
  OBVIOUS
<1>2. Sound(h) /\ SectorOf(n) \notin Blocks(h)
  BY <1>1, FileFacts DEF StoreInv
<1>3. PICK m : m = divRoundUp(h.numBytes, SectorSize)
  OBVIOUS
<1>4. PICK d : d = h.dataSectors
  OBVIOUS
<1>5. /\ m \in Nat /\ h.numBytes \in Nat /\ DOMAIN d = 1 .. m
      /\ \A i, j \in 1 .. m : d[i] = d[j] => i = j
      /\ Blocks(h) = {d[i] : i \in 1 .. m}
  <2>1. m \in Nat /\ h.numBytes \in Nat /\ DOMAIN d = 1 .. m
    BY <1>2, <1>3, <1>4, SoundFacts
  <2> QED BY <1>2, <1>4, <2>1 DEF Sound, Blocks
<1>6. Len(files[n]) = h.numBytes
  BY <1>1, FilesFacts
<1>7. Store!SectorsFor(Len(files[n])) = 1 + m
  BY <1>3, <1>5, <1>6, RoundUpFacts
<1>8. PICK t : t = SectorOf(n)
  OBVIOUS
<1>9. \A k : Place(n, k) = IF k = 1 THEN t ELSE d[k - 1]
  BY <1>1, <1>4, <1>8 DEF Place
<1>10. ASSUME NEW k \in 1 .. 1 + m, k # 1
       PROVE  k - 1 \in 1 .. m /\ Place(n, k) = d[k - 1] /\ Place(n, k) \in Blocks(h)
  BY <1>5, <1>9, <1>10
<1>11. ASSUME NEW k \in 1 .. 1 + m
       PROVE  Place(n, k) \in {t} \cup Blocks(h)
  BY <1>9, <1>10
<1>12. ASSUME NEW k \in 1 .. 1 + m, NEW l \in 1 .. 1 + m, Place(n, k) = Place(n, l) PROVE k = l
  <2>1. CASE k = 1 /\ l = 1
    BY <2>1
  <2>2. CASE k = 1 /\ l # 1
    BY <1>2, <1>8, <1>9, <1>10, <1>12, <2>2
  <2>3. CASE k # 1 /\ l = 1
    BY <1>2, <1>8, <1>9, <1>10, <1>12, <2>3
  <2>4. CASE k # 1 /\ l # 1
    <3>1. k - 1 = l - 1
      BY <1>5, <1>10, <1>12, <2>4
    <3> QED BY <3>1
  <2> QED BY <2>1, <2>2, <2>3, <2>4
<1>13. ASSUME NEW s \in {t} \cup Blocks(h) PROVE \E k \in 1 .. 1 + m : Place(n, k) = s
  <2>1. CASE s = t
    <3>1. 1 \in 1 .. 1 + m
      BY <1>5
    <3> QED BY <1>9, <2>1, <3>1
  <2>2. CASE s \in Blocks(h)
    <3>1. PICK i \in 1 .. m : s = d[i]
      BY <1>5, <2>2
    <3>2. i + 1 \in 1 .. 1 + m /\ i + 1 # 1 /\ (i + 1) - 1 = i
      BY <1>5
    <3>3. Place(n, i + 1) = s
      BY <1>9, <3>1, <3>2
    <3> QED BY <3>2, <3>3
  <2> QED BY <2>1, <2>2
<1>14. 1 + m \in Nat
  BY <1>5
<1> QED BY <1>1, <1>3, <1>7, <1>8, <1>11, <1>12, <1>13, <1>14

(* What the store counts as in use and what the bitmap counts as clear add
   up to the capacity.                                                      *)
LEMMA SpaceCount ==
    ASSUME StoreInv
    PROVE  /\ Store!InUse \in Nat /\ NumClear(freeMap) \in Nat /\ Capacity \in Int
           /\ Store!InUse + NumClear(freeMap) = Capacity
<1>1. PICK D : D = {n \in Names : Exists(n)}
  OBVIOUS
<1>2. Store!Existing = D
  BY <1>1, FilesFacts
<1>3. PICK c : c = [n \in Names |-> Store!SectorsFor(Len(files[n]))]
  OBVIOUS
<1>4. PICK P : P = UNION {{n} \X (1 .. c[n]) : n \in D}
  OBVIOUS
<1>5. Store!InUse = Cardinality(P)
  <2>1. PICK Q : Q = UNION {{n} \X (1 .. Store!SectorsFor(Len(files[n]))) : n \in Store!Existing}
    OBVIOUS
  <2>2. ASSUME NEW n \in D PROVE n \in Names /\ c[n] = Store!SectorsFor(Len(files[n]))
    BY <1>1, <1>3
  <2>3. \A x : x \in Q <=> \E n \in D : x \in {n} \X (1 .. Store!SectorsFor(Len(files[n])))
    BY <1>2, <2>1
  <2>4. \A x : x \in Q <=> \E n \in D : x \in {n} \X (1 .. c[n])
    BY <2>2, <2>3
  <2>5. \A x : x \in P <=> \E n \in D : x \in {n} \X (1 .. c[n])
    BY <1>4
  <2>6. P = Q
    BY <2>4, <2>5
  <2> QED BY <2>1, <2>6, SameCardinality DEF Store!InUse
<1>6. \A x : x \in P <=> \E n \in D : x \in {n} \X (1 .. c[n])
  BY <1>4
<1>7. ASSUME NEW x \in P PROVE x[1] \in D /\ x[2] \in 1 .. c[x[1]] /\ x = <<x[1], x[2]>>
  BY <1>6
<1>8. ASSUME NEW n \in D, NEW k \in 1 .. c[n] PROVE <<n, k>> \in P
  BY <1>6
<1>9. PICK U : U = freeMap \ Reserved
  OBVIOUS
<1>10. PICK g : g = [x \in P |-> Place(x[1], x[2])]
  OBVIOUS
<1>11. ASSUME NEW n \in D
       PROVE  \E i \in Files : directory[i].name = n /\ Owned(i) = {SectorOf(n)} \cup Blocks(Hdr(n))
  BY <1>1, FileFacts DEF StoreInv
<1>12. /\ Reserved \subseteq freeMap
       /\ \A s : s \in U <=> \E i \in Files : s \in Owned(i)
  <2>1. freeMap = Reserved \cup UNION {Owned(i) : i \in Files}
    BY DEF StoreInv, Inv, SpaceExact
  <2>2. \A i \in Files : Owned(i) \cap Reserved = {}
    BY DEF StoreInv, Inv, SpaceExact
  <2>3. PICK V : V = UNION {Owned(i) : i \in Files}
    OBVIOUS
  <2>4. \A s : s \in V <=> \E i \in Files : s \in Owned(i)
    BY <2>3
  <2>5. freeMap = Reserved \cup V
    BY <2>1, <2>3
  <2>6. \A s \in V : s \notin Reserved
    BY <2>2, <2>4
  <2> QED BY <1>9, <2>4, <2>5, <2>6
<1>13. ASSUME NEW x \in P PROVE g[x] \in U
  <2>1. PICK i \in Files : Owned(i) = {SectorOf(x[1])} \cup Blocks(Hdr(x[1]))
    BY <1>7, <1>11
  <2>2. Place(x[1], x[2]) \in Owned(i)
    BY <1>1, <1>3, <1>7, <2>1, PlaceFacts
  <2> QED BY <1>10, <1>12, <2>2
<1>14. ASSUME NEW x \in P, NEW y \in P, g[x] = g[y] PROVE x = y
  <2>1. PICK i \in Files : directory[i].name = x[1] /\ Owned(i) = {SectorOf(x[1])} \cup Blocks(Hdr(x[1]))
    BY <1>7, <1>11
  <2>2. PICK j \in Files : directory[j].name = y[1] /\ Owned(j) = {SectorOf(y[1])} \cup Blocks(Hdr(y[1]))
    BY <1>7, <1>11
  <2>3. Place(x[1], x[2]) \in Owned(i)
    BY <1>1, <1>3, <1>7, <2>1, PlaceFacts
  <2>4. Place(y[1], y[2]) \in Owned(j)
    BY <1>1, <1>3, <1>7, <2>2, PlaceFacts
  <2>5. Place(x[1], x[2]) = Place(y[1], y[2])
    BY <1>10, <1>14
  <2>6. i = j
    BY <2>3, <2>4, <2>5 DEF StoreInv, Inv, SpaceExact
  <2>7. x[1] = y[1]
    BY <2>1, <2>2, <2>6
  <2>8. x[2] = y[2]
    BY <1>1, <1>3, <1>7, <2>5, <2>7, PlaceFacts
  <2> QED BY <1>7, <2>7, <2>8
<1>15. ASSUME NEW s \in U PROVE \E x \in P : g[x] = s
  <2>1. PICK i \in Files : s \in Owned(i)
    BY <1>12
  <2>2. PICK n : n = directory[i].name
    OBVIOUS
  <2>3. n \in Names /\ i \in FindIndex(n)
    BY <2>2, OwnedMarked DEF StoreInv, FindIndex, Files
  <2>4. n \in D
    BY <1>1, <2>3 DEF Exists
  <2>5. PICK j \in Files : FindIndex(n) = {j} /\ Owned(j) = {SectorOf(n)} \cup Blocks(Hdr(n))
    BY <1>1, <2>4, FileFacts DEF StoreInv
  <2>6. s \in {SectorOf(n)} \cup Blocks(Hdr(n))
    BY <2>1, <2>3, <2>5
  <2>7. PICK k \in 1 .. c[n] : Place(n, k) = s
    BY <1>1, <1>3, <2>4, <2>6, PlaceFacts
  <2>8. <<n, k>> \in P /\ g[<<n, k>>] = s
    BY <1>8, <1>10, <2>4, <2>7
  <2> QED BY <2>8
<1>16. g \in Bijection(P, U)
  <2>1. g \in [P -> U]
    BY <1>10, <1>13
  <2> QED BY <1>14, <1>15, <2>1 DEF Bijection, Injection, Surjection, IsInjective
<1>17. IsFiniteSet(Sectors) /\ Reserved \subseteq Sectors /\ freeMap \subseteq Sectors
  BY DiskFacts DEF StoreInv, Inv, Tables
<1>18. IsFiniteSet(freeMap) /\ IsFiniteSet(Reserved) /\ IsFiniteSet(U)
       /\ IsFiniteSet(Sectors \ freeMap)
  BY <1>9, <1>17, FS_Subset
<1>19. IsFiniteSet(P) /\ Cardinality(P) = Cardinality(U)
  BY <1>16, <1>18, FS_Injection DEF Bijection
<1>20. /\ Cardinality(Sectors \ freeMap) = Cardinality(Sectors) - Cardinality(Sectors \cap freeMap)
       /\ Cardinality(freeMap \ Reserved) = Cardinality(freeMap) - Cardinality(freeMap \cap Reserved)
  BY <1>17, <1>18, FS_Difference
<1>21. Sectors \cap freeMap = freeMap /\ freeMap \cap Reserved = Reserved
  BY <1>12, <1>17
<1>22. Cardinality(Sectors) = NumSectors
  <2>1. NumSectors \in Nat /\ NumSectors # 0
    BY FileAssumption
  <2> QED BY <2>1, FS_Interval DEF Sectors
<1>23. /\ Cardinality(freeMap) \in Nat /\ Cardinality(Reserved) \in Nat /\ NumSectors \in Nat
       /\ Cardinality(U) \in Nat /\ Cardinality(Sectors \ freeMap) \in Nat
  BY <1>18, FS_CardinalityType, FileAssumption
<1>24. Capacity = NumSectors - Cardinality(Reserved) /\ NumClear(freeMap) = Cardinality(Sectors \ freeMap)
  BY DEF Capacity, NumClear
<1>25. Cardinality(Sectors \ freeMap) = NumSectors - Cardinality(freeMap)
  BY <1>20, <1>21, <1>22
<1>26. Cardinality(U) = Cardinality(freeMap) - Cardinality(Reserved)
  BY <1>9, <1>20, <1>21
<1>27. Store!InUse = Cardinality(U) /\ NumClear(freeMap) = Cardinality(Sectors \ freeMap)
  BY <1>5, <1>19, <1>24
<1> QED BY <1>23, <1>24, <1>25, <1>26, <1>27

(* A file can be created just when the store has room for it.               *)
LEMMA RoomFacts ==
    ASSUME StoreInv, NEW n \in Names, NEW size \in Nat
    PROVE  CanCreate(n, size) <=> Store!Fits(n, size)
<1>1. PICK m : m = divRoundUp(size, SectorSize)
  OBVIOUS
<1>2. m \in Nat /\ Store!SectorsFor(size) = 1 + m
  BY <1>1, RoundUpFacts
<1>3. /\ Store!InUse \in Nat /\ NumClear(freeMap) \in Nat /\ Capacity \in Int
      /\ Store!InUse + NumClear(freeMap) = Capacity
  BY SpaceCount
<1>4. Store!InUse + Store!SectorsFor(size) <= Capacity <=> NumClear(freeMap) >= 1 + m
  BY <1>2, <1>3
<1>5. ASSUME NumClear(freeMap) > 0
      PROVE  NumClear(freeMap \cup {Find(freeMap)}) = NumClear(freeMap) - 1
  <2>1. freeMap \in SUBSET Sectors
    BY DEF StoreInv, Inv, Tables
  <2>2. PICK s : s = Find(freeMap)
    OBVIOUS
  <2>3. s \in Sectors \ freeMap
    BY <1>5, <2>1, <2>2, FindFacts
  <2>4. IsFiniteSet(Sectors \ freeMap)
    BY DiskFacts, FS_Subset
  <2>5. Cardinality((Sectors \ freeMap) \ {s}) = Cardinality(Sectors \ freeMap) - 1
    BY <2>3, <2>4, FS_RemoveElement
  <2>6. Sectors \ (freeMap \cup {s}) = (Sectors \ freeMap) \ {s}
    OBVIOUS
  <2> QED BY <2>2, <2>5, <2>6 DEF NumClear
<1>6. (NumClear(freeMap) > 0 /\ NumClear(freeMap \cup {Find(freeMap)}) >= m)
         <=> NumClear(freeMap) >= 1 + m
  <2>1. CASE NumClear(freeMap) > 0
    BY <1>2, <1>3, <1>5, <2>1
  <2>2. CASE ~ (NumClear(freeMap) > 0)
    BY <1>2, <1>3, <2>2
  <2> QED BY <2>1, <2>2
<1>7. FindIndex(n) = {} <=> files[n] = NoFile
  BY FilesFacts DEF Exists
<1>8. Unused # {} <=> Cardinality(Store!Existing) < NumDirEntries
  BY EntriesCount
<1>9. CanCreate(n, size) <=> /\ FindIndex(n) = {} /\ Unused # {}
                             /\ NumClear(freeMap) > 0 /\ NumClear(freeMap \cup {Find(freeMap)}) >= m
  BY <1>1 DEF CanCreate
<1>10. Store!Fits(n, size) <=> /\ files[n] = NoFile /\ Cardinality(Store!Existing) < NumDirEntries
                               /\ Store!InUse + Store!SectorsFor(size) <= Capacity
  BY SameCardinality DEF Store!Fits
<1> QED BY <1>4, <1>6, <1>7, <1>8, <1>9, <1>10

-----------------------------------------------------------------------------
(* The file system implements the store                                     *)

(* The abstract store's view of an open file.                               *)
LEMMA OpenedFacts ==
    ASSUME StoreInv
    PROVE  /\ opened = [i \in Ids |-> opened[i]]
           /\ \A i \in Ids : /\ opened[i] = NoFile <=> fileTable[i] = NoFile
                             /\ fileTable[i] # NoFile =>
                                   opened[i] = [name |-> fileTable[i].name,
                                                position |-> fileTable[i].seekPosition]
<1>1. opened = [i \in Ids |-> opened[i]]
  BY DEF opened
<1>2. ASSUME NEW i \in Ids, fileTable[i] # NoFile
      PROVE  /\ opened[i] = [name |-> fileTable[i].name, position |-> fileTable[i].seekPosition]
             /\ opened[i] # NoFile
  <2>1. opened[i] = [name |-> fileTable[i].name, position |-> fileTable[i].seekPosition]
    BY <1>2 DEF opened
  <2>2. fileTable[i].name \in Names /\ fileTable[i].seekPosition \in Nat
    BY <1>2, OpenFacts DEF Get
  <2>3. opened[i] \in [name : Names, position : Nat]
    BY <2>1, <2>2
  <2> QED BY <2>1, <2>3, FileAssumption
<1>3. \A i \in Ids : fileTable[i] = NoFile => opened[i] = NoFile
  BY DEF opened
<1> QED BY <1>1, <1>2, <1>3

(* A call that moves a position in the file table moves it in the store.    *)
LEMMA MovedOpened ==
    ASSUME StoreInv, NEW id \in Ids, Get(id) # NoFile, NEW q \in Nat,
           fileTable' = [fileTable EXCEPT ![id].seekPosition = q]
    PROVE  opened' = [opened EXCEPT ![id].position = q]
<1>1. fileTable \in [Ids -> OpenFiles \cup {NoFile}]
  BY DEF StoreInv, Opens
<1>2. PICK f : f = fileTable[id]
  OBVIOUS
<1>3. f \in OpenFiles /\ f # NoFile
  BY <1>2, OpenFacts DEF Get
<1>4. PICK g : g = [f EXCEPT !.seekPosition = q]
  OBVIOUS
<1>5. g \in OpenFiles /\ g.name = f.name /\ g.seekPosition = q
  BY <1>3, <1>4 DEF OpenFiles
<1>6. g # NoFile
  BY <1>5, FileAssumption DEF OpenFiles
<1>7. /\ fileTable'[id] = g /\ \A i \in Ids \ {id} : fileTable'[i] = fileTable[i]
  BY <1>1, <1>2, <1>4
<1>8. opened[id] = [name |-> f.name, position |-> f.seekPosition]
  BY <1>2, <1>3, OpenedFacts
<1>9. PICK o : o = [i \in Ids |-> IF fileTable'[i] = NoFile THEN NoFile
                                  ELSE [name |-> fileTable'[i].name, position |-> fileTable'[i].seekPosition]]
  OBVIOUS
<1>10. opened' = o
  BY <1>9 DEF opened
<1>11. o[id] = [name |-> f.name, position |-> q]
  BY <1>5, <1>6, <1>7, <1>9
<1>12. [opened[id] EXCEPT !.position = q] = [name |-> f.name, position |-> q]
  BY <1>8
<1>13. \A i \in Ids \ {id} : o[i] = opened[i]
  BY <1>7, <1>9 DEF opened
<1>14. o = [opened EXCEPT ![id] = [name |-> f.name, position |-> q]]
  <2>1. PICK w : w = opened
    OBVIOUS
  <2>2. w = [i \in Ids |-> w[i]] /\ \A i \in Ids \ {id} : o[i] = w[i]
    BY <1>13, <2>1, OpenedFacts
  <2>3. o = [i \in Ids |-> o[i]]
    BY <1>9
  <2>4. o = [w EXCEPT ![id] = [name |-> f.name, position |-> q]]
    BY <1>11, <2>2, <2>3
  <2> QED BY <2>1, <2>4
<1> QED BY <1>10, <1>12, <1>14

(* A call that leaves the disk alone leaves the files alone.                *)
LEMMA SameFiles ==
    ASSUME StoreInv, UNCHANGED disk
    PROVE  files' = files
<1>1. UNCHANGED <<freeMap, directory, header>> /\ data' = data
  BY DEF disk
<1>2. ASSUME NEW n \in Names PROVE Contents(n)' = Contents(n)
  <2>1. FindIndex(n)' = FindIndex(n) /\ Hdr(n)' = Hdr(n)
    BY <1>1, SameDirectory
  <2> QED BY <1>1, <2>1, SameContents DEF StoreInv
<1> QED BY <1>2 DEF files

(* Only the name n changes what it holds.                                   *)
LEMMA OneFile ==
    ASSUME NEW n \in Names, NEW c, Contents(n)' = c,
           \A m \in Names \ {n} : Contents(m)' = Contents(m)
    PROVE  files' = [files EXCEPT ![n] = c]
<1>1. files' = [m \in Names |-> Contents(m)']
  BY DEF files
<1>2. files = [m \in Names |-> Contents(m)]
  BY DEF files
<1>3. PICK F : F = [files EXCEPT ![n] = c]
  OBVIOUS
<1>4. F = [m \in Names |-> F[m]] /\ F[n] = c /\ \A m \in Names \ {n} : F[m] = Contents(m)
  BY <1>2, <1>3
<1>5. \A m \in Names : F[m] = Contents(m)'
  BY <1>4
<1> QED BY <1>1, <1>3, <1>4, <1>5

(* The formatted disk is the empty store.                                   *)
LEMMA InitStore == Init => StoreInv /\ Store!StoreInit
<1> SUFFICES ASSUME Init PROVE StoreInv /\ Store!StoreInit
  OBVIOUS
<1>1. Inv
  BY InitInv
<1>2. Files = {} /\ \A n : FindIndex(n) = {}
  BY DEF Init, Files, FindIndex
<1>3. Shapes
  BY <1>2 DEF Shapes
<1>4. Opens
  BY DEF Init, Opens
<1>5. Written
  BY DEF Init, Written, Byte
<1>6. files = [n \in Names |-> NoFile]
  BY <1>2 DEF files, Contents
<1>7. opened = [i \in Ids |-> NoFile]
  BY DEF Init, opened
<1>8. out = <<"none">>
  BY DEF Init
<1> QED BY <1>1, <1>3, <1>4, <1>5, <1>6, <1>7, <1>8 DEF StoreInv, Store!StoreInit

(* Every step of the code is a step of the store, and keeps StoreInv.       *)
StoreStep == StoreInv' /\ Store!StoreNext(Sizes, Data, Positions)

(* The machine is started again.                                            *)
LEMMA RestartStore == ASSUME StoreInv, Restart PROVE StoreStep
<1>1. UNCHANGED <<freeMap, directory, header>> /\ data' = data /\ UNCHANGED disk
  BY DEF Restart, disk
<1>2. StoreInv'
  BY <1>1, SameSpace, SameDirectory, CallOpens DEF StoreInv, Written
<1>3. files' = files
  BY <1>1, SameFiles
<1>4. opened' = [i \in Ids |-> NoFile]
  BY DEF Restart, opened
<1>5. Store!Restart
  BY <1>3, <1>4 DEF Store!Restart, Restart
<1> QED BY <1>2, <1>5 DEF StoreStep, Store!StoreNext

(* FileSystem::Create, when there is room.                                  *)
LEMMA CreateStore ==
    ASSUME StoreInv, NEW n \in Names, NEW size \in Sizes, Create(n, size)
    PROVE  StoreStep
<1>1. /\ Shapes' /\ FindIndex(n)' # {} /\ Sound(Hdr(n)') /\ Hdr(n)'.numBytes = size
      /\ size \in Nat /\ ~Exists(n)
      /\ \A m \in Names \ {n} : /\ FindIndex(m)' = FindIndex(m)
                                /\ Exists(m) => Hdr(m)' = Hdr(m)
  BY CreateViews DEF StoreInv
<1>2. data' = data /\ fileTable' = fileTable /\ out' = <<"yes">> /\ CanCreate(n, size)
  BY DEF Create
<1>3. StoreInv'
  <2>1. Inv'
    BY CreateStep DEF StoreInv
  <2>2. Opens'
    BY <1>1, <1>2, SameOpens
  <2> QED BY <1>1, <1>2, <2>1, <2>2 DEF StoreInv, Written
<1>4. ASSUME NEW m \in Names \ {n} PROVE Contents(m)' = Contents(m)
  BY <1>1, <1>2, SameContents DEF StoreInv
<1>5. PICK c : c = Contents(n)'
  OBVIOUS
<1>6. c # NoFile /\ Len(c) = size
  <2>1. PICK h : h = Hdr(n)'
    OBVIOUS
  <2>2. Sound(h) /\ h.numBytes = size
    BY <1>1, <2>1
  <2>3. PICK k : k = NumBytes(h, size, 0)
    OBVIOUS
  <2>4. k = size
    BY <1>1, <2>2, <2>3 DEF NumBytes
  <2>5. PICK q : q = [b \in 1 .. size |-> 0 + b - 1]
    OBVIOUS
  <2>6. \A b \in 1 .. size : q[b] \in Nat /\ q[b] < h.numBytes
    BY <1>1, <2>2, <2>5
  <2>7. c = [b \in 1 .. size |-> data[ByteToSector(h, q[b])][q[b] % SectorSize]]
    <3>1. h = header'[SectorOf(n)']
      BY <2>1 DEF Hdr
    <3> QED BY <1>1, <1>2, <1>5, <2>2, <2>3, <2>4, <2>5, <3>1 DEF Contents, ReadAt
  <2>8. ASSUME NEW b \in 1 .. size
        PROVE  data[ByteToSector(h, q[b])][q[b] % SectorSize] \in Byte
    <3>1. PICK p : p = q[b]
      OBVIOUS
    <3>2. p \in Nat /\ p < h.numBytes
      BY <2>6, <3>1
    <3>3. ByteToSector(h, p) \in Sectors /\ p % SectorSize \in 0 .. SectorSize - 1
      BY <2>2, <3>2, ByteFacts, DivFacts
    <3> QED BY <3>1, <3>3 DEF StoreInv, Written
  <2>9. c \in [1 .. size -> Byte]
    BY <2>7, <2>8
  <2>10. c \in Seq(Byte) /\ Len(c) = size
    BY <1>1, <2>9, FunIsSeq
  <2> QED BY <2>10, FileAssumption DEF Byte
<1>7. files' = [files EXCEPT ![n] = c]
  BY <1>4, <1>5, OneFile
<1>8. files'[n] = c
  BY <1>7 DEF files
<1>9. Store!Fits(n, size)
  BY <1>1, <1>2, RoomFacts
<1>10. opened' = opened
  BY <1>2 DEF opened
<1>11. Store!Create(n, size)
  BY <1>2, <1>6, <1>7, <1>8, <1>9, <1>10 DEF Store!Create
<1> QED BY <1>3, <1>11 DEF StoreStep, Store!StoreNext

(* FileSystem::Create, when there is no room.                               *)
LEMMA CreateFailsStore ==
    ASSUME StoreInv, NEW n \in Names, NEW size \in Sizes, CreateFails(n, size)
    PROVE  Store!CreateRefused(n, size)
<1>1. files' = files /\ opened' = opened
  BY SameFiles DEF CreateFails, opened
<1>2. ~Store!Fits(n, size)
  BY RoomFacts, FileAssumption DEF CreateFails
<1> QED BY <1>1, <1>2 DEF CreateFails, Store!CreateRefused

(* Open_Syscall.                                                            *)
LEMMA OpenStore ==
    ASSUME StoreInv, NEW n \in Names, Open(n)
    PROVE  \E i \in Ids : Store!Open(n, i)
<1>1. files' = files /\ Exists(n)
  BY SameFiles DEF Open, Exists
<1>2. PICK f : f = NewOpenFile(n)
  OBVIOUS
<1>3. PICK id \in Ids : /\ fileTable[id] = NoFile /\ out' = <<"id", id>>
                        /\ fileTable' = [fileTable EXCEPT ![id] = f]
  BY <1>2, PutFacts DEF Open
<1>4. fileTable \in [Ids -> OpenFiles \cup {NoFile}]
  BY DEF StoreInv, Opens
<1>5. /\ fileTable'[id] = f /\ \A i \in Ids \ {id} : fileTable'[i] = fileTable[i]
  BY <1>3, <1>4
<1>6. f # NoFile /\ f.name = n /\ f.seekPosition = 0
  <2>1. Hdr(n) \in Headers
    BY <1>1, FileFacts DEF StoreInv, Sound
  <2>2. f = [hdr |-> Hdr(n), seekPosition |-> 0, name |-> n]
    BY <1>2 DEF NewOpenFile, Hdr
  <2>3. f \in [hdr : Headers, seekPosition : Nat, name : Names]
    BY <2>1, <2>2
  <2> QED BY <2>2, <2>3, FileAssumption
<1>7. PICK o : o = [i \in Ids |-> IF fileTable'[i] = NoFile THEN NoFile
                                  ELSE [name |-> fileTable'[i].name, position |-> fileTable'[i].seekPosition]]
  OBVIOUS
<1>8. opened' = o
  BY <1>7 DEF opened
<1>9. o[id] = [name |-> n, position |-> 0]
  BY <1>5, <1>6, <1>7
<1>10. PICK w : w = opened
  OBVIOUS
<1>11. w = [i \in Ids |-> w[i]] /\ w[id] = NoFile
  BY <1>3, <1>10, OpenedFacts
<1>12. \A i \in Ids \ {id} : o[i] = w[i]
  BY <1>5, <1>7, <1>10 DEF opened
<1>13. o = [i \in Ids |-> o[i]]
  BY <1>7
<1>14. o = [w EXCEPT ![id] = [name |-> n, position |-> 0]]
  BY <1>9, <1>11, <1>12, <1>13
<1>15. files[n] # NoFile
  BY <1>1, FilesFacts
<1>16. Store!Open(n, id)
  BY <1>1, <1>3, <1>8, <1>10, <1>11, <1>14, <1>15 DEF Store!Open
<1> QED BY <1>16

(* Open_Syscall, when there is no such file or no id for it.                *)
LEMMA OpenFailsStore ==
    ASSUME StoreInv, NEW n \in Names, OpenFails(n)
    PROVE  Store!OpenRefused(n)
<1>1. files' = files /\ opened' = opened
  BY SameFiles DEF OpenFails, opened
<1>2. FindIndex(n) = {} => files[n] = NoFile
  BY FilesFacts DEF Exists
<1>3. FreeIds = {} => \A i \in Ids : opened[i] # NoFile
  BY OpenedFacts DEF FreeIds, Get
<1> QED BY <1>1, <1>2, <1>3 DEF OpenFails, Store!OpenRefused

(* Close_Syscall.                                                           *)
LEMMA CloseStore ==
    ASSUME StoreInv, NEW id \in Ids, Close(id)
    PROVE  Store!Close(id)
<1>1. files' = files
  BY SameFiles DEF Close
<1>2. fileTable[id] # NoFile /\ fileTable' = [fileTable EXCEPT ![id] = NoFile] /\ out' = out
  BY DEF Close, Get, Dropped
<1>3. fileTable \in [Ids -> OpenFiles \cup {NoFile}]
  BY DEF StoreInv, Opens
<1>4. /\ fileTable'[id] = NoFile /\ \A i \in Ids \ {id} : fileTable'[i] = fileTable[i]
  BY <1>2, <1>3
<1>5. PICK o : o = [i \in Ids |-> IF fileTable'[i] = NoFile THEN NoFile
                                  ELSE [name |-> fileTable'[i].name, position |-> fileTable'[i].seekPosition]]
  OBVIOUS
<1>6. opened' = o
  BY <1>5 DEF opened
<1>7. PICK w : w = opened
  OBVIOUS
<1>8. w = [i \in Ids |-> w[i]] /\ w[id] # NoFile
  BY <1>2, <1>7, OpenedFacts
<1>9. o[id] = NoFile /\ \A i \in Ids \ {id} : o[i] = w[i]
  BY <1>4, <1>5, <1>7 DEF opened
<1>10. o = [i \in Ids |-> o[i]]
  BY <1>5
<1>11. o = [w EXCEPT ![id] = NoFile]
  BY <1>8, <1>9, <1>10
<1> QED BY <1>1, <1>2, <1>6, <1>7, <1>8, <1>11 DEF Store!Close

(* OpenFile::Seek.                                                          *)
LEMMA SeekStore ==
    ASSUME StoreInv, NEW id \in Ids, NEW position \in Positions, Seek(id, position)
    PROVE  Opens' /\ Store!Seek(id, position)
<1>1. UNCHANGED disk /\ UNCHANGED <<freeMap, directory, header>> /\ position \in Nat
      /\ Get(id) # NoFile /\ fileTable' = [fileTable EXCEPT ![id].seekPosition = position]
      /\ out' = out
  BY FileAssumption DEF Seek, disk, Get
<1>2. files' = files
  BY <1>1, SameFiles
<1>3. Opens'
  BY <1>1, MovedOpens
<1>4. opened' = [opened EXCEPT ![id].position = position]
  BY <1>1, MovedOpened
<1>5. opened[id] # NoFile
  BY <1>1, OpenedFacts DEF Get
<1> QED BY <1>1, <1>2, <1>3, <1>4, <1>5 DEF Store!Seek

(* Read_Syscall: the bytes from the position on.                            *)
LEMMA ReadStore ==
    ASSUME StoreInv, NEW id \in Ids, NEW n \in Sizes, Read(id, n)
    PROVE  Opens' /\ Store!Read(id, n)
<1>1. PICK f : f = Get(id)
  OBVIOUS
<1>2. PICK h : h = f.hdr
  OBVIOUS
<1>3. PICK at : at = f.seekPosition
  OBVIOUS
<1>4. PICK nm : nm = f.name
  OBVIOUS
<1>5. PICK r : r = ReadAt(h, n, at)
  OBVIOUS
<1>6. /\ f # NoFile /\ out' = <<"bytes", r>> /\ UNCHANGED disk
      /\ fileTable' = [fileTable EXCEPT ![id].seekPosition = @ + Len(r)]
  BY <1>1, <1>2, <1>3, <1>5 DEF Read, Moved
<1>7. at \in Nat /\ nm \in Names /\ Exists(nm) /\ h = Hdr(nm) /\ Sound(h)
  BY <1>1, <1>2, <1>3, <1>4, <1>6, OpenFacts DEF Get
<1>8. n \in Nat /\ Written
  BY FileAssumption DEF StoreInv
<1>9. PICK k : k = NumBytes(h, n, at)
  OBVIOUS
<1>10. /\ k \in Nat /\ (k # 0 => at + k <= h.numBytes)
       /\ k = Store!Clip(n, at, h.numBytes)
       /\ r \in Seq(Byte) /\ Len(r) = k
       /\ \A b \in 1 .. k : r[b] = Stored(h, at + b - 1)
  BY <1>5, <1>7, <1>8, <1>9, ReadFacts
<1>11. PICK bytes : bytes = files[nm]
  OBVIOUS
<1>12. /\ bytes \in Seq(Byte) /\ Len(bytes) = h.numBytes
       /\ \A b \in 1 .. h.numBytes : bytes[b] = Stored(h, b - 1)
  <2>1. bytes = Contents(nm)
    BY <1>7, <1>11, FilesFacts
  <2> QED BY <1>7, <2>1, ContentsFacts
<1>13. h.numBytes \in Nat
  BY <1>7, SoundFacts
<1>14. PICK t : t = SubSeq(bytes, at + 1, at + k)
  OBVIOUS
<1>15. \A i \in at + 1 .. at + k : i \in 1 .. h.numBytes /\ bytes[i] \in Byte
  <2>1. ASSUME NEW i \in at + 1 .. at + k PROVE i \in 1 .. h.numBytes
    BY <1>7, <1>10, <1>13
  <2> QED BY <1>12, <2>1, ElementOfSeq
<1>16. /\ t \in Seq(Byte) /\ Len(t) = k
       /\ \A i \in 1 .. k : t[i] = bytes[at + i]
  <2>1. PICK a \in Int : a = at + 1
    BY <1>7
  <2>2. PICK c \in Int : c = at + k
    BY <1>7, <1>10
  <2>3. \A i \in a .. c : bytes[i] \in Byte
    BY <1>15, <2>1, <2>2
  <2>4. /\ SubSeq(bytes, a, c) \in Seq(Byte)
        /\ Len(SubSeq(bytes, a, c)) = IF a <= c THEN c - a + 1 ELSE 0
        /\ \A i \in 1 .. c - a + 1 : SubSeq(bytes, a, c)[i] = bytes[a + i - 1]
    BY <2>3, SubSeqProperties
  <2>5. t = SubSeq(bytes, a, c)
    BY <1>14, <2>1, <2>2
  <2>6. c - a + 1 = k /\ (a <= c <=> k >= 1)
    BY <1>7, <1>10, <2>1, <2>2
  <2>7. \A i \in 1 .. k : a + i - 1 = at + i
    BY <1>7, <1>10, <2>1
  <2> QED BY <1>10, <2>4, <2>5, <2>6, <2>7
<1>17. r = t
  <2>1. ASSUME NEW i \in 1 .. k PROVE r[i] = t[i]
    <3>1. at + i \in 1 .. h.numBytes /\ at + i - 1 = (at + i) - 1
      BY <1>7, <1>10, <1>13
    <3>2. bytes[at + i] = Stored(h, (at + i) - 1)
      BY <1>12, <3>1
    <3> QED BY <1>10, <1>16, <3>1, <3>2
  <2> QED BY <1>10, <1>16, <2>1, SeqEqual
<1>18. PICK q \in Nat : q = at + k
  BY <1>7, <1>10
<1>19. fileTable' = [fileTable EXCEPT ![id].seekPosition = q]
  BY <1>1, <1>3, <1>6, <1>10, <1>18 DEF Get
<1>20. Opens' /\ opened' = [opened EXCEPT ![id].position = q]
  <2>1. UNCHANGED <<freeMap, directory, header>> /\ Get(id) # NoFile
    BY <1>1, <1>6 DEF disk
  <2> QED BY <1>19, <2>1, MovedOpens, MovedOpened
<1>21. opened[id] = [name |-> nm, position |-> at] /\ opened[id] # NoFile
  BY <1>1, <1>3, <1>4, <1>6, OpenedFacts DEF Get
<1>22. opened' = [opened EXCEPT ![id].position = @ + k]
  BY <1>18, <1>20, <1>21
<1>23. files' = files
  BY <1>6, SameFiles
<1>24. Store!Read(id, n)
  <2>1. opened[id].name = nm /\ opened[id].position = at
    BY <1>21
  <2>2. files[opened[id].name] = bytes
    BY <1>11, <2>1
  <2>3. Store!Clip(n, opened[id].position, Len(files[opened[id].name])) = k
    BY <1>10, <1>12, <2>1, <2>2
  <2>4. out' = <<"bytes", SubSeq(files[opened[id].name], opened[id].position + 1, opened[id].position + k)>>
    BY <1>6, <1>14, <1>17, <2>1, <2>2
  <2> QED BY <1>21, <1>22, <1>23, <2>3, <2>4 DEF Store!Read
<1> QED BY <1>20, <1>24

(* Write_Syscall: the bytes written are in the file, and nothing else has
   changed.                                                                 *)
LEMMA WriteStore ==
    ASSUME StoreInv, NEW id \in Ids, NEW bytes \in Data, Write(id, bytes)
    PROVE  Opens' /\ Written' /\ Store!Write(id, bytes)
<1>1. PICK f : f = Get(id)
  OBVIOUS
<1>2. PICK h : h = f.hdr
  OBVIOUS
<1>3. PICK at : at = f.seekPosition
  OBVIOUS
<1>4. PICK nm : nm = f.name
  OBVIOUS
<1>5. PICK k : k = NumBytes(h, Len(bytes), at)
  OBVIOUS
<1>6. /\ f # NoFile /\ out' = <<"written", k>> /\ UNCHANGED <<freeMap, directory, header>>
      /\ fileTable' = [fileTable EXCEPT ![id].seekPosition = @ + k]
      /\ WriteAt(h, bytes, at)
  BY <1>1, <1>2, <1>3, <1>5 DEF Write, Moved
<1>7. at \in Nat /\ nm \in Names /\ Exists(nm) /\ h = Hdr(nm) /\ Sound(h)
  BY <1>1, <1>2, <1>3, <1>4, <1>6, OpenFacts DEF Get
<1>8. bytes \in Seq(Bytes) /\ Len(bytes) \in Nat /\ Written
  BY FileAssumption, LenProperties DEF StoreInv
<1>9. PICK m \in Nat : m = h.numBytes
  BY <1>7, SoundFacts
<1>10. /\ k \in Nat /\ (k # 0 => at + k <= m)
       /\ k = Store!Clip(Len(bytes), at, m)
  BY <1>5, <1>7, <1>8, <1>9, ReadFacts
<1>11. /\ Written'
       /\ \A s \in Sectors \ Blocks(h) : data'[s] = data[s]
       /\ \A p \in Nat : p < m =>
            data'[ByteToSector(h, p)][p % SectorSize] =
              IF p \in at .. at + k - 1 THEN bytes[p - at + 1] ELSE Stored(h, p)
  BY <1>5, <1>6, <1>7, <1>8, <1>9, WriteFacts
<1>12. ASSUME NEW x \in Names \ {nm} PROVE Contents(x)' = Contents(x)
  <2>1. FindIndex(x)' = FindIndex(x) /\ Hdr(x)' = Hdr(x)
    BY <1>6, SameDirectory
  <2>2. ASSUME Exists(x), NEW s \in Blocks(Hdr(x)) PROVE data'[s] = data[s]
    <3>1. PICK i \in Files : /\ directory[i].name = x /\ Sound(Hdr(x))
                             /\ Owned(i) = {SectorOf(x)} \cup Blocks(Hdr(x))
      BY <2>2, FileFacts DEF StoreInv
    <3>2. PICK j \in Files : directory[j].name = nm /\ Owned(j) = {SectorOf(nm)} \cup Blocks(h)
      BY <1>7, FileFacts DEF StoreInv
    <3>3. Owned(i) \cap Owned(j) = {}
      BY <3>1, <3>2 DEF StoreInv, Inv, SpaceExact
    <3>4. s \in Sectors \ Blocks(h)
      BY <2>2, <3>1, <3>2, <3>3, SoundFacts
    <3> QED BY <1>11, <3>4
  <2> QED BY <2>1, <2>2, SameContents DEF StoreInv
<1>13. PICK old : old = files[nm]
  OBVIOUS
<1>14. /\ old \in Seq(Byte) /\ Len(old) = m /\ DOMAIN old = 1 .. m
       /\ \A b \in 1 .. m : old[b] = Stored(h, b - 1)
  <2>1. old = Contents(nm)
    BY <1>7, <1>13, FilesFacts
  <2> QED BY <1>7, <1>9, <2>1, ContentsFacts, LenProperties
<1>15. PICK new : new = [b \in 1 .. m |-> IF b \in at + 1 .. at + k THEN bytes[b - at] ELSE old[b]]
  OBVIOUS
<1>16. Contents(nm)' = new
  <2>1. PICK l : l = NumBytes(h, m, 0)
    OBVIOUS
  <2>2. l = m
    BY <1>9, <2>1 DEF NumBytes
  <2>3. PICK q : q = [b \in 1 .. m |-> 0 + b - 1]
    OBVIOUS
  <2>4. \A b \in 1 .. m : q[b] \in Nat /\ q[b] < m /\ q[b] = b - 1
    BY <2>3
  <2>5. Contents(nm)' = [b \in 1 .. m |-> data'[ByteToSector(h, q[b])][q[b] % SectorSize]]
    <3>1. FindIndex(nm)' = FindIndex(nm) /\ Hdr(nm)' = Hdr(nm)
      BY <1>6, SameDirectory
    <3>2. FindIndex(nm)' # {} /\ h = header'[SectorOf(nm)']
      BY <1>7, <3>1 DEF Exists, Hdr
    <3> QED BY <1>9, <2>1, <2>2, <2>3, <3>2 DEF Contents, ReadAt
  <2>6. ASSUME NEW b \in 1 .. m
        PROVE  data'[ByteToSector(h, q[b])][q[b] % SectorSize] =
                 IF b \in at + 1 .. at + k THEN bytes[b - at] ELSE old[b]
    <3>1. PICK p : p = q[b]
      OBVIOUS
    <3>2. p \in Nat /\ p < m /\ p = b - 1
      BY <2>4, <3>1
    <3>3. data'[ByteToSector(h, p)][p % SectorSize] =
            IF p \in at .. at + k - 1 THEN bytes[p - at + 1] ELSE Stored(h, p)
      BY <1>11, <3>2
    <3>4. p \in at .. at + k - 1 <=> b \in at + 1 .. at + k
      BY <1>7, <1>10, <3>2
    <3>5. p - at + 1 = b - at
      BY <1>7, <3>2
    <3>6. old[b] = Stored(h, p)
      BY <1>14, <3>2
    <3> QED BY <3>1, <3>3, <3>4, <3>5, <3>6
  <2> QED BY <1>15, <2>5, <2>6
<1>17. files' = [files EXCEPT ![nm] = new]
  BY <1>7, <1>12, <1>16, OneFile
<1>18. PICK q \in Nat : q = at + k
  BY <1>7, <1>10
<1>19. fileTable' = [fileTable EXCEPT ![id].seekPosition = q]
  BY <1>1, <1>3, <1>6, <1>18 DEF Get
<1>20. Opens' /\ opened' = [opened EXCEPT ![id].position = q]
  <2>1. Get(id) # NoFile
    BY <1>1, <1>6
  <2> QED BY <1>6, <1>19, <2>1, MovedOpens, MovedOpened
<1>21. opened[id] = [name |-> nm, position |-> at] /\ opened[id] # NoFile
  BY <1>1, <1>3, <1>4, <1>6, OpenedFacts DEF Get
<1>22. opened' = [opened EXCEPT ![id].position = @ + k]
  BY <1>18, <1>20, <1>21
<1>23. Store!Write(id, bytes)
  <2>1. opened[id].name = nm /\ opened[id].position = at
    BY <1>21
  <2>2. files[opened[id].name] = old
    BY <1>13, <2>1
  <2>3. Store!Clip(Len(bytes), opened[id].position, Len(files[opened[id].name])) = k
    BY <1>10, <1>14, <2>1, <2>2
  <2>4. files' = [files EXCEPT ![opened[id].name] =
                    [b \in DOMAIN files[opened[id].name] |->
                       IF b \in opened[id].position + 1 .. opened[id].position + k
                       THEN bytes[b - opened[id].position] ELSE files[opened[id].name][b]]]
    BY <1>14, <1>15, <1>17, <2>1, <2>2
  <2> QED BY <1>6, <1>21, <1>22, <2>3, <2>4 DEF Store!Write
<1> QED BY <1>11, <1>20, <1>23

(* FileSystem::Remove.                                                      *)
LEMMA RemoveStore ==
    ASSUME StoreInv, NEW n \in Names, NotOpen(n), Remove(n)
    PROVE  StoreInv' /\ Store!Remove(n)
<1>1. /\ Shapes' /\ FindIndex(n)' = {} /\ Exists(n)
      /\ \A m \in Names \ {n} : /\ FindIndex(m)' = FindIndex(m)
                                /\ Exists(m) => Hdr(m)' = Hdr(m)
  BY RemoveViews DEF StoreInv
<1>2. data' = data /\ fileTable' = fileTable /\ out' = <<"yes">>
  BY DEF Remove
<1>3. StoreInv'
  <2>1. Inv'
    BY RemoveStep DEF StoreInv
  <2>2. Opens'
    BY <1>1, <1>2, SameOpens DEF NotOpen
  <2> QED BY <1>1, <1>2, <2>1, <2>2 DEF StoreInv, Written
<1>4. ASSUME NEW m \in Names \ {n} PROVE Contents(m)' = Contents(m)
  BY <1>1, <1>2, SameContents DEF StoreInv
<1>5. Contents(n)' = NoFile
  BY <1>1 DEF Contents
<1>6. files' = [files EXCEPT ![n] = NoFile]
  BY <1>4, <1>5, OneFile
<1>7. files[n] # NoFile
  BY <1>1, FilesFacts
<1>8. opened' = opened
  BY <1>2 DEF opened
<1> QED BY <1>2, <1>3, <1>6, <1>7, <1>8 DEF Store!Remove

(* FileSystem::Remove, when there is no such file.                          *)
LEMMA RemoveFailsStore ==
    ASSUME StoreInv, NEW n \in Names, RemoveFails(n)
    PROVE  Store!Remove(n)
<1>1. files' = files /\ opened' = opened
  BY SameFiles DEF RemoveFails, opened
<1>2. files[n] = NoFile
  BY FilesFacts DEF RemoveFails, Exists
<1>3. files' = [files EXCEPT ![n] = NoFile]
  BY <1>1, <1>2 DEF files
<1> QED BY <1>1, <1>2, <1>3 DEF RemoveFails, Store!Remove

(* A call that changes neither disk nor file table.                         *)
LEMMA SameStoreInv ==
    ASSUME StoreInv, UNCHANGED <<disk, fileTable>>
    PROVE  StoreInv'
<1>1. UNCHANGED <<freeMap, directory, header>> /\ data' = data /\ UNCHANGED fileTable
  BY DEF disk
<1>2. Inv' /\ Shapes' /\ Written'
  BY <1>1, SameSpace, SameDirectory DEF StoreInv, Written
<1>3. Opens'
  BY <1>1, SameDirectory, SameOpens
<1> QED BY <1>2, <1>3 DEF StoreInv

(* Every step of the file system is one of the store.                       *)
LEMMA NextStore ==
    StoreInv /\ [Next]_vars =>
        StoreInv' /\ [Store!StoreNext(Sizes, Data, Positions)]_(Store!storeVars)
<1> SUFFICES ASSUME StoreInv, [Next]_vars
             PROVE  StoreInv' /\ (StoreStep \/ UNCHANGED Store!storeVars)
  BY DEF StoreStep
<1>1. CASE UNCHANGED vars
  <2>1. UNCHANGED disk /\ UNCHANGED fileTable /\ out' = out
    BY <1>1 DEF vars
  <2>2. StoreInv'
    BY <2>1, SameStoreInv
  <2>3. files' = files /\ opened' = opened
    BY <2>1, SameFiles DEF opened
  <2> QED BY <2>1, <2>2, <2>3 DEF Store!storeVars
<1>2. CASE Restart
  BY <1>2, RestartStore DEF StoreStep
<1>3. ASSUME NEW n \in Names, NEW size \in Sizes, Create(n, size) PROVE StoreStep
  BY <1>3, CreateStore
<1>4. ASSUME NEW n \in Names, NEW size \in Sizes, CreateFails(n, size) PROVE StoreStep
  BY <1>4, CreateFailsStore, SameStoreInv DEF CreateFails, StoreStep, Store!StoreNext
<1>5. ASSUME NEW n \in Names, OpenFails(n) PROVE StoreStep
  BY <1>5, OpenFailsStore, SameStoreInv DEF OpenFails, StoreStep, Store!StoreNext
<1>6. ASSUME NEW n \in Names, RemoveFails(n) PROVE StoreStep
  BY <1>6, RemoveFailsStore, SameStoreInv DEF RemoveFails, StoreStep, Store!StoreNext
<1>7. ASSUME NEW n \in Names, NotOpen(n), Remove(n) PROVE StoreStep
  BY <1>7, RemoveStore DEF StoreStep, Store!StoreNext
<1>8. ASSUME UNCHANGED disk, Opens' PROVE StoreInv'
  <2>1. UNCHANGED <<freeMap, directory, header>> /\ data' = data
    BY <1>8 DEF disk
  <2> QED BY <1>8, <2>1, SameSpace, SameDirectory DEF StoreInv, Written
<1>9. ASSUME NEW n \in Names, Open(n) PROVE StoreStep
  <2>1. StoreInv'
    BY <1>8, <1>9, CallOpens DEF Open
  <2>2. \E i \in Ids : Store!Open(n, i)
    BY <1>9, OpenStore
  <2> QED BY <2>1, <2>2 DEF StoreStep, Store!StoreNext
<1>10. ASSUME NEW id \in Ids, Close(id) PROVE StoreStep
  <2>1. StoreInv'
    BY <1>8, <1>10, CallOpens DEF Close
  <2>2. Store!Close(id)
    BY <1>10, CloseStore
  <2> QED BY <2>1, <2>2 DEF StoreStep, Store!StoreNext
<1>11. ASSUME NEW id \in Ids, NEW n \in Sizes, Read(id, n) PROVE StoreStep
  <2>1. Opens' /\ Store!Read(id, n) /\ UNCHANGED disk
    BY <1>11, ReadStore DEF Read
  <2>2. StoreInv'
    BY <1>8, <2>1
  <2> QED BY <2>1, <2>2 DEF StoreStep, Store!StoreNext
<1>12. ASSUME NEW id \in Ids, NEW position \in Positions, Seek(id, position) PROVE StoreStep
  <2>1. Opens' /\ Store!Seek(id, position) /\ UNCHANGED disk
    BY <1>12, SeekStore DEF Seek
  <2>2. StoreInv'
    BY <1>8, <2>1
  <2> QED BY <2>1, <2>2 DEF StoreStep, Store!StoreNext
<1>13. ASSUME NEW id \in Ids, NEW bytes \in Data, Write(id, bytes) PROVE StoreStep
  <2>1. Opens' /\ Written' /\ Store!Write(id, bytes) /\ UNCHANGED <<freeMap, directory, header>>
    BY <1>13, WriteStore DEF Write
  <2>2. StoreInv'
    BY <2>1, SameSpace, SameDirectory DEF StoreInv
  <2> QED BY <2>1, <2>2 DEF StoreStep, Store!StoreNext
<1> QED
  BY <1>1, <1>2, <1>3, <1>4, <1>5, <1>6, <1>7, <1>9, <1>10, <1>11, <1>12, <1>13 DEF Next, StoreStep

(* The file system implements FileStore: whatever the sizes, the calls and
   the sectors they fall on, a name holds what was written to it, and a
   file is refused only if it exists or does not fit.                       *)
THEOREM ImplementsStoreHolds == Spec => ImplementsStore
<1>1. Init => StoreInv /\ Store!StoreInit
  BY InitStore
<1>2. StoreInv /\ [Next]_vars =>
        StoreInv' /\ [Store!StoreNext(Sizes, Data, Positions)]_(Store!storeVars)
  BY NextStore
<1> QED BY <1>1, <1>2, PTL DEF Spec, ImplementsStore
=============================================================================
