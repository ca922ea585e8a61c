------------------------------ MODULE FileSystem -----------------------------
(***************************************************************************)
(* The Nachos file system (filesys/filesys.cc, filehdr.cc, directory.cc,   *)
(* openfile.cc) with the bitmap it allocates from (userprog/bitmap.cc) and *)
(* the calls of a user program on it (Open, Read, Write, Close in          *)
(* userprog/exception.cc, with the file table of userprog/addrspace.cc).   *)
(*                                                                         *)
(* The file system "assumes there is no concurrent access": a call is one  *)
(* action.  The bitmap and the directory are files whose contents are read *)
(* before and written after every change; they are kept here decoded.      *)
(***************************************************************************)
EXTENDS Integers, Sequences, FiniteSets

CONSTANTS
    Names,            \* file names, distinct in their first FileNameMaxLen characters
    NoFile,
    Bytes,            \* bytes that programs write
    Junk,             \* a byte of memory or disk nobody has written
    NumSectors, SectorSize,
    NumDirEntries,
    MapSectors, DirSectors,   \* sectors for the contents of the bitmap and the directory
    MaxOpenFiles,     \* size of the file table, with the two console entries
    Sizes, Data, Positions   \* bound: sizes, strings written, seeks of the callers

FreeMapSector == 0
DirectorySector == 1
Sectors == 0 .. NumSectors - 1
MapData == 2 .. 1 + MapSectors
DirData == 2 + MapSectors .. 1 + MapSectors + DirSectors
Reserved == {FreeMapSector, DirectorySector} \cup MapData \cup DirData
Ids == 2 .. MaxOpenFiles - 1
Entries == 0 .. NumDirEntries - 1

Headers == [numBytes : Nat, dataSectors : Seq(Sectors)]

ASSUME FileAssumption ==
    /\ {NumSectors, SectorSize, NumDirEntries, MaxOpenFiles} \subseteq Nat \ {0}
    /\ {MapSectors, DirSectors} \subseteq Nat \ {0} /\ NumSectors >= 2 + MapSectors + DirSectors
    /\ Junk \notin Bytes
    /\ Sizes \subseteq Nat /\ Data \subseteq Seq(Bytes) /\ Positions \subseteq Nat
    /\ NoFile \notin Seq(Bytes \cup {Junk})
    /\ NoFile \notin [name : Names, sector : Sectors]
    /\ NoFile \notin [name : Names, position : Nat]
    /\ NoFile \notin [hdr : Headers, seekPosition : Nat, name : Names]

VARIABLES
    freeMap,      \* sectors marked in the bitmap file
    directory,    \* the table in the directory file: [name, sector] or NoFile
    header,       \* file headers on disk: sector -> [numBytes, dataSectors] or NoFile
    data,         \* what a sector holds as data: offset -> byte
    fileTable,    \* open files: id -> [hdr, seekPosition, name] or NoFile
    out           \* the answer to the last call; a refusal names the call

disk == <<freeMap, directory, header, data>>
vars == <<disk, fileTable, out>>

divRoundUp(n, s) == (n \div s) + (IF n % s > 0 THEN 1 ELSE 0)

-----------------------------------------------------------------------------
(* BitMap::Find, k times: the clear bits from the lowest.                   *)
NumClear(map) == Cardinality(Sectors \ map)
Find(map) == CHOOSE s \in Sectors \ map : \A r \in Sectors \ map : s <= r
FindAll(map, k) ==
    [i \in 1 .. k |-> CHOOSE s \in Sectors \ map :
                         Cardinality({r \in Sectors \ map : r < s}) = i - 1]

Blocks(hdr) == {hdr.dataSectors[i] : i \in DOMAIN hdr.dataSectors}

(* FileHeader::Allocate; the header has room for all files of size Sizes.   *)
Allocate(map, size) ==
    [numBytes |-> size, dataSectors |-> FindAll(map, divRoundUp(size, SectorSize))]

(* Directory::FindIndex and Find                                            *)
FindIndex(n) == {i \in Entries : directory[i] # NoFile /\ directory[i].name = n}
SectorOf(n) == directory[CHOOSE i \in FindIndex(n) : TRUE].sector
Unused == {i \in Entries : directory[i] = NoFile}

-----------------------------------------------------------------------------
(* FileSystem::FileSystem with format.  The disk holds junk.                *)
Init ==
    /\ freeMap = Reserved
    /\ directory = [i \in Entries |-> NoFile]
    /\ header = [s \in Sectors |-> NoFile]
    /\ data = [s \in Sectors |-> [k \in 0 .. SectorSize - 1 |-> Junk]]
    /\ fileTable = [i \in Ids |-> NoFile]
    /\ out = <<"none">>

(* Started again without format: the two files are opened as they are.      *)
Restart ==
    /\ fileTable' = [i \in Ids |-> NoFile]
    /\ out' = <<"none">>
    /\ UNCHANGED disk

-----------------------------------------------------------------------------
(* FileSystem::Create.  On a failure the changed bitmap and directory are
   thrown away.                                                             *)

CanCreate(n, size) ==
    /\ FindIndex(n) = {}
    /\ NumClear(freeMap) > 0
    /\ Unused # {}
    /\ NumClear(freeMap \cup {Find(freeMap)}) >= divRoundUp(size, SectorSize)

Create(n, size) ==
    LET sector == Find(freeMap)
        map == freeMap \cup {sector}
        hdr == Allocate(map, size)
        i == CHOOSE i \in Unused : \A j \in Unused : i <= j
    IN  /\ CanCreate(n, size)
        /\ header' = [header EXCEPT ![sector] = hdr]
        /\ directory' = [directory EXCEPT ![i] = [name |-> n, sector |-> sector]]
        /\ freeMap' = map \cup Blocks(hdr)
        /\ out' = <<"yes">>
        /\ UNCHANGED <<data, fileTable>>

CreateFails(n, size) ==
    /\ ~CanCreate(n, size)
    /\ out' = <<"not created", n, size>>
    /\ UNCHANGED <<disk, fileTable>>

-----------------------------------------------------------------------------
(* The file table (Table of userprog/addrspace.cc).  Only the process that
   owns it uses it.                                                         *)

Get(i) == fileTable[i]
FreeIds == {i \in Ids : Get(i) = NoFile}
Put(f) ==
    LET i == CHOOSE i \in FreeIds : \A j \in FreeIds : i <= j
    IN  /\ FreeIds # {}
        /\ fileTable' = [fileTable EXCEPT ![i] = f]
        /\ out' = <<"id", i>>
Dropped(i) == fileTable' = [fileTable EXCEPT ![i] = NoFile]

(* OpenFile::OpenFile: the header is copied from the disk.                  *)
NewOpenFile(n) == [hdr |-> header[SectorOf(n)], seekPosition |-> 0, name |-> n]

(* Open_Syscall and FileSystem::Open                                        *)
Open(n) ==
    /\ FindIndex(n) # {}
    /\ Put(NewOpenFile(n))
    /\ UNCHANGED disk

OpenFails(n) ==
    /\ FindIndex(n) = {} \/ FreeIds = {}
    /\ out' = <<"not opened", n>>
    /\ UNCHANGED <<disk, fileTable>>

(* Close_Syscall and ~OpenFile                                              *)
Close(i) ==
    /\ Get(i) # NoFile
    /\ Dropped(i)
    /\ UNCHANGED <<disk, out>>

-----------------------------------------------------------------------------
(* OpenFile::ReadAt and WriteAt                                             *)

ByteToSector(hdr, offset) == hdr.dataSectors[1 + offset \div SectorSize]

(* The bytes transferred of n from position on.                             *)
NumBytes(hdr, n, position) ==
    IF n <= 0 \/ position >= hdr.numBytes THEN 0
    ELSE IF position + n > hdr.numBytes THEN hdr.numBytes - position ELSE n

ReadAt(hdr, n, position) ==
    [b \in 1 .. NumBytes(hdr, n, position) |->
        data[ByteToSector(hdr, position + b - 1)][(position + b - 1) % SectorSize]]

firstSector(position) == position \div SectorSize
lastSector(n, position) == (position + n - 1) \div SectorSize

(* Deviation: only the first sector is read before it is written.           *)
ReadFirst(n, position, i) ==
    i = firstSector(position) /\ position # i * SectorSize

(* Sectors of the file that are read because they are written in part.      *)
ReadBack(n, position, i) ==
    LET firstAligned == position = firstSector(position) * SectorSize
        lastAligned == position + n = (lastSector(n, position) + 1) * SectorSize
    IN  \/ i = firstSector(position) /\ ~firstAligned
        \/ /\ i = lastSector(n, position) /\ ~lastAligned
           /\ firstSector(position) # lastSector(n, position) \/ firstAligned

(* Sector i of the buffer: new bytes, bytes read back, and memory as it was
   in the part past the end of the file.                                    *)
Buffer(hdr, bytes, n, position, i) ==
    [k \in 0 .. SectorSize - 1 |->
        LET b == i * SectorSize + k
        IN  IF b \in position .. position + n - 1 THEN bytes[b - position + 1]
            ELSE IF ReadBack(n, position, i) /\ b < hdr.numBytes
                 THEN data[ByteToSector(hdr, b)][k]
                 ELSE Junk]

WriteAt(hdr, bytes, position) ==
    LET n == NumBytes(hdr, Len(bytes), position)
        touched == IF n = 0 THEN {} ELSE firstSector(position) .. lastSector(n, position)
    IN  data' = [s \in Sectors |->
                   IF \E i \in touched : s = ByteToSector(hdr, i * SectorSize)
                   THEN Buffer(hdr, bytes, n, position,
                               CHOOSE i \in touched : s = ByteToSector(hdr, i * SectorSize))
                   ELSE data[s]]

(* OpenFile::Read and Write go on where the last one ended.                 *)
Moved(id, n) == fileTable' = [fileTable EXCEPT ![id].seekPosition = @ + n]

(* Read_Syscall                                                             *)
Read(id, n) ==
    LET f == Get(id)
    IN  /\ f # NoFile
        /\ out' = <<"bytes", ReadAt(f.hdr, n, f.seekPosition)>>
        /\ Moved(id, Len(out'[2]))
        /\ UNCHANGED disk

(* Write_Syscall                                                            *)
Write(id, bytes) ==
    LET f == Get(id)
    IN  /\ f # NoFile
        /\ WriteAt(f.hdr, bytes, f.seekPosition)
        /\ out' = <<"written", NumBytes(f.hdr, Len(bytes), f.seekPosition)>>
        /\ Moved(id, out'[2])
        /\ UNCHANGED <<freeMap, directory, header>>

Seek(id, position) ==
    /\ fileTable[id] # NoFile
    /\ fileTable' = [fileTable EXCEPT ![id].seekPosition = position]
    /\ UNCHANGED <<disk, out>>

-----------------------------------------------------------------------------
(* FileSystem::Remove.  The header stays in its sector, but is not found any
   more: it is dropped here.                                                *)

(* Deviation: the header's own sector stays marked.                         *)
RemoveKeepsHeader(n) ==
    /\ FindIndex(n) # {}
    /\ freeMap' = freeMap \ Blocks(header[SectorOf(n)])
    /\ directory' = [i \in Entries |-> IF i \in FindIndex(n) THEN NoFile ELSE directory[i]]
    /\ header' = [header EXCEPT ![SectorOf(n)] = NoFile]
    /\ out' = <<"yes">>
    /\ UNCHANGED <<data, fileTable>>

Remove(n) ==
    /\ FindIndex(n) # {}
    /\ freeMap' = freeMap \ (Blocks(header[SectorOf(n)]) \cup {SectorOf(n)})
    /\ directory' = [i \in Entries |-> IF i \in FindIndex(n) THEN NoFile ELSE directory[i]]
    /\ header' = [header EXCEPT ![SectorOf(n)] = NoFile]
    /\ out' = <<"yes">>
    /\ UNCHANGED <<data, fileTable>>

RemoveFails(n) ==
    /\ FindIndex(n) = {}
    /\ out' = <<"not removed", n>>
    /\ UNCHANGED <<disk, fileTable>>

(* Assumed of the callers: a file is closed before it is removed.  An open
   file keeps its copy of the header, and with it the sectors.              *)
NotOpen(n) == \A i \in Ids : fileTable[i] # NoFile => fileTable[i].name # n

-----------------------------------------------------------------------------
Next ==
    \/ Restart
    \/ \E n \in Names :
         \/ \E size \in Sizes : Create(n, size) \/ CreateFails(n, size)
         \/ Open(n) \/ OpenFails(n)
         \/ NotOpen(n) /\ (Remove(n) \/ RemoveFails(n))
    \/ \E id \in Ids :
         \/ \E n \in Sizes : Read(id, n)
         \/ \E bytes \in Data : Write(id, bytes)
         \/ \E position \in Positions : Seek(id, position)
         \/ Close(id)

Spec == Init /\ [][Next]_vars

-----------------------------------------------------------------------------
(* Properties                                                               *)

Files == {i \in Entries : directory[i] # NoFile}
Owned(i) == {directory[i].sector} \cup Blocks(header[directory[i].sector])

(* The bitmap marks the sectors of the files in the directory and of the
   file system's own two, and no other; no sector belongs to two files, and
   no name is there twice.  Deallocate finds all its sectors marked.        *)
SpaceExact ==
    /\ freeMap = Reserved \cup UNION {Owned(i) : i \in Files}
    /\ \A i \in Files : /\ Owned(i) \cap Reserved = {}
                        /\ Cardinality(Owned(i)) =
                             1 + divRoundUp(header[directory[i].sector].numBytes, SectorSize)
    /\ \A i, j \in Files : i # j => /\ Owned(i) \cap Owned(j) = {}
                                    /\ directory[i].name # directory[j].name

(* The file system implements FileStore: a name holds the bytes written to
   it at the places they were written to, whatever sectors these fell on and
   whatever was done to other files, across restarts; a file is refused only
   if it exists or does not fit, so that no sector is ever lost.            *)
Contents(n) ==
    IF FindIndex(n) = {} THEN NoFile
    ELSE LET hdr == header[SectorOf(n)] IN ReadAt(hdr, hdr.numBytes, 0)
files == [n \in Names |-> Contents(n)]
opened == [i \in Ids |-> IF fileTable[i] = NoFile THEN NoFile
                         ELSE [name |-> fileTable[i].name, position |-> fileTable[i].seekPosition]]
Capacity == NumSectors - Cardinality(Reserved)
Store == INSTANCE FileStore
ImplementsStore ==
    Store!StoreInit /\ [][Store!StoreNext(Sizes, Data, Positions)]_(Store!storeVars)
=============================================================================
