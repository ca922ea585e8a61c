------------------------------ MODULE FileStore ------------------------------
(***************************************************************************)
(* What the Nachos file system promises: names, each with a fixed number   *)
(* of bytes, and open files with a position.  Nothing is said of sectors   *)
(* but how many of them there are.  A new file's bytes are arbitrary.      *)
(***************************************************************************)
EXTENDS Integers, Sequences, FiniteSets

CONSTANTS
    Names, Ids,
    NoFile,           \* not a sequence of bytes, and not an open file
    SectorSize,
    Capacity,         \* sectors for headers and contents
    NumDirEntries     \* files at most

VARIABLES
    files,            \* name -> its bytes, or NoFile
    opened,           \* id -> [name, position], or NoFile
    out               \* the answer to the last call; a refusal names the call

storeVars == <<files, opened, out>>

Existing == {n \in Names : files[n] # NoFile}
SectorsFor(size) == 1 + (size + SectorSize - 1) \div SectorSize
InUse == Cardinality(UNION {{n} \X (1 .. SectorsFor(Len(files[n]))) : n \in Existing})

Clip(n, position, length) ==
    IF n <= 0 \/ position >= length THEN 0
    ELSE IF position + n > length THEN length - position ELSE n

StoreInit ==
    /\ files = [n \in Names |-> NoFile]
    /\ opened = [i \in Ids |-> NoFile]
    /\ out = <<"none">>

(* A file is created whenever its name is new and there is room for it.     *)
Fits(n, size) ==
    /\ files[n] = NoFile
    /\ Cardinality(Existing) < NumDirEntries
    /\ InUse + SectorsFor(size) <= Capacity

Create(n, size) ==
    /\ Fits(n, size)
    /\ files'[n] # NoFile /\ Len(files'[n]) = size
    /\ files' = [files EXCEPT ![n] = files'[n]]
    /\ out' = <<"yes">>
    /\ UNCHANGED opened

CreateRefused(n, size) ==
    /\ ~Fits(n, size)
    /\ out' = <<"not created", n, size>>
    /\ UNCHANGED <<files, opened>>

Open(n, i) ==
    /\ files[n] # NoFile /\ opened[i] = NoFile
    /\ opened' = [opened EXCEPT ![i] = [name |-> n, position |-> 0]]
    /\ out' = <<"id", i>>
    /\ UNCHANGED files

OpenRefused(n) ==
    /\ files[n] = NoFile \/ \A i \in Ids : opened[i] # NoFile
    /\ out' = <<"not opened", n>>
    /\ UNCHANGED <<files, opened>>

Read(i, n) ==
    LET bytes == files[opened[i].name]
        at == opened[i].position
        k == Clip(n, at, Len(bytes))
    IN  /\ opened[i] # NoFile
        /\ out' = <<"bytes", SubSeq(bytes, at + 1, at + k)>>
        /\ opened' = [opened EXCEPT ![i].position = @ + k]
        /\ UNCHANGED files

Write(i, data) ==
    LET bytes == files[opened[i].name]
        at == opened[i].position
        k == Clip(Len(data), at, Len(bytes))
    IN  /\ opened[i] # NoFile
        /\ files' = [files EXCEPT ![opened[i].name] =
                        [b \in DOMAIN bytes |-> IF b \in at + 1 .. at + k THEN data[b - at] ELSE bytes[b]]]
        /\ out' = <<"written", k>>
        /\ opened' = [opened EXCEPT ![i].position = @ + k]

Seek(i, position) ==
    /\ opened[i] # NoFile
    /\ opened' = [opened EXCEPT ![i].position = position]
    /\ UNCHANGED <<files, out>>

Close(i) ==
    /\ opened[i] # NoFile
    /\ opened' = [opened EXCEPT ![i] = NoFile]
    /\ UNCHANGED <<files, out>>

Remove(n) ==
    /\ files' = [files EXCEPT ![n] = NoFile]
    /\ out' = IF files[n] = NoFile THEN <<"not removed", n>> ELSE <<"yes">>
    /\ UNCHANGED opened

(* The machine is started again: files stay, nothing is open.               *)
Restart ==
    /\ opened' = [i \in Ids |-> NoFile]
    /\ out' = <<"none">>
    /\ UNCHANGED files

StoreNext(Sizes, Data, Positions) ==
    \/ Restart
    \/ \E n \in Names : \/ \E size \in Sizes : Create(n, size) \/ CreateRefused(n, size)
                        \/ \E i \in Ids : Open(n, i)
                        \/ OpenRefused(n)
                        \/ Remove(n)
    \/ \E i \in Ids : \/ \E n \in Sizes : Read(i, n)
                      \/ \E data \in Data : Write(i, data)
                      \/ \E position \in Positions : Seek(i, position)
                      \/ Close(i)
=============================================================================
