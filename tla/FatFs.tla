-------------------------------- MODULE FatFs --------------------------------
(***************************************************************************)
(* The FAT12 file system of src/mylysos/fatfs.c: the table and the root    *)
(* directory are loaded once; an open file is a control block with the     *)
(* current cluster, the bytes read so far and a buffer of one sector.  The *)
(* buffer is filled ahead: as soon as a read reaches the end of a sector,  *)
(* the next cluster is fetched.  The thread blocks in FddReadSector, so    *)
(* each fetch is a step of its own; FloppyDriver shows that a read that    *)
(* was accepted delivers the sector.                                       *)
(*                                                                         *)
(* Byte k of sector s is <<s, k>>.  The disk is formatted outside the      *)
(* repository: what is on it is given by constants.                        *)
(***************************************************************************)
EXTENDS Integers, Sequences, FiniteSets

CONSTANTS
    BYTES_PER_SECTOR,
    Fat,            \* the entries of the table, a function on 0 .. n, n odd
    Root,           \* the root directory: a sequence of entries, some of them
                    \* erased or unused, as the first byte of the name says
    Names,          \* names a caller may give
    Handles,        \* memory for control blocks
    ReadSizes,      \* NumberOfBytesToRead
    DriverRefuses   \* whether the queue of the driver may be full

CLUSTER_OFFSET == 33 - 2    \* 0x21 - 2
NULL == ""

ASSUME DiskAssumption ==
    /\ BYTES_PER_SECTOR \in Nat \ {0}
    /\ LET n == Cardinality(DOMAIN Fat) IN n \in Nat /\ n % 2 = 0 /\ DOMAIN Fat = 0 .. (n - 1)
    /\ \A c \in DOMAIN Fat : Fat[c] \in Nat /\ Fat[c] < 4096
    /\ Root \in Seq([name : STRING, cluster : Nat, filesize : Nat, erased : BOOLEAN])
    /\ ReadSizes \subseteq Nat
    /\ NULL \notin Handles
    /\ DriverRefuses \in BOOLEAN

VARIABLES
    held,           \* the handles the caller holds
    m_FAT,          \* the bytes of the table, from FspLoadFAT
    m_DirEntry,     \* the directory, from FspLoadDirEntry
    fcb,            \* the control block of each handle that is open, or Free
    pc,             \* where the calling thread is
    cur,            \* the handle the call is about
    bytes_to_read,  \* what is left of a read
    data,           \* what was copied to pData
    answer,         \* the last call and what it returned
    unsure          \* history: of each handle, the end of the sector that was
                    \* last refused in a read

locals == <<pc, cur, bytes_to_read, data>>
disk == <<m_FAT, m_DirEntry>>
vars == <<disk, fcb, held, locals, answer, unsure>>

Free == [name |-> NULL, cluster |-> 0, filesize |-> 0, bytesread |-> 0, buffer |-> << >>]
Sector(s) == [k \in 1 .. BYTES_PER_SECTOR |-> <<s, k>>]

\* What a call returns; "refused" is history, whether the driver refused a sector
\* the call asked for.
Answer(op, h, bytes, refused) == [op |-> op, handle |-> h, data |-> bytes, refused |-> refused]

\* The table on the disk: two entries of 12 bits in three bytes.
PackedFat ==
    [i \in 0 .. ((Cardinality(DOMAIN Fat) * 3) \div 2 - 1) |->
        LET c == (i \div 3) * 2 IN
        CASE i % 3 = 0 -> Fat[c] % 256
          [] i % 3 = 1 -> Fat[c] \div 256 + (Fat[c + 1] % 16) * 16
          [] i % 3 = 2 -> Fat[c + 1] \div 16]

\* The entry of a cluster: the upper 12 of two bytes for an odd one, the lower
\* 12 for an even one.
FspGetNextCluster(c) ==
    LET first == (c \div 2) * 3 + (c % 2)
        word == m_FAT[first] + 256 * m_FAT[first + 1]
    IN IF c % 2 = 1 THEN word \div 16 ELSE word % 4096

IsData(cluster) == cluster >= 2 /\ cluster <= 4079    \* 0xfef

----------------------------------------------------------------------------
(* FsInitializeModule.  FddReadSector refuses a job at once, or comes back *)
(* with the data.  A refusal here ends the thread of the shell.            *)

FspLoadFAT ==
    /\ pc = "load_fat"
    /\ m_FAT' = PackedFat
    /\ pc' = "load_dir"
    /\ UNCHANGED <<m_DirEntry, fcb, held, cur, bytes_to_read, data, answer, unsure>>

FspLoadDirEntry ==
    /\ pc = "load_dir"
    /\ m_DirEntry' = Root
    /\ pc' = "idle"
    /\ UNCHANGED <<m_FAT, fcb, held, cur, bytes_to_read, data, answer, unsure>>

LoadIsRefused ==
    /\ DriverRefuses
    /\ pc \in {"load_fat", "load_dir"}
    /\ pc' = "failed"
    /\ UNCHANGED <<disk, fcb, held, cur, bytes_to_read, data, answer, unsure>>

----------------------------------------------------------------------------
(* FsGetFileList and FsOpenFile.                                           *)

\* The places of the entries the list passes to its callback, in this order.
FsGetFileList == {i \in 1 .. Len(m_DirEntry) : ~m_DirEntry[i].erased}

\* Fsp_of_callback ends the list at the first entry of the name.
Found(name) ==
    {m_DirEntry[i] : i \in {j \in FsGetFileList :
        /\ m_DirEntry[j].name = name
        /\ \A k \in FsGetFileList : k < j => m_DirEntry[k].name # name}}

\* No name, no memory, or no such file: the block of the last is freed again.
OpenFails(name) ==
    /\ pc = "idle"
    /\ name = NULL \/ Found(name) = {} \/ \A h \in Handles : fcb[h] # Free
    /\ answer' = Answer("open", NULL, << >>, FALSE)
    /\ UNCHANGED <<disk, fcb, held, locals, unsure>>

FsOpenFile(name) ==
    /\ pc = "idle"
    /\ name # NULL
    /\ \E h \in Handles, e \in Found(name) :
         /\ fcb[h] = Free
         /\ fcb' = [fcb EXCEPT ![h] = [name |-> name, cluster |-> e.cluster, filesize |-> e.filesize,
                                       bytesread |-> 0, buffer |-> << >>]]
         /\ cur' = h
    /\ pc' = "open"
    /\ UNCHANGED <<disk, held, bytes_to_read, data, answer, unsure>>

\* The sector of the current cluster, as FddReadSector delivers it.
Filled(h) == [fcb EXCEPT ![h].buffer = Sector(fcb[h].cluster + CLUSTER_OFFSET)]

FirstSectorComes ==
    /\ pc = "open"
    /\ fcb' = Filled(cur)
    /\ held' = held \cup {cur}
    /\ answer' = Answer("open", cur, << >>, FALSE)
    /\ unsure' = [unsure EXCEPT ![cur] = 0]
    /\ pc' = "idle"
    /\ UNCHANGED <<disk, cur, bytes_to_read, data>>

\* Mutated form: the block is not closed when the read is refused.
AfterRefusedOpen_Kept == fcb

AfterRefusedOpen == [fcb EXCEPT ![cur] = Free]

FirstSectorRefused ==
    /\ DriverRefuses
    /\ pc = "open"
    /\ fcb' = AfterRefusedOpen
    /\ answer' = Answer("open", NULL, << >>, TRUE)
    /\ pc' = "idle"
    /\ UNCHANGED <<disk, held, cur, bytes_to_read, data, unsure>>

----------------------------------------------------------------------------
(* FsReadFile.                                                             *)

\* What a read of n bytes will read.
BytesToRead(h, n) ==
    IF fcb[h].bytesread + n < fcb[h].filesize THEN n ELSE fcb[h].filesize - fcb[h].bytesread

\* A read of no bytes, or of a file that is at its end, gives nothing.
FsReadFile(h, n) ==
    /\ pc = "idle"
    /\ h \in held
    /\ IF n = 0 \/ fcb[h].filesize <= fcb[h].bytesread
       THEN /\ answer' = Answer("read", h, << >>, FALSE)
            /\ UNCHANGED locals
       ELSE /\ bytes_to_read' = BytesToRead(h, n)
            /\ data' = << >>
            /\ cur' = h
            /\ pc' = "copy"
            /\ UNCHANGED answer
    /\ UNCHANGED <<disk, fcb, held, unsure>>

\* The call returns the bytes, or goes on at another step.
ReturnOr(goes_on, where, bytes) ==
    IF goes_on
    THEN pc' = where /\ data' = bytes /\ UNCHANGED answer
    ELSE pc' = "idle" /\ data' = << >> /\ answer' = Answer("read", cur, bytes, FALSE)

\* Mutated form: the position in the buffer is not taken modulo its length.
PosOfBuffer_Zero(h) == 0

PosOfBuffer(h) == fcb[h].bytesread % BYTES_PER_SECTOR

\* Mutated form: nothing is fetched when the read has all it asked for.
FetchesAhead_WhenWanted(end, cluster) ==
    end % BYTES_PER_SECTOR = 0 /\ IsData(cluster) /\ end < fcb[cur].bytesread + bytes_to_read

\* At the end of a sector the loop fetches the next, wanted or not; a chain that
\* ends stops it.
FetchesAhead(end, cluster) == end % BYTES_PER_SECTOR = 0 /\ IsData(cluster)

\* A round of the loop: copy what the buffer has; at the end of the sector go
\* to the next cluster, and stop if the chain ends.
CopyBytes ==
    LET pos == PosOfBuffer(cur)
        left == BYTES_PER_SECTOR - pos
        n == IF left > bytes_to_read THEN bytes_to_read ELSE left
        end == fcb[cur].bytesread + n
        at_end == end % BYTES_PER_SECTOR = 0
        cluster == IF at_end THEN FspGetNextCluster(fcb[cur].cluster) ELSE fcb[cur].cluster
    IN /\ pc = "copy"
       /\ fcb' = [fcb EXCEPT ![cur].bytesread = end, ![cur].cluster = cluster]
       /\ bytes_to_read' = bytes_to_read - n
       /\ ReturnOr(FetchesAhead(end, cluster), "fetch", data \o SubSeq(fcb[cur].buffer, pos + 1, pos + n))
       /\ UNCHANGED <<disk, held, cur, unsure>>

NextSectorComes ==
    /\ pc = "fetch"
    /\ fcb' = Filled(cur)
    /\ ReturnOr(bytes_to_read # 0, "copy", data)
    /\ UNCHANGED <<disk, held, cur, bytes_to_read, unsure>>

\* The loop stops; the buffer still holds the sector before, and will until the
\* position has passed the one that was refused.
NextSectorRefused ==
    /\ DriverRefuses
    /\ pc = "fetch"
    /\ pc' = "idle" /\ data' = << >> /\ answer' = Answer("read", cur, data, TRUE)
    /\ unsure' = [unsure EXCEPT ![cur] = fcb[cur].bytesread + BYTES_PER_SECTOR]
    /\ UNCHANGED <<disk, fcb, held, cur, bytes_to_read>>

FsCloseFile(h) ==
    /\ pc = "idle"
    /\ h \in held
    /\ fcb' = [fcb EXCEPT ![h] = Free]
    /\ held' = held \ {h}
    /\ answer' = Answer("close", h, << >>, FALSE)
    /\ UNCHANGED <<disk, locals, unsure>>

Init ==
    /\ m_FAT = [i \in DOMAIN PackedFat |-> 0]
    /\ m_DirEntry = << >>
    /\ fcb = [h \in Handles |-> Free]
    /\ held = {}
    /\ pc = "load_fat" /\ cur = NULL /\ bytes_to_read = 0 /\ data = << >>
    /\ answer = Answer("none", NULL, << >>, FALSE)
    /\ unsure = [h \in Handles |-> 0]

Next ==
    \/ FspLoadFAT \/ FspLoadDirEntry \/ LoadIsRefused
    \/ \E name \in Names : FsOpenFile(name) \/ OpenFails(name)
    \/ FirstSectorComes \/ FirstSectorRefused
    \/ \E h \in Handles : FsCloseFile(h) \/ \E n \in ReadSizes : FsReadFile(h, n)
    \/ CopyBytes \/ NextSectorComes \/ NextSectorRefused

Spec == Init /\ [][Next]_vars

----------------------------------------------------------------------------
(* The files, as the formatter of the disk sees them.                      *)

Files == {i \in 1 .. Len(Root) : ~Root[i].erased}
Exists(name) == name # NULL /\ \E i \in Files : Root[i].name = name
EntryOf(name) ==
    Root[CHOOSE i \in Files : Root[i].name = name /\ \A j \in Files : Root[j].name = name => i <= j]

\* The k-th cluster of a file, from 0.
ClusterAt(name, k) ==
    LET chain[j \in 0 .. k] == IF j = 0 THEN EntryOf(name).cluster ELSE Fat[chain[j - 1]]
    IN chain[k]

Content(name) ==
    [i \in 1 .. EntryOf(name).filesize |->
        Sector(ClusterAt(name, (i - 1) \div BYTES_PER_SECTOR) + CLUSTER_OFFSET)
            [((i - 1) % BYTES_PER_SECTOR) + 1]]

\* Every chain is as long as its file, and ends there.
ASSUME ChainsAssumption ==
    \A name \in Names : Exists(name) /\ EntryOf(name).filesize > 0 =>
        LET last == (EntryOf(name).filesize - 1) \div BYTES_PER_SECTOR IN
        /\ \A k \in 0 .. last : IsData(ClusterAt(name, k)) /\ ClusterAt(name, k) \in DOMAIN Fat
        /\ Fat[ClusterAt(name, last)] >= 4088
----------------------------------------------------------------------------
(* Properties.                                                             *)

\* Every variable has its type, and no position passes the end of its file.
TypeOK ==
    /\ held \subseteq Handles
    /\ \A i \in DOMAIN m_FAT : m_FAT[i] \in 0 .. 255
    /\ m_DirEntry \in {<< >>, Root}
    /\ \A h \in Handles : fcb[h] = Free \/ fcb[h].bytesread \in 0 .. fcb[h].filesize
    /\ pc \in {"load_fat", "load_dir", "failed", "idle", "open", "copy", "fetch"}
    /\ cur \in Handles \cup {NULL}
    /\ bytes_to_read \in Nat

\* The types are right, and memory in use by the file system is that of the
\* handles its callers hold, and of the one being opened: an open that fails half
\* way leaves nothing.
BlocksAreHeld ==
    /\ TypeOK
    /\ {h \in Handles : fcb[h] # Free} = held \cup (IF pc = "open" THEN {cur} ELSE {})

InCall(h) == pc \in {"copy", "fetch"} /\ h = cur
Position(h) == fcb[h].bytesread - (IF InCall(h) THEN Len(data) ELSE 0)

Abstract == INSTANCE SequentialFiles WITH
    BlockSize <- BYTES_PER_SECTOR,
    MayRefuse <- DriverRefuses,
    opened <- [h \in Handles |->
        IF h \in held THEN [name |-> fcb[h].name, pos |-> Position(h), until |-> unsure[h]]
        ELSE [name |-> NULL, pos |-> 0, until |-> 0]],
    answer <- answer

\* The file system implements sequential files: any sequence of reads of any
\* sizes, of several open files in any order, gives each file's bytes in order,
\* each once, to its end, across every sector and cluster boundary.  Only a call
\* in which the driver refused a sector stops early; what it costs is the bytes of
\* that one sector, for that one handle until it is opened again.
FilesSpec == Abstract!Spec
=============================================================================
