------------------------------ MODULE FatTable ------------------------------
(***************************************************************************)
(* The file allocation tables of a mounted volume, byte by byte:           *)
(* read_fat_entry, write_fat_entry, the packing of 12, 16 and 28 bit       *)
(* entries, the copies of the FAT, the FSInfo sector, and the blocks that  *)
(* write_device_at writes one at a time.                                   *)
(*                                                                         *)
(* The Geometry module mounts the volume; FatChains builds on the entries, *)
(* as FatCells describes them.                                             *)
(***************************************************************************)
EXTENDS Geometry, Sequences

CONSTANTS
  BlockSize,     \* of the device, in bytes
  Bad, EocMin,   \* FAT type -> the bad marker, the least end marker
  Mask,          \* FAT type -> the greatest value of an entry
  Written,       \* bound: boot sectors of the volumes that are written to
  WrittenClusters,  \* bound: clusters whose entries are written
  WrittenLinks,     \* bound: clusters that the entries lead to
  MaxFaults      \* bound on device errors and power cuts

ASSUME FatTableAssumption ==
  /\ BlockSize \in Nat \ {0}
  /\ Mask = [Fat12 |-> 4095, Fat16 |-> 65535, Fat32 |-> 268435455]
  /\ Bad \in [FatTypes -> Nat] /\ EocMin \in [FatTypes -> Nat]
  /\ \A t \in FatTypes :
       /\ 2 < FirstReserved[t] /\ FirstReserved[t] <= Bad[t]
       /\ Bad[t] < EocMin[t] /\ EocMin[t] <= Mask[t]
  /\ Written \subseteq BootSectors
  /\ \A s \in Written : Accepts(s) /\ IsSound(Parse(s))
  /\ MaxFaults \in Nat

VARIABLES
  fat,      \* copy -> offset -> byte, on the device
  hint,     \* the free counts of FSInfo: "counted" (by another program) or "unknown"
  pc,       \* where write_fat_entry is
  write,    \* its cluster, value and copy, and the bytes it still has to write
  faults,   \* device errors and power cuts so far
  stored,   \* history: cluster -> the entry that was last written completely
  cut       \* history: clusters whose last write was interrupted

tableVars == <<fat, hint, pc, write, faults, stored, cut>>
fatVars == <<sector, volume, fat, hint, pc, write, faults, stored, cut>>

NoWrite == [cluster |-> 0, value |-> [kind |-> "free"], copy |-> 0, at |-> 0, bytes |-> <<>>]

-----------------------------------------------------------------------------
(* FatEntry and its codec.                                                 *)
Free == [kind |-> "free"]
Data(c) == [kind |-> "data", next |-> c]
BadCluster == [kind |-> "bad"]
EndOfChain == [kind |-> "end"]
Reserved(x) == [kind |-> "reserved", raw |-> x]

Pair(b) == b[1] + 256 * b[2]

(* The value of cluster c's entry in the bytes that contain it.            *)
Value12(c, b) == IF c % 2 = 0 THEN Pair(b) % 4096 ELSE Pair(b) \div 16
Value32(b) == b[1] + 256 * b[2] + 65536 * b[3] + 16777216 * (b[4] % 16)
Value(type, c, b) ==
  CASE type = "Fat12" -> Value12(c, b)
    [] type = "Fat16" -> Pair(b)
    [] type = "Fat32" -> Value32(b)

ParseEntry(type, c, b) ==
  LET x == Value(type, c, b)
  IN  CASE x = 0 -> Free
        [] x \in 2 .. FirstReserved[type] - 1 -> Data(x)
        [] x = Bad[type] -> BadCluster
        [] x >= EocMin[type] -> EndOfChain
        [] OTHER -> Reserved(x)

Raw(type, e) ==
  CASE e.kind = "free" -> 0
    [] e.kind = "data" -> e.next
    [] e.kind = "bad" -> Bad[type]
    [] e.kind = "end" -> Mask[type]
    [] e.kind = "reserved" -> e.raw

Bytes2(x) == <<x % 256, x \div 256>>

(* Mutant: the nibble of the adjacent entry is not kept.                   *)
Merge12_Overwrite(c, x, b) == Bytes2(IF c % 2 = 0 THEN x ELSE 16 * x)

(* FatEntry::serialize_into keeps the nibble of the adjacent FAT12 entry   *)
(* and the high nibble of a FAT32 entry.                                   *)
Merge12(c, x, b) ==
  Bytes2(IF c % 2 = 0 THEN (Pair(b) \div 4096) * 4096 + x ELSE (Pair(b) % 16) + 16 * x)
Merge32(x, b) ==
  <<x % 256, (x \div 256) % 256, (x \div 65536) % 256, (b[4] \div 16) * 16 + x \div 16777216>>
Merge(type, c, x, b) ==
  CASE type = "Fat12" -> Merge12(c, x, b)
    [] type = "Fat16" -> Bytes2(x)
    [] type = "Fat32" -> Merge32(x, b)

-----------------------------------------------------------------------------
(* The bytes of an entry in one copy, and the entry.                       *)
EntryAt(v, k, c) ==
  [i \in 1 .. EntryBytes(v.type) |-> fat[k][EntryOffset(v.type, c) + i - 1]]
FatEntryAt(v, k, c) == ParseEntry(v.type, c, EntryAt(v, k, c))

(* read_fat_entry                                                          *)
ReadFatEntry(c) == FatEntryAt(volume, ActiveFat(volume), c)

(* Mutant: the copies are taken from the active FAT on.                    *)
LastFat_Active(v) == ActiveFat(v)

(* Mutant: the last copy's number is their count.                          *)
LastFat_Count(v) == IF Mirroring(v) THEN v.bpb.fatCount ELSE ActiveFat(v)

(* The copies that write_fat_entry goes through: the first to the last of  *)
(* them, or the active one.                                                *)
LastFat(v) == IF Mirroring(v) THEN v.bpb.fatCount - 1 ELSE ActiveFat(v)
Targets(v) == ActiveFat(v) .. LastFat(v)

HasFsInfo(v) ==
  v.type = "Fat32" /\ v.bpb.fsInfo \notin {0, U16Max} /\ v.bpb.fsInfo < v.bpb.reserved

(* write_device_at: the part of the bytes that lies in the first block.    *)
Address(v, k, offset) == FatStart(v, k) * v.bpb.bytesPerSector + offset
InBlock(address, count) ==
  LET room == BlockSize - (address % BlockSize) IN IF room < count THEN room ELSE count

-----------------------------------------------------------------------------
(* serialize_into fails, before anything is written, on any other entry.   *)
Storable(type, e) ==
  \/ e.kind \in {"free", "bad", "end"}
  \/ e.kind = "data" /\ e.next \in 2 .. FirstReserved[type] - 1
  \/ e.kind = "reserved" /\ e.raw \in 0 .. Mask[type]

WriteFatEntry(c, e) ==
  /\ pc = "idle" /\ volume.type \in FatTypes /\ fat # <<>>
  /\ c \in WrittenClusters \cap (2 .. MaxCluster(volume)) /\ Storable(volume.type, e)
  /\ write' = [NoWrite EXCEPT !.cluster = c, !.value = e, !.copy = ActiveFat(volume)]
  /\ pc' = "read"
  /\ UNCHANGED <<sector, volume, fat, hint, faults, stored, cut>>

(* write_one_fat_entry reads the bytes of the entry, serialises into them, *)
(* ...                                                                     *)
ReadModify ==
  /\ pc = "read"
  /\ write' = [write EXCEPT
       !.at = EntryOffset(volume.type, write.cluster),
       !.bytes = Merge(volume.type, write.cluster, Raw(volume.type, write.value),
                       EntryAt(volume, write.copy, write.cluster))]
  /\ pc' = "write"
  /\ UNCHANGED <<sector, volume, fat, hint, faults, stored, cut>>

(* ... and writes them, block by block, before the next copy's turn.       *)
WriteBlock ==
  /\ pc = "write"
  /\ LET n == InBlock(Address(volume, write.copy, write.at), Len(write.bytes))
         rest == SubSeq(write.bytes, n + 1, Len(write.bytes))
     IN  /\ fat' = [fat EXCEPT ![write.copy] =
                      [i \in DOMAIN @ |-> IF i \in write.at .. write.at + n - 1
                                          THEN write.bytes[i - write.at + 1] ELSE @[i]]]
         /\ IF rest # <<>>
              THEN write' = [write EXCEPT !.at = @ + n, !.bytes = rest] /\ pc' = pc
              ELSE IF write.copy < LastFat(volume)
              THEN write' = [write EXCEPT !.at = 0, !.bytes = <<>>, !.copy = @ + 1] /\ pc' = "read"
              ELSE write' = [write EXCEPT !.at = 0, !.bytes = <<>>] /\ pc' = "info"
  /\ UNCHANGED <<sector, volume, hint, faults, stored, cut>>

(* invalidate_fs_info                                                      *)
InvalidateFsInfo ==
  /\ pc = "info"
  /\ hint' = IF HasFsInfo(volume) THEN "unknown" ELSE hint
  /\ pc' = "idle" /\ write' = NoWrite
  /\ stored' = [stored EXCEPT ![write.cluster] = write.value]
  /\ cut' = cut \ {write.cluster}
  /\ UNCHANGED <<sector, volume, fat, faults>>

(* A device error, a power cut or a dropped future: nothing is undone.     *)
Interrupt ==
  /\ pc # "idle" /\ faults < MaxFaults
  /\ faults' = faults + 1
  /\ cut' = cut \cup {write.cluster}
  /\ pc' = "idle" /\ write' = NoWrite
  /\ UNCHANGED <<sector, volume, fat, hint, stored>>

-----------------------------------------------------------------------------
(* The volume that the boot sector describes.                              *)
Disk == FromBpb(Parse(sector))

(* A FAT as a formatting program leaves it: all clusters are free, and the *)
(* entries 0 and 1 and the high nibbles of FAT32 entries are in use.       *)
Formatted(v) ==
  [k \in 0 .. v.bpb.fatCount - 1 |->
     [i \in 0 .. FatSectors(v.bpb) * v.bpb.bytesPerSector - 1 |->
        IF v.type = "Fat32" /\ i % 4 = 3 THEN 160
        ELSE IF i < EntryOffset(v.type, 2) THEN 255 ELSE 0]]

FatInit ==
  /\ Init
  /\ fat = IF sector \in Written THEN Formatted(Disk) ELSE <<>>
  /\ hint = "counted"
  /\ pc = "idle" /\ write = NoWrite
  /\ faults = 0
  /\ stored = [c \in WrittenClusters |-> Free] /\ cut = {}

MountVolume == pc = "idle" /\ Mount /\ UNCHANGED tableVars
RewriteSector == pc = "idle" /\ Rewrite /\ UNCHANGED tableVars

Entries == {Free, EndOfChain} \cup {Data(c) : c \in WrittenLinks}

FatNext ==
  \/ MountVolume \/ RewriteSector
  \/ \E c \in WrittenClusters, e \in Entries : WriteFatEntry(c, e)
  \/ ReadModify \/ WriteBlock \/ InvalidateFsInfo \/ Interrupt

FatSpec == FatInit /\ [][FatNext]_fatVars

-----------------------------------------------------------------------------
TableTypeOK ==
  /\ \A k \in DOMAIN fat : \A i \in DOMAIN fat[k] : fat[k][i] \in 0 .. 255
  /\ hint \in {"counted", "unknown"}
  /\ pc \in {"idle", "read", "write", "info"}
  /\ pc # "idle" => write.cluster \in ClusterNumbers /\ write.copy \in DOMAIN fat
  /\ pc = "write" <=> write.bytes # <<>>
  /\ \A i \in 1 .. Len(write.bytes) :
       write.bytes[i] \in 0 .. 255 /\ write.at + i - 1 \in DOMAIN fat[write.copy]
  /\ faults \in 0 .. MaxFaults

(* The half bytes of a copy, and those that an entry consists of.          *)
Nibble(k, j) == IF j % 2 = 0 THEN fat[k][j \div 2] % 16 ELSE fat[k][j \div 2] \div 16
EntryNibbles(type, c) ==
  CASE type = "Fat12" -> 3 * c .. 3 * c + 2
    [] type = "Fat16" -> 4 * c .. 4 * c + 3
    [] type = "Fat32" -> 8 * c .. 8 * c + 6

(* No step changes a bit outside the entry that is being written: not in   *)
(* the entries beside it, which share its bytes, not in the high nibble of *)
(* a FAT32 entry, and not in a copy that is not in use (format.rs:424,     *)
(* ARCHITECTURE.md:199).                                                   *)
NeighboursKept ==
  [][\A k \in DOMAIN fat : \A i \in DOMAIN fat[k] :
       fat'[k][i] # fat[k][i] =>
         /\ k \in Targets(volume)
         /\ \A j \in {2 * i, 2 * i + 1} :
              (Nibble(k, j))' # Nibble(k, j) => j \in EntryNibbles(volume.type, write.cluster)]_fatVars

(* Between calls, every copy in use holds the entry that was written last, *)
(* except where a write was interrupted, and then only in that entry; once *)
(* a write is complete, FSInfo offers no count that it made wrong.         *)
SettledBetweenCalls ==
  Mounted /\ pc = "idle" =>
    /\ \A c \in (WrittenClusters \cap ClusterNumbers) \ cut :
         \A k \in DOMAIN fat :
           Mirroring(volume) \/ k = ActiveFat(volume) => FatEntryAt(volume, k, c) = stored[c]
    /\ HasFsInfo(volume) /\ hint = "counted" => \A c \in WrittenClusters : stored[c] = Free

(* The bytes, read as a table of entries.                                  *)
Described == IF Mounted THEN volume ELSE Disk
Clusters == IF fat = <<>> THEN {} ELSE 2 .. MaxCluster(Described)
CellsNow == [k \in DOMAIN fat |-> [c \in Clusters |-> FatEntryAt(Described, k, c)]]
WritingNow ==
  IF pc = "idle" THEN NoWrite
  ELSE [cluster |-> write.cluster, value |-> write.value,
        left |-> IF pc = "info" THEN {} ELSE write.copy .. LastFat(volume)]

(* An entry that no single block holds.                                    *)
Straddles(v, k, c) ==
  InBlock(Address(v, k, EntryOffset(v.type, c)), EntryBytes(v.type)) < EntryBytes(v.type)
StraddlingNow == {kc \in (DOMAIN fat) \X Clusters : Straddles(Described, kc[1], kc[2])}

Cells == INSTANCE FatCells WITH
  cells <- CellsNow, writing <- WritingNow, straddling <- StraddlingNow

(* The bytes implement a table of entries of which one at a time is        *)
(* written, atomically unless it lies across two blocks.                   *)
CellsRefined == Cells!CellsSpec
=============================================================================
