------------------------------ MODULE Geometry ------------------------------
(***************************************************************************)
(* Mounting: what Bpb::parse accepts of a boot sector, the layout that     *)
(* Volume::from_bpb derives from it, and the places where the rest of the  *)
(* crate then looks for FAT entries and clusters.                          *)
(*                                                                         *)
(* The boot sector is a record of the fields the layout depends on; the    *)
(* limits of the format are constants, so that small ones can be checked.  *)
(* Sums and products of u32 are those of the code: checked where it checks *)
(* them.                                                                   *)
(***************************************************************************)
EXTENDS Integers

CONSTANTS
  U16Max, U32Max,
  SectorSizes,       \* 512, 1024, 2048, 4096
  ClusterSectors,    \* the powers of two in a byte
  EntrySize,         \* bytes of a directory entry
  Fat12Limit,        \* clusters from which a volume is FAT16
  Fat16Limit,        \* clusters from which a volume is FAT32
  FirstReserved,     \* FAT type -> first_reserved_cluster
  BootSectors        \* the boot sectors to mount

FatTypes == {"Fat12", "Fat16", "Fat32"}

(* A boot sector; private is bit 0x80 of extended_flags, active its low    *)
(* four bits.                                                              *)
Sector ==
  [signature : BOOLEAN, bytesPerSector : Nat, sectorsPerCluster : Nat, reserved : Nat,
   fatCount : Nat, rootEntries : 0 .. U16Max, total16 : 0 .. U16Max, total32 : 0 .. U32Max,
   perFat16 : 0 .. U16Max, perFat32 : 0 .. U32Max, private : BOOLEAN, active : Nat,
   rootCluster : 0 .. U32Max, fsInfo : 0 .. U16Max]

ASSUME GeometryAssumption ==
  /\ U16Max \in Nat /\ U32Max \in Nat /\ U16Max <= U32Max
  /\ SectorSizes \subseteq Nat \ {0} /\ ClusterSectors \subseteq Nat \ {0}
  /\ EntrySize \in Nat \ {0}
  /\ Fat12Limit \in Nat /\ Fat16Limit \in Nat
  /\ FirstReserved \in [FatTypes -> Nat]
  /\ BootSectors \subseteq Sector

VARIABLES
  sector,   \* the boot sector on the device
  volume    \* NotMounted, Rejected, or what from_bpb returned

geometryVars == <<sector, volume>>

NotMounted == [type |-> "none"]
Rejected == [type |-> "rejected"]

-----------------------------------------------------------------------------
(* Bpb::parse                                                              *)
IsFat32Bpb(s) == s.perFat16 = 0
TotalSectors(s) == IF s.total16 = 0 THEN s.total32 ELSE s.total16
Accepts(s) ==
  /\ s.signature
  /\ s.bytesPerSector \in SectorSizes /\ s.sectorsPerCluster \in ClusterSectors
  /\ s.reserved # 0 /\ s.fatCount # 0 /\ TotalSectors(s) # 0
  /\ s.perFat16 # 0 \/ s.perFat32 # 0

Parse(s) ==
  [bytesPerSector |-> s.bytesPerSector, sectorsPerCluster |-> s.sectorsPerCluster,
   reserved |-> s.reserved, fatCount |-> s.fatCount, rootEntries |-> s.rootEntries,
   total |-> TotalSectors(s), perFat16 |-> s.perFat16,
   perFat32 |-> IF IsFat32Bpb(s) THEN s.perFat32 ELSE 0,
   private |-> IsFat32Bpb(s) /\ s.private,
   active |-> IF IsFat32Bpb(s) THEN s.active ELSE 0,
   rootCluster |-> IF IsFat32Bpb(s) THEN s.rootCluster ELSE 0,
   fsInfo |-> IF IsFat32Bpb(s) THEN s.fsInfo ELSE 0]

(* Mutant: the total is cut to sixteen bits, not replaced by 0.            *)
Serialize_Cast(b, s) ==
  LET small == b.total <= U16Max
      fat32 == b.perFat16 = 0
  IN  [signature |-> TRUE, bytesPerSector |-> b.bytesPerSector,
       sectorsPerCluster |-> b.sectorsPerCluster, reserved |-> b.reserved,
       fatCount |-> b.fatCount, rootEntries |-> b.rootEntries,
       total16 |-> b.total % (U16Max + 1), total32 |-> IF small THEN 0 ELSE b.total,
       perFat16 |-> b.perFat16, perFat32 |-> IF fat32 THEN b.perFat32 ELSE s.perFat32,
       private |-> IF fat32 THEN b.private ELSE s.private,
       active |-> IF fat32 THEN b.active ELSE s.active,
       rootCluster |-> IF fat32 THEN b.rootCluster ELSE s.rootCluster,
       fsInfo |-> IF fat32 THEN b.fsInfo ELSE s.fsInfo]

(* Bpb::serialize_into, over the boot sector that is there                 *)
Serialize(b, s) ==
  LET small == b.total <= U16Max
      fat32 == b.perFat16 = 0
  IN  [signature |-> TRUE, bytesPerSector |-> b.bytesPerSector,
       sectorsPerCluster |-> b.sectorsPerCluster, reserved |-> b.reserved,
       fatCount |-> b.fatCount, rootEntries |-> b.rootEntries,
       total16 |-> IF small THEN b.total ELSE 0, total32 |-> IF small THEN 0 ELSE b.total,
       perFat16 |-> b.perFat16, perFat32 |-> IF fat32 THEN b.perFat32 ELSE s.perFat32,
       private |-> IF fat32 THEN b.private ELSE s.private,
       active |-> IF fat32 THEN b.active ELSE s.active,
       rootCluster |-> IF fat32 THEN b.rootCluster ELSE s.rootCluster,
       fsInfo |-> IF fat32 THEN b.fsInfo ELSE s.fsInfo]

-----------------------------------------------------------------------------
(* Volume::from_bpb                                                        *)
FatSectors(b) == IF b.perFat16 # 0 THEN b.perFat16 ELSE b.perFat32
RootSectors(b) == (b.rootEntries * EntrySize + b.bytesPerSector - 1) \div b.bytesPerSector
RootStart(b) == b.reserved + FatSectors(b) * b.fatCount
DataStart(b) == RootStart(b) + RootSectors(b)
ClusterCount(b) == (b.total - DataStart(b)) \div b.sectorsPerCluster
FatType(b) ==
  IF ClusterCount(b) < Fat12Limit THEN "Fat12"
  ELSE IF ClusterCount(b) < Fat16Limit THEN "Fat16" ELSE "Fat32"

(* Mutant: the two entries that stand for no cluster are forgotten.        *)
FatHolds_NoReserved(b) ==
  LET bytes == FatSectors(b) * b.bytesPerSector
      capacity == CASE FatType(b) = "Fat12" -> (bytes * 2) \div 3
                    [] FatType(b) = "Fat16" -> bytes \div 2
                    [] FatType(b) = "Fat32" -> bytes \div 4
  IN  capacity >= ClusterCount(b)

FatHolds(b) ==
  LET bytes == FatSectors(b) * b.bytesPerSector
      capacity == CASE FatType(b) = "Fat12" -> (bytes * 2) \div 3
                    [] FatType(b) = "Fat16" -> bytes \div 2
                    [] FatType(b) = "Fat32" -> bytes \div 4
  IN  capacity >= ClusterCount(b) + 2

FieldsFitType(b) ==
  IF FatType(b) = "Fat32"
    THEN b.rootCluster >= 2 /\ b.perFat16 = 0 /\ b.perFat32 # 0 /\ b.rootEntries = 0
    ELSE b.rootEntries # 0 /\ b.perFat16 # 0

(* Mutant: the active FAT is not compared with their number.               *)
IsSound_AnyActive(b) ==
  /\ FatSectors(b) * b.fatCount <= U32Max /\ DataStart(b) <= U32Max
  /\ DataStart(b) <= b.total
  /\ FieldsFitType(b)
  /\ FatHolds(b)
  /\ ClusterCount(b) + 1 < FirstReserved[FatType(b)]

IsSound(b) ==
  /\ FatSectors(b) * b.fatCount <= U32Max /\ DataStart(b) <= U32Max
  /\ DataStart(b) <= b.total
  /\ FieldsFitType(b)
  /\ b.private => b.active < b.fatCount
  /\ FatHolds(b)
  /\ ClusterCount(b) + 1 < FirstReserved[FatType(b)]

FromBpb(b) ==
  IF IsSound(b)
    THEN [type |-> FatType(b), bpb |-> b, fatStart |-> b.reserved, rootStart |-> RootStart(b),
          rootSectors |-> RootSectors(b), dataStart |-> DataStart(b), clusterCount |-> ClusterCount(b)]
    ELSE Rejected

-----------------------------------------------------------------------------
(* What the mounted volume is used for: max_cluster, fat_mirroring_enabled,*)
(* active_fat, cluster_byte_offset, and the offset of a FAT entry in       *)
(* read_fat_entry and write_one_fat_entry.                                 *)
MaxCluster(v) == v.clusterCount + 1
Mirroring(v) == v.type # "Fat32" \/ ~ v.bpb.private
ActiveFat(v) == IF Mirroring(v) THEN 0 ELSE v.bpb.active
FatStart(v, k) == v.fatStart + k * FatSectors(v.bpb)
ClusterSector(v, c) == v.dataStart + (c - 2) * v.bpb.sectorsPerCluster

EntryOffset(type, c) ==
  CASE type = "Fat12" -> c + c \div 2 [] type = "Fat16" -> c * 2 [] type = "Fat32" -> c * 4
EntryBytes(type) == IF type = "Fat32" THEN 4 ELSE 2

-----------------------------------------------------------------------------
Init == sector \in BootSectors /\ volume = NotMounted

(* read_volume                                                             *)
Mount ==
  /\ volume = NotMounted
  /\ volume' = IF Accepts(sector) THEN FromBpb(Parse(sector)) ELSE Rejected
  /\ UNCHANGED sector

(* An owner of the volume updates its boot sector, and mounts it again.    *)
Rewrite ==
  /\ volume.type \in FatTypes
  /\ sector' = Serialize(volume.bpb, sector)
  /\ volume' = NotMounted

Next == Mount \/ Rewrite
Spec == Init /\ [][Next]_geometryVars

-----------------------------------------------------------------------------
Mounted == volume.type \in FatTypes
ClusterNumbers == 2 .. MaxCluster(volume)

(* Every cluster of a mounted volume has a FAT entry, all bytes of which   *)
(* lie in the FAT (the capacity check of from_bpb; FAT12 entries share     *)
(* bytes, so its rounding matters), and a number that can be stored as a   *)
(* link, not one of the markers.                                           *)
EveryClusterHasEntry ==
  Mounted => \A c \in ClusterNumbers :
    /\ EntryOffset(volume.type, c) + EntryBytes(volume.type)
         <= FatSectors(volume.bpb) * volume.bpb.bytesPerSector
    /\ c < FirstReserved[volume.type]

(* The FATs, the root directory and the clusters lie behind one another    *)
(* inside the volume, at sector numbers a u32 holds, which read_fat_entry  *)
(* and write_fat_entry add and multiply without checks.                    *)
RegionsInOrder ==
  Mounted =>
    /\ ActiveFat(volume) < volume.bpb.fatCount
    /\ \A k \in 0 .. volume.bpb.fatCount - 1 :
          FatStart(volume, k) + FatSectors(volume.bpb) <= volume.rootStart
    /\ volume.rootStart + volume.rootSectors = volume.dataStart
    /\ volume.rootSectors * volume.bpb.bytesPerSector >= volume.bpb.rootEntries * EntrySize
    /\ volume.dataStart <= U32Max
    /\ \A c \in ClusterNumbers :
          /\ ClusterSector(volume, c) >= volume.dataStart
          /\ ClusterSector(volume, c) + volume.bpb.sectorsPerCluster <= volume.bpb.total

(* A BPB that was parsed and accepted is read back as it was written.      *)
SerializeParses ==
  Mounted => /\ Accepts(Serialize(volume.bpb, sector))
             /\ Parse(Serialize(volume.bpb, sector)) = volume.bpb
=============================================================================
