-------------------------- MODULE Geometry_proofs --------------------------
(***************************************************************************)
(* The bounds that read_fat_entry, write_fat_entry and cluster_byte_offset *)
(* rely on, for every boot sector and every size of the format's limits.   *)
(*                                                                         *)
(* A mounted volume is the image of a boot sector under parse and          *)
(* from_bpb (VolumeInv); everything else is arithmetic about the           *)
(* conditions these two check.                                             *)
(***************************************************************************)
EXTENDS Geometry, TLAPS

VolumeInv ==
  /\ sector \in Sector
  /\ Mounted => \E s \in Sector :
       /\ Accepts(s) /\ IsSound(Parse(s))
       /\ volume = FromBpb(Parse(s))

-----------------------------------------------------------------------------
(* The arithmetic.                                                         *)
LEMMA RoundedUp ==
  ASSUME NEW a \in Nat, NEW b \in Nat \ {0}
  PROVE  (a + b - 1) \div b \in Nat /\ ((a + b - 1) \div b) * b >= a
OBVIOUS

(* Division rounds down.                                                   *)
LEMMA RoundedDown ==
  ASSUME NEW a \in Nat, NEW b \in Nat \ {0}
  PROVE  a \div b \in Nat /\ (a \div b) * b <= a
OBVIOUS

(* The k-th of n rows ends before the end.                                 *)
LEMMA Rows ==
  ASSUME NEW k \in Nat, NEW n \in Nat, NEW size \in Nat, k + 1 <= n
  PROVE  k * size + size <= n * size
OBVIOUS

(* A FAT12 entry of cluster c is in the bytes that hold c + 1 entries.     *)
LEMMA Packed12 ==
  ASSUME NEW bytes \in Nat, NEW c \in Nat, NEW count \in Nat,
         (bytes * 2) \div 3 >= count + 2, c <= count + 1
  PROVE  c + c \div 2 + 2 <= bytes
OBVIOUS

(* Entries of two bytes, then of four: the last lies inside.               *)
LEMMA Packed16 ==
  ASSUME NEW bytes \in Nat, NEW c \in Nat, NEW count \in Nat,
         bytes \div 2 >= count + 2, c <= count + 1
  PROVE  c * 2 + 2 <= bytes
OBVIOUS

LEMMA Packed32 ==
  ASSUME NEW bytes \in Nat, NEW c \in Nat, NEW count \in Nat,
         bytes \div 4 >= count + 2, c <= count + 1
  PROVE  c * 4 + 4 <= bytes
OBVIOUS

-----------------------------------------------------------------------------
(* What parse returns for a sector it accepts.                             *)
LEMMA Fields ==
  ASSUME NEW s \in Sector, Accepts(s), NEW b, b = Parse(s)
  PROVE  /\ b.bytesPerSector \in Nat \ {0} /\ b.sectorsPerCluster \in Nat \ {0}
         /\ b.reserved \in Nat /\ b.fatCount \in Nat \ {0}
         /\ b.rootEntries \in Nat /\ b.total \in Nat /\ b.active \in Nat
         /\ FatSectors(b) \in Nat
         /\ b.private \in BOOLEAN /\ (b.private => b.perFat16 = 0)
<1>1. /\ b.bytesPerSector \in Nat \ {0} /\ b.sectorsPerCluster \in Nat \ {0}
      /\ b.reserved \in Nat /\ b.fatCount \in Nat \ {0} /\ b.rootEntries \in Nat
  BY GeometryAssumption DEF Parse, Accepts, Sector
<1>2. b.total \in Nat /\ b.active \in Nat
  BY GeometryAssumption DEF Parse, Sector, TotalSectors
<1>3. FatSectors(b) \in Nat
  BY GeometryAssumption DEF Parse, Sector, FatSectors
<1>4. b.private \in BOOLEAN /\ (b.private => b.perFat16 = 0)
  BY DEF Parse, Sector, IsFat32Bpb
<1> QED
  BY <1>1, <1>2, <1>3, <1>4

(* The derived numbers of such a BPB.                                      *)
LEMMA Layout ==
  ASSUME NEW s \in Sector, Accepts(s), NEW b, b = Parse(s), IsSound(b)
  PROVE  /\ FatSectors(b) * b.fatCount \in Nat
         /\ RootSectors(b) \in Nat
         /\ RootSectors(b) * b.bytesPerSector >= b.rootEntries * EntrySize
         /\ RootStart(b) \in Nat /\ DataStart(b) \in Nat
         /\ DataStart(b) <= b.total
         /\ ClusterCount(b) \in Nat
         /\ ClusterCount(b) * b.sectorsPerCluster <= b.total - DataStart(b)
<1>1. b.rootEntries * EntrySize \in Nat /\ FatSectors(b) * b.fatCount \in Nat
  BY Fields, GeometryAssumption
<1>2. /\ RootSectors(b) \in Nat
      /\ RootSectors(b) * b.bytesPerSector >= b.rootEntries * EntrySize
  BY <1>1, Fields, RoundedUp DEF RootSectors
<1>3. RootStart(b) \in Nat /\ DataStart(b) \in Nat
  BY <1>1, <1>2, Fields DEF RootStart, DataStart
<1>4. DataStart(b) <= b.total
  BY DEF IsSound
<1>5. b.total - DataStart(b) \in Nat
  BY <1>3, <1>4, Fields
<1>6. /\ ClusterCount(b) \in Nat
      /\ ClusterCount(b) * b.sectorsPerCluster <= b.total - DataStart(b)
  BY <1>5, Fields, RoundedDown DEF ClusterCount
<1> QED
  BY <1>1, <1>2, <1>3, <1>4, <1>6

(* The volume that from_bpb returns.                                       *)
LEMMA MountedVolume ==
  ASSUME NEW b, IsSound(b), NEW v, v = FromBpb(b)
  PROVE  /\ v.type = FatType(b) /\ v.bpb = b /\ v.fatStart = b.reserved
         /\ v.rootStart = RootStart(b) /\ v.rootSectors = RootSectors(b)
         /\ v.dataStart = DataStart(b) /\ v.clusterCount = ClusterCount(b)
BY DEF FromBpb

-----------------------------------------------------------------------------
(* What is written back into a sector parses to the same BPB.              *)
LEMMA ParsedSerialized ==
  ASSUME NEW t \in Sector, NEW s \in Sector, Accepts(s), NEW b, b = Parse(s)
  PROVE  /\ Serialize(b, t) \in Sector
         /\ Accepts(Serialize(b, t))
         /\ Parse(Serialize(b, t)) = b
<1>1. /\ TotalSectors(s) \in 0 .. U32Max /\ TotalSectors(s) # 0
      /\ b.total = TotalSectors(s)
  BY GeometryAssumption DEF TotalSectors, Sector, Accepts, Parse
<1>2. /\ TotalSectors(Serialize(b, t)) = b.total
      /\ Serialize(b, t).total16 \in 0 .. U16Max /\ Serialize(b, t).total32 \in 0 .. U32Max
  BY <1>1, GeometryAssumption DEF TotalSectors, Serialize
<1>3. Serialize(b, t) \in Sector
  BY <1>2, GeometryAssumption DEF Serialize, Sector, Parse, IsFat32Bpb
<1>4. Accepts(Serialize(b, t))
  BY <1>1, <1>2 DEF Accepts, Serialize, Sector, Parse, IsFat32Bpb
<1>5. Parse(Serialize(b, t)) = b
  BY <1>2 DEF Parse, Serialize, Sector, IsFat32Bpb
<1> QED
  BY <1>3, <1>4, <1>5

(* A mounted volume is what some boot sector was accepted as.              *)
THEOREM Invariant == Spec => []VolumeInv
<1>1. Init => VolumeInv
  BY GeometryAssumption DEF Init, VolumeInv, Mounted, NotMounted, FatTypes
<1>2. ASSUME VolumeInv, [Next]_geometryVars PROVE VolumeInv'
  <2>1. CASE Mount
    <3>1. sector' \in Sector
      BY <2>1, <1>2 DEF Mount, VolumeInv
    <3>2. CASE Accepts(sector) /\ IsSound(Parse(sector))
      BY <2>1, <3>1, <3>2, <1>2 DEF Mount, VolumeInv, Mounted
    <3>3. CASE ~ (Accepts(sector) /\ IsSound(Parse(sector)))
      <4>1. volume' = Rejected
        BY <2>1, <3>3 DEF Mount, FromBpb
      <4> QED
        BY <4>1, <3>1 DEF VolumeInv, Mounted, Rejected, FatTypes
    <3> QED
      BY <3>2, <3>3
  <2>2. CASE Rewrite
    <3>1. PICK s \in Sector : Accepts(s) /\ IsSound(Parse(s)) /\ volume = FromBpb(Parse(s))
      BY <2>2, <1>2 DEF Rewrite, VolumeInv, Mounted
    <3>2. volume.bpb = Parse(s)
      BY <3>1, MountedVolume
    <3>3. sector' \in Sector
      BY <2>2, <1>2, <3>1, <3>2, ParsedSerialized DEF Rewrite, VolumeInv
    <3> QED
      BY <2>2, <3>3 DEF Rewrite, VolumeInv, Mounted, NotMounted, FatTypes
  <2>3. CASE UNCHANGED geometryVars
    BY <2>3, <1>2 DEF geometryVars, VolumeInv, Mounted
  <2> QED
    BY <1>2, <2>1, <2>2, <2>3 DEF Next
<1> QED
  BY <1>1, <1>2, PTL DEF Spec

-----------------------------------------------------------------------------
(* No cluster of a mounted volume has the number of a marker.              *)
LEMMA BelowMarkers ==
  ASSUME VolumeInv, Mounted, NEW c \in ClusterNumbers
  PROVE  c < FirstReserved[volume.type]
<1>1. PICK s \in Sector : Accepts(s) /\ IsSound(Parse(s)) /\ volume = FromBpb(Parse(s))
  BY DEF VolumeInv
<1>2. PICK b : b = Parse(s)
  OBVIOUS
<1>3. volume.type = FatType(b) /\ volume.clusterCount = ClusterCount(b)
  BY <1>1, <1>2, MountedVolume
<1>4. ClusterCount(b) \in Nat
  BY <1>1, <1>2, Layout
<1>5. FirstReserved[FatType(b)] \in Nat
  BY GeometryAssumption DEF FatType, FatTypes
<1>6. ClusterCount(b) + 1 < FirstReserved[FatType(b)]
  BY <1>1, <1>2 DEF IsSound
<1> QED
  BY <1>3, <1>4, <1>5, <1>6 DEF ClusterNumbers, MaxCluster

(* The capacity that from_bpb checks is enough for the last entry.         *)
LEMMA EntryFits ==
  ASSUME NEW s \in Sector, Accepts(s), NEW b, b = Parse(s), IsSound(b),
         NEW v, v = FromBpb(b), NEW c \in 2 .. MaxCluster(v)
  PROVE  EntryOffset(v.type, c) + EntryBytes(v.type) <= FatSectors(v.bpb) * v.bpb.bytesPerSector
<1>3. PICK bytes : bytes = FatSectors(b) * b.bytesPerSector
  OBVIOUS
<1>4. bytes \in Nat
  BY <1>3, Fields
<1>5. v.type = FatType(b) /\ v.bpb = b /\ v.clusterCount = ClusterCount(b)
  BY MountedVolume
<1>6. ClusterCount(b) \in Nat
  BY Layout
<1>7. c \in Nat /\ c <= ClusterCount(b) + 1
  BY <1>5, <1>6 DEF MaxCluster
<1>8. FatHolds(b)
  BY DEF IsSound
<1>9. CASE FatType(b) = "Fat12"
  <2>1. (bytes * 2) \div 3 >= ClusterCount(b) + 2
    BY <1>3, <1>8, <1>9 DEF FatHolds
  <2>2. c + c \div 2 + 2 <= bytes
    BY <2>1, <1>4, <1>6, <1>7, Packed12
  <2> QED
    BY <2>2, <1>3, <1>5, <1>9 DEF EntryOffset, EntryBytes
<1>10. CASE FatType(b) = "Fat16"
  <2>1. bytes \div 2 >= ClusterCount(b) + 2
    BY <1>3, <1>8, <1>10 DEF FatHolds
  <2>2. c * 2 + 2 <= bytes
    BY <2>1, <1>4, <1>6, <1>7, Packed16
  <2> QED
    BY <2>2, <1>3, <1>5, <1>10 DEF EntryOffset, EntryBytes
<1>11. CASE FatType(b) = "Fat32"
  <2>1. bytes \div 4 >= ClusterCount(b) + 2
    BY <1>3, <1>8, <1>11 DEF FatHolds
  <2>2. c * 4 + 4 <= bytes
    BY <2>1, <1>4, <1>6, <1>7, Packed32
  <2> QED
    BY <2>2, <1>3, <1>5, <1>11 DEF EntryOffset, EntryBytes
<1> QED
  BY <1>9, <1>10, <1>11 DEF FatType

(* Every entry of a mounted volume lies inside each FAT.                   *)
LEMMA EntryInside ==
  ASSUME VolumeInv, Mounted, NEW c \in ClusterNumbers
  PROVE  EntryOffset(volume.type, c) + EntryBytes(volume.type)
           <= FatSectors(volume.bpb) * volume.bpb.bytesPerSector
<1>1. PICK s \in Sector : Accepts(s) /\ IsSound(Parse(s)) /\ volume = FromBpb(Parse(s))
  BY DEF VolumeInv
<1> QED
  BY <1>1, EntryFits DEF ClusterNumbers

(* Every FAT entry that a mounted volume uses lies inside the FAT, and its *)
(* cluster can be stored as a link.                                        *)
THEOREM EveryClusterHasEntryHolds == Spec => []EveryClusterHasEntry
<1>1. VolumeInv => EveryClusterHasEntry
  BY EntryInside, BelowMarkers DEF EveryClusterHasEntry
<1> QED
  BY <1>1, Invariant, PTL

(* The regions of a mounted volume are disjoint and inside it.             *)
THEOREM RegionsInOrderHolds == Spec => []RegionsInOrder
<1>1. ASSUME VolumeInv, Mounted PROVE RegionsInOrder
  <2>1. PICK s \in Sector : Accepts(s) /\ IsSound(Parse(s)) /\ volume = FromBpb(Parse(s))
    BY <1>1 DEF VolumeInv
  <2>2. PICK b : b = Parse(s)
    OBVIOUS
  <2>3. /\ volume.type = FatType(b) /\ volume.bpb = b /\ volume.fatStart = b.reserved
        /\ volume.rootStart = RootStart(b) /\ volume.rootSectors = RootSectors(b)
        /\ volume.dataStart = DataStart(b) /\ volume.clusterCount = ClusterCount(b)
    BY <2>1, <2>2, MountedVolume
  <2>4. /\ FatSectors(b) * b.fatCount \in Nat
        /\ RootSectors(b) \in Nat
        /\ RootSectors(b) * b.bytesPerSector >= b.rootEntries * EntrySize
        /\ RootStart(b) \in Nat /\ DataStart(b) \in Nat
        /\ DataStart(b) <= b.total
        /\ ClusterCount(b) \in Nat
        /\ ClusterCount(b) * b.sectorsPerCluster <= b.total - DataStart(b)
    BY <2>1, <2>2, Layout
  <2>5. /\ b.sectorsPerCluster \in Nat \ {0} /\ b.reserved \in Nat
        /\ b.fatCount \in Nat \ {0} /\ b.total \in Nat /\ b.active \in Nat
        /\ FatSectors(b) \in Nat /\ b.private \in BOOLEAN
    BY <2>1, <2>2, Fields
  <2>6. DataStart(b) <= U32Max /\ (b.private => b.active < b.fatCount)
    BY <2>1, <2>2 DEF IsSound
  <2>7. ActiveFat(volume) < volume.bpb.fatCount
    <3>1. CASE Mirroring(volume)
      BY <3>1, <2>3, <2>5 DEF ActiveFat
    <3>2. CASE ~ Mirroring(volume)
      BY <3>2, <2>3, <2>6 DEF ActiveFat, Mirroring
    <3> QED
      BY <3>1, <3>2
  <2>8. ASSUME NEW k \in 0 .. volume.bpb.fatCount - 1
        PROVE  FatStart(volume, k) + FatSectors(volume.bpb) <= volume.rootStart
    <3>1. k \in Nat /\ k + 1 <= b.fatCount
      BY <2>3, <2>5
    <3>2. k * FatSectors(b) + FatSectors(b) <= b.fatCount * FatSectors(b)
      BY <3>1, <2>5, Rows
    <3>3. b.fatCount * FatSectors(b) = FatSectors(b) * b.fatCount
      BY <2>5
    <3>4. k * FatSectors(b) \in Nat
      BY <3>1, <2>5
    <3> QED
      BY <3>2, <3>3, <3>4, <2>3, <2>4, <2>5 DEF FatStart, RootStart
  <2>9. ASSUME NEW c \in ClusterNumbers
        PROVE  /\ ClusterSector(volume, c) >= volume.dataStart
               /\ ClusterSector(volume, c) + volume.bpb.sectorsPerCluster <= volume.bpb.total
    <3>1. c \in 2 .. ClusterCount(b) + 1
      BY <2>3 DEF ClusterNumbers, MaxCluster
    <3>2. PICK k \in Nat : k = c - 2
      BY <3>1, <2>4
    <3>3. k + 1 <= ClusterCount(b)
      BY <3>1, <3>2, <2>4
    <3>4. k * b.sectorsPerCluster + b.sectorsPerCluster <= ClusterCount(b) * b.sectorsPerCluster
      BY <3>2, <3>3, <2>4, <2>5, Rows
    <3>5. k * b.sectorsPerCluster \in Nat
      BY <3>2, <2>5
    <3>6. ClusterSector(volume, c) = DataStart(b) + k * b.sectorsPerCluster
      BY <3>2, <2>3 DEF ClusterSector
    <3>7. ClusterCount(b) * b.sectorsPerCluster \in Nat
      BY <2>4, <2>5
    <3> QED
      BY <3>4, <3>5, <3>6, <3>7, <2>3, <2>4, <2>5
  <2>10. volume.rootStart + volume.rootSectors = volume.dataStart
    BY <2>3 DEF DataStart
  <2> QED
    BY <2>3, <2>4, <2>6, <2>7, <2>8, <2>9, <2>10 DEF RegionsInOrder
<1>2. VolumeInv => RegionsInOrder
  BY <1>1 DEF RegionsInOrder
<1> QED
  BY <1>2, Invariant, PTL

(* serialize_into and parse are inverse on a mounted volume's BPB.         *)
THEOREM SerializeParsesHolds == Spec => []SerializeParses
<1>1. ASSUME VolumeInv, Mounted PROVE SerializeParses
  <2>1. PICK s \in Sector : Accepts(s) /\ IsSound(Parse(s)) /\ volume = FromBpb(Parse(s))
    BY <1>1 DEF VolumeInv
  <2>2. volume.bpb = Parse(s)
    BY <2>1, MountedVolume
  <2> QED
    BY <1>1, <2>1, <2>2, ParsedSerialized DEF VolumeInv, SerializeParses
<1>2. VolumeInv => SerializeParses
  BY <1>1 DEF SerializeParses
<1> QED
  BY <1>2, Invariant, PTL
=============================================================================
