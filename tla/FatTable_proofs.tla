-------------------------- MODULE FatTable_proofs --------------------------
(***************************************************************************)
(* For every volume, block size and sequence of writes and faults: what is *)
(* stored in a FAT entry is read back, and no write changes a bit outside  *)
(* its entry.                                                              *)
(*                                                                         *)
(* The second needs the bytes that write_device_at still has to write to   *)
(* agree with the device outside the entry (Pending), in each copy and     *)
(* after each block.  StoredInv relates the bytes of every copy to what    *)
(* was stored, and with it each step is one of FatCells.                   *)
(***************************************************************************)
EXTENDS FatTable, Geometry_proofs

Byte == 0 .. 255
Half(b, h) == IF h = 0 THEN b % 16 ELSE b \div 16

(* m are n bytes that differ from those of b, at offset at, in the half    *)
(* bytes E at most.                                                        *)
DifferIn(m, b, n, at, E) ==
  /\ m \in Seq(Byte) /\ Len(m) = n
  /\ \A i \in 1 .. n, h \in {0, 1} :
       Half(m[i], h) # Half(b[i], h) => 2 * (at + i - 1) + h \in E

-----------------------------------------------------------------------------
(* The arithmetic of the codec.                                            *)
LEMMA TwoBytes ==
  ASSUME NEW y \in Nat, y < 65536
  PROVE  /\ y % 256 \in Byte /\ y \div 256 \in Byte
         /\ (y % 256) + 256 * (y \div 256) = y
         /\ (y % 256) % 16 = y % 16
         /\ (y \div 256) \div 16 = y \div 4096
BY DEF Byte

-----------------------------------------------------------------------------
(* The bytes that serialize_into leaves for an entry of each size, what    *)
(* parse makes of them, and the half byte that it keeps.                   *)
LEMMA Merged12 ==
  ASSUME NEW c \in Nat, NEW x \in Nat, x < 4096, NEW b \in [1 .. 2 -> Byte]
  PROVE  /\ \E p, q \in Byte : Merge12(c, x, b) = <<p, q>>
         /\ Value12(c, Merge12(c, x, b)) = x
         /\ c % 2 = 0 => Merge12(c, x, b)[2] \div 16 = b[2] \div 16
         /\ c % 2 # 0 => Merge12(c, x, b)[1] % 16 = b[1] % 16
<1>1. PICK low \in Byte, high \in Byte : low = b[1] /\ high = b[2]
  OBVIOUS
<1>2. CASE c % 2 = 0
  <2>1. PICK y : y = ((low + 256 * high) \div 4096) * 4096 + x
    OBVIOUS
  <2>2. y \in Nat /\ y < 65536 /\ y % 4096 = x /\ y \div 4096 = high \div 16
    BY <2>1 DEF Byte
  <2>3. PICK p \in Byte, q \in Byte :
          p = y % 256 /\ q = y \div 256 /\ p + 256 * q = y /\ q \div 16 = high \div 16
    BY <2>2, TwoBytes
  <2>4. Merge12(c, x, b) = <<p, q>>
    BY <1>1, <1>2, <2>1, <2>3 DEF Merge12, Bytes2, Pair
  <2> QED
    BY <1>1, <1>2, <2>2, <2>3, <2>4 DEF Value12, Pair
<1>3. CASE c % 2 # 0
  <2>1. PICK y : y = ((low + 256 * high) % 16) + 16 * x
    OBVIOUS
  <2>2. y \in Nat /\ y < 65536 /\ y \div 16 = x /\ y % 16 = low % 16
    BY <2>1 DEF Byte
  <2>3. PICK p \in Byte, q \in Byte :
          p = y % 256 /\ q = y \div 256 /\ p + 256 * q = y /\ p % 16 = low % 16
    BY <2>2, TwoBytes
  <2>4. Merge12(c, x, b) = <<p, q>>
    BY <1>1, <1>3, <2>1, <2>3 DEF Merge12, Bytes2, Pair
  <2> QED
    BY <1>1, <1>3, <2>2, <2>3, <2>4 DEF Value12, Pair
<1> QED
  BY <1>2, <1>3

(* The round trip of 12 bits, and the half byte of the neighbour is kept.  *)
LEMMA Read12 ==
  ASSUME NEW c \in Nat, NEW x \in Nat, x < 4096, NEW b \in [1 .. 2 -> Byte]
  PROVE  Value12(c, Merge12(c, x, b)) = x
BY Merged12

LEMMA Kept12 ==
  ASSUME NEW c \in Nat, NEW x \in Nat, x < 4096, NEW b \in [1 .. 2 -> Byte]
  PROVE  DifferIn(Merge12(c, x, b), b, 2, EntryOffset("Fat12", c), EntryNibbles("Fat12", c))
<1> SUFFICES ASSUME NEW m, m = Merge12(c, x, b)
             PROVE  DifferIn(m, b, 2, EntryOffset("Fat12", c), EntryNibbles("Fat12", c))
  OBVIOUS
<1>1. \E p, q \in Byte : m = <<p, q>>
  BY Merged12
<1>2. m \in Seq(Byte) /\ Len(m) = 2
  BY <1>1
<1>3. c % 2 = 0 => m[2] \div 16 = b[2] \div 16
  BY Merged12
<1>4. c % 2 # 0 => m[1] % 16 = b[1] % 16
  BY Merged12
<1>5. ASSUME NEW i \in 1 .. 2, NEW h \in {0, 1}, Half(m[i], h) # Half(b[i], h)
      PROVE  2 * (c + c \div 2 + i - 1) + h \in 3 * c .. 3 * c + 2
  <2>1. CASE c % 2 = 0
    <3>1. ~ (i = 2 /\ h = 1)
      BY <1>3, <1>5, <2>1 DEF Half
    <3> QED
      BY <2>1, <3>1
  <2>2. CASE c % 2 # 0
    <3>1. ~ (i = 1 /\ h = 0)
      BY <1>4, <1>5, <2>2 DEF Half
    <3> QED
      BY <2>2, <3>1
  <2> QED
    BY <2>1, <2>2
<1> QED
  BY <1>2, <1>5 DEF DifferIn, EntryOffset, EntryNibbles

(* The round trip of 16 bits.                                              *)
LEMMA Merged16 ==
  ASSUME NEW x \in Nat, x < 65536
  PROVE  /\ \E p, q \in Byte : Bytes2(x) = <<p, q>>
         /\ Pair(Bytes2(x)) = x
BY TwoBytes DEF Bytes2, Pair

LEMMA Kept16 ==
  ASSUME NEW c \in Nat, NEW x \in Nat, x < 65536, NEW b
  PROVE  DifferIn(Bytes2(x), b, 2, EntryOffset("Fat16", c), EntryNibbles("Fat16", c))
<1> SUFFICES ASSUME NEW m, m = Bytes2(x)
             PROVE  DifferIn(m, b, 2, EntryOffset("Fat16", c), EntryNibbles("Fat16", c))
  OBVIOUS
<1>1. \E p, q \in Byte : m = <<p, q>>
  BY Merged16
<1>2. m \in Seq(Byte) /\ Len(m) = 2
  BY <1>1
<1>3. \A i \in 1 .. 2, h \in {0, 1} : 2 * (c * 2 + i - 1) + h \in 4 * c .. 4 * c + 3
  OBVIOUS
<1> QED
  BY <1>2, <1>3 DEF DifferIn, EntryOffset, EntryNibbles

(* The round trip of 28 bits, and the upper four are kept.                 *)
LEMMA Merged32 ==
  ASSUME NEW x \in Nat, x < 268435456, NEW b \in [1 .. 4 -> Byte]
  PROVE  /\ \E p, q, r, s \in Byte : Merge32(x, b) = <<p, q, r, s>>
         /\ Value32(Merge32(x, b)) = x
         /\ Merge32(x, b)[4] \div 16 = b[4] \div 16
<1>1. PICK d \in Byte : d = b[4]
  OBVIOUS
<1>2. PICK h \in Nat : h = x \div 16777216 /\ h < 16
  BY SMT
<1>3. PICK s \in Byte : s = (d \div 16) * 16 + h /\ s \div 16 = d \div 16 /\ s % 16 = h
  BY SMT, <1>2 DEF Byte
<1>4. x % 256 \in Byte /\ (x \div 256) % 256 \in Byte /\ (x \div 65536) % 256 \in Byte
  BY SMT DEF Byte
<1>5. PICK p \in Byte, q \in Byte, r \in Byte :
        p = x % 256 /\ q = (x \div 256) % 256 /\ r = (x \div 65536) % 256
  BY SMT, <1>4
<1>8. p + 256 * q + 65536 * r + 16777216 * h = x
  BY SMT, <1>2, <1>5
<1>6. Merge32(x, b) = <<p, q, r, s>>
  BY SMT, <1>1, <1>2, <1>3, <1>5 DEF Merge32
<1>7. Value32(<<p, q, r, s>>) = x
  BY SMT, <1>3, <1>8 DEF Value32
<1> QED
  BY SMT, <1>1, <1>3, <1>6, <1>7

LEMMA Read32 ==
  ASSUME NEW x \in Nat, x < 268435456, NEW b \in [1 .. 4 -> Byte]
  PROVE  Value32(Merge32(x, b)) = x
BY SMT, Merged32

LEMMA Kept32 ==
  ASSUME NEW c \in Nat, NEW x \in Nat, x < 268435456, NEW b \in [1 .. 4 -> Byte]
  PROVE  DifferIn(Merge32(x, b), b, 4, EntryOffset("Fat32", c), EntryNibbles("Fat32", c))
<1> SUFFICES ASSUME NEW m, m = Merge32(x, b)
             PROVE  DifferIn(m, b, 4, EntryOffset("Fat32", c), EntryNibbles("Fat32", c))
  OBVIOUS
<1>1. \E p, q, r, s \in Byte : m = <<p, q, r, s>>
  BY SMT, Merged32
<1>2. m \in Seq(Byte) /\ Len(m) = 4
  BY <1>1
<1>3. m[4] \div 16 = b[4] \div 16
  BY SMT, Merged32
<1>4. ASSUME NEW i \in 1 .. 4, NEW h \in {0, 1}, Half(m[i], h) # Half(b[i], h)
      PROVE  2 * (c * 4 + i - 1) + h \in 8 * c .. 8 * c + 6
  <2>1. ~ (i = 4 /\ h = 1)
    BY <1>3, <1>4 DEF Half
  <2> QED
    BY <2>1
<1> QED
  BY <1>2, <1>4 DEF DifferIn, EntryOffset, EntryNibbles

(* FatEntry::parse returns the value that serialize_into has stored, for   *)
(* every type, cluster, value and bytes around it.                         *)
THEOREM StoredIsRead ==
  ASSUME NEW t \in FatTypes, NEW c \in Nat, NEW x \in Nat, x <= Mask[t],
         NEW b \in [1 .. EntryBytes(t) -> Byte]
  PROVE  Value(t, c, Merge(t, c, x, b)) = x
<1>1. CASE t = "Fat12"
  <2>1. x < 4096
    BY SMT, <1>1, FatTableAssumption
  <2>2. b \in [1 .. 2 -> Byte]
    BY <1>1 DEF EntryBytes
  <2>3. Value12(c, Merge12(c, x, b)) = x
    BY <2>1, <2>2, Read12
  <2> QED
    BY <1>1, <2>3 DEF Merge, Value
<1>2. CASE t = "Fat16"
  <2>1. x < 65536
    BY SMT, <1>2, FatTableAssumption
  <2>2. Pair(Bytes2(x)) = x
    BY <2>1, Merged16
  <2> QED
    BY <1>2, <2>2 DEF Merge, Value
<1>3. CASE t = "Fat32"
  <2>1. x < 268435456
    BY SMT, <1>3, FatTableAssumption
  <2>2. b \in [1 .. 4 -> Byte]
    BY <1>3 DEF EntryBytes
  <2>3. Value32(Merge32(x, b)) = x
    BY SMT, <2>1, <2>2, Read32
  <2> QED
    BY <1>3, <2>3 DEF Merge, Value
<1> QED
  BY <1>1, <1>2, <1>3 DEF FatTypes

(* The markers of each type, in their order.                               *)
LEMMA MarkersInOrder ==
  ASSUME NEW t \in FatTypes
  PROVE  /\ FirstReserved[t] \in Nat /\ Bad[t] \in Nat /\ EocMin[t] \in Nat /\ Mask[t] \in Nat
         /\ 2 < FirstReserved[t] /\ FirstReserved[t] <= Bad[t]
         /\ Bad[t] < EocMin[t] /\ EocMin[t] <= Mask[t]
<1>1. Mask[t] \in Nat
  BY SMT, FatTableAssumption DEF FatTypes
<1> QED
  BY SMT, <1>1, FatTableAssumption, GeometryAssumption

(* What FatEntry::parse makes of a value, by the ranges of its match.       *)
LEMMA ParsedByRange ==
  ASSUME NEW t \in FatTypes, NEW c, NEW s, NEW x \in Nat, Value(t, c, s) = x
  PROVE  /\ x = 0 => ParseEntry(t, c, s) = Free
         /\ x \in 2 .. FirstReserved[t] - 1 => ParseEntry(t, c, s) = Data(x)
         /\ x = Bad[t] => ParseEntry(t, c, s) = BadCluster
         /\ x >= EocMin[t] => ParseEntry(t, c, s) = EndOfChain
         /\ x = 1 \/ (x \in FirstReserved[t] .. EocMin[t] - 1 /\ x # Bad[t])
              => ParseEntry(t, c, s) = Reserved(x)
<1>1. /\ FirstReserved[t] \in Nat /\ Bad[t] \in Nat /\ EocMin[t] \in Nat
      /\ 2 < FirstReserved[t] /\ FirstReserved[t] <= Bad[t] /\ Bad[t] < EocMin[t]
  BY MarkersInOrder
<1>2. ASSUME x = 0  PROVE ParseEntry(t, c, s) = Free
  BY <1>1, <1>2 DEF ParseEntry
<1>3. ASSUME x \in 2 .. FirstReserved[t] - 1  PROVE ParseEntry(t, c, s) = Data(x)
  <2>1. x # 0 /\ x # Bad[t] /\ ~ (x >= EocMin[t])
    BY <1>1, <1>3
  <2> QED
    BY <1>3, <2>1 DEF ParseEntry
<1>4. ASSUME x = Bad[t]  PROVE ParseEntry(t, c, s) = BadCluster
  <2>1. x # 0 /\ x \notin 2 .. FirstReserved[t] - 1 /\ ~ (x >= EocMin[t])
    BY <1>1, <1>4
  <2> QED
    BY <1>4, <2>1 DEF ParseEntry
<1>5. ASSUME x >= EocMin[t]  PROVE ParseEntry(t, c, s) = EndOfChain
  <2>1. x # 0 /\ x \notin 2 .. FirstReserved[t] - 1 /\ x # Bad[t]
    BY <1>1, <1>5
  <2> QED
    BY <1>5, <2>1 DEF ParseEntry
<1>6. ASSUME x = 1 \/ (x \in FirstReserved[t] .. EocMin[t] - 1 /\ x # Bad[t])
      PROVE  ParseEntry(t, c, s) = Reserved(x)
  <2>1. x # 0 /\ x \notin 2 .. FirstReserved[t] - 1 /\ x # Bad[t] /\ ~ (x >= EocMin[t])
    BY <1>1, <1>6
  <2> QED
    BY <2>1 DEF ParseEntry
<1> QED
  BY <1>2, <1>3, <1>4, <1>5, <1>6

(* The entries that serialize_into accepts.                                *)
Accepted(t) ==
  {Free, BadCluster, EndOfChain} \cup {Data(n) : n \in 2 .. FirstReserved[t] - 1}
    \cup {Reserved(x) : x \in 0 .. Mask[t]}

(* Of the entries that serialize_into accepts, FatEntry::parse returns     *)
(* each as it was, whatever the markers are, but for a Reserved with a     *)
(* value that means something else: that is read as what the value means.  *)
THEOREM EntryIsReadBack ==
  ASSUME NEW t \in FatTypes, NEW c \in Nat, NEW b \in [1 .. EntryBytes(t) -> Byte],
         NEW e \in Accepted(t)
  PROVE  ParseEntry(t, c, Merge(t, c, Raw(t, e), b)) = e <=>
           (e.kind = "reserved" =>
              e.raw = 1 \/ (e.raw \in FirstReserved[t] .. EocMin[t] - 1 /\ e.raw # Bad[t]))
<1>1. /\ FirstReserved[t] \in Nat /\ Bad[t] \in Nat /\ EocMin[t] \in Nat /\ Mask[t] \in Nat
      /\ 2 < FirstReserved[t] /\ FirstReserved[t] <= Bad[t]
      /\ Bad[t] < EocMin[t] /\ EocMin[t] <= Mask[t]
  BY MarkersInOrder
<1>2. PICK x : x = Raw(t, e)
  OBVIOUS
<1>3. /\ x \in Nat /\ x <= Mask[t]
      /\ \/ x = 0 /\ e = Free
         \/ x \in 2 .. FirstReserved[t] - 1 /\ e = Data(x)
         \/ x = Bad[t] /\ e = BadCluster
         \/ x = Mask[t] /\ e = EndOfChain
         \/ e = Reserved(x)
  BY <1>1, <1>2 DEF Accepted, Raw, Free, BadCluster, EndOfChain, Data, Reserved
<1>4. Value(t, c, Merge(t, c, x, b)) = x
  BY <1>3, StoredIsRead
<1>5. PICK y, read : /\ y = Value(t, c, Merge(t, c, Raw(t, e), b)) /\ y = x
                     /\ read = ParseEntry(t, c, Merge(t, c, Raw(t, e), b))
  BY <1>4, <1>2
<1>6. /\ x = 0 => read = Free
      /\ x \in 2 .. FirstReserved[t] - 1 => read = Data(x)
      /\ x = Bad[t] => read = BadCluster
      /\ x >= EocMin[t] => read = EndOfChain
      /\ x = 1 \/ (x \in FirstReserved[t] .. EocMin[t] - 1 /\ x # Bad[t]) => read = Reserved(x)
  BY <1>3, <1>5, ParsedByRange
<1>7. CASE e # Reserved(x)
  <2>1. e.kind # "reserved"
    BY <1>3, <1>7 DEF Free, BadCluster, EndOfChain, Data
  <2>2. read = e
    BY <1>1, <1>3, <1>6, <1>7
  <2> QED
    BY <1>5, <2>1, <2>2
<1>8. CASE e = Reserved(x)
  <2>1. e.kind = "reserved" /\ e.raw = x
    BY <1>8 DEF Reserved
  <2>2. Free # e /\ BadCluster # e /\ EndOfChain # e /\ Data(x) # e
    <3>1. /\ Free.kind # "reserved" /\ BadCluster.kind # "reserved"
          /\ EndOfChain.kind # "reserved" /\ Data(x).kind # "reserved"
      BY DEF Free, BadCluster, EndOfChain, Data
    <3> QED
      BY <2>1, <3>1
  <2>3. CASE x = 1 \/ (x \in FirstReserved[t] .. EocMin[t] - 1 /\ x # Bad[t])
    BY <1>5, <1>6, <1>8, <2>1, <2>3
  <2>4. CASE x = 0 \/ x \in 2 .. FirstReserved[t] - 1 \/ x = Bad[t] \/ x >= EocMin[t]
    <3>1. read # e
      BY <1>6, <2>2, <2>4
    <3>2. ~ (x = 1 \/ (x \in FirstReserved[t] .. EocMin[t] - 1 /\ x # Bad[t]))
      BY <1>1, <1>3, <2>4
    <3> QED
      BY <1>5, <2>1, <3>1, <3>2
  <2> QED
    BY <1>1, <1>3, <2>3, <2>4
<1> QED
  BY <1>7, <1>8

(* What it stores differs from what was there in the entry's half bytes    *)
(* only.                                                                   *)
LEMMA MergedInEntry ==
  ASSUME NEW t \in FatTypes, NEW c \in Nat, NEW x \in Nat, x <= Mask[t],
         NEW b \in [1 .. EntryBytes(t) -> Byte]
  PROVE  DifferIn(Merge(t, c, x, b), b, EntryBytes(t), EntryOffset(t, c), EntryNibbles(t, c))
<1>1. CASE t = "Fat12"
  <2>1. x < 4096
    BY SMT, <1>1, FatTableAssumption
  <2>2. b \in [1 .. 2 -> Byte]
    BY <1>1 DEF EntryBytes
  <2>3. DifferIn(Merge12(c, x, b), b, 2, EntryOffset("Fat12", c), EntryNibbles("Fat12", c))
    BY <2>1, <2>2, Kept12
  <2> QED
    BY <1>1, <2>3 DEF EntryBytes, Merge
<1>2. CASE t = "Fat16"
  <2>1. x < 65536
    BY SMT, <1>2, FatTableAssumption
  <2>2. DifferIn(Bytes2(x), b, 2, EntryOffset("Fat16", c), EntryNibbles("Fat16", c))
    BY <2>1, Kept16
  <2> QED
    BY <1>2, <2>2 DEF EntryBytes, Merge
<1>3. CASE t = "Fat32"
  <2>1. x < 268435456
    BY SMT, <1>3, FatTableAssumption
  <2>2. b \in [1 .. 4 -> Byte]
    BY <1>3 DEF EntryBytes
  <2>3. DifferIn(Merge32(x, b), b, 4, EntryOffset("Fat32", c), EntryNibbles("Fat32", c))
    BY <2>1, <2>2, Kept32
  <2> QED
    BY <1>3, <2>3 DEF EntryBytes, Merge
<1> QED
  BY <1>1, <1>2, <1>3 DEF FatTypes

-----------------------------------------------------------------------------
(* The mounted volume is the one on the device.                            *)
MountedDisk ==
  /\ sector \in Sector
  /\ Mounted => Accepts(sector) /\ IsSound(Parse(sector)) /\ volume = Disk

(* Each copy of the FAT has the size that the boot sector says.            *)
TableSize(b) == FatSectors(b) * b.bytesPerSector
TableShape ==
  fat # <<>> =>
    /\ Accepts(sector) /\ IsSound(Parse(sector))
    /\ DOMAIN fat = 0 .. Parse(sector).fatCount - 1
    /\ \A k \in DOMAIN fat : fat[k] \in [0 .. TableSize(Parse(sector)) - 1 -> Byte]

(* A call writes a cluster's entry in one of the copies that are in use.   *)
Writing ==
  /\ pc \in {"idle", "read", "write", "info"}
  /\ write = [cluster |-> write.cluster, value |-> write.value, copy |-> write.copy,
              at |-> write.at, bytes |-> write.bytes]
  /\ pc # "idle" =>
       /\ Mounted /\ fat # <<>>
       /\ write.cluster \in ClusterNumbers /\ Storable(volume.type, write.value)
       /\ write.copy \in DOMAIN fat /\ write.copy \in Targets(volume)
  /\ pc # "write" => write.bytes = <<>>

(* What it has still to write to the copy.                                 *)
Pending ==
  pc = "write" =>
    /\ write.at \in Nat /\ write.bytes \in Seq(Byte) /\ write.bytes # <<>>
    /\ \A i \in 1 .. Len(write.bytes) :
         /\ write.at + i - 1 \in DOMAIN fat[write.copy]
         /\ \A h \in {0, 1} :
              Half(write.bytes[i], h) # Half(fat[write.copy][write.at + i - 1], h)
                => 2 * (write.at + i - 1) + h \in EntryNibbles(volume.type, write.cluster)

Counts == hint \in {"counted", "unknown"} /\ faults \in 0 .. MaxFaults

TableInv == MountedDisk /\ TableShape /\ Writing /\ Pending /\ Counts

-----------------------------------------------------------------------------
(* The table's steps are steps of the mounted volume, or leave it alone.   *)
LEMMA FatSpecIsSpec == FatSpec => Spec
<1>1. FatInit => Init
  BY DEF FatInit
<1>2. ASSUME [FatNext]_fatVars PROVE [Next]_geometryVars
  BY <1>2 DEF FatNext, fatVars, geometryVars, Next, MountVolume, RewriteSector, WriteFatEntry,
    ReadModify, WriteBlock, InvalidateFsInfo, Interrupt
<1> QED
  BY <1>1, <1>2, PTL DEF FatSpec, Spec

(* The volume of a sound boot sector.                                      *)
LEMMA DiskFields ==
  ASSUME MountedDisk, Mounted
  PROVE  /\ volume.type \in FatTypes /\ volume.bpb = Parse(sector)
         /\ volume.bpb.fatCount \in Nat \ {0} /\ volume.bpb.bytesPerSector \in Nat \ {0}
         /\ volume.bpb.active \in Nat /\ FatSectors(volume.bpb) \in Nat
         /\ TableSize(volume.bpb) \in Nat
<1>1. volume.bpb = Parse(sector)
  BY MountedVolume DEF MountedDisk, Disk
<1>2. /\ volume.bpb.fatCount \in Nat \ {0} /\ volume.bpb.bytesPerSector \in Nat \ {0}
      /\ volume.bpb.active \in Nat /\ FatSectors(volume.bpb) \in Nat
  BY <1>1, Fields DEF MountedDisk
<1> QED
  BY <1>1, <1>2 DEF Mounted, TableSize

(* The copies that a write goes through are copies the volume has.         *)
LEMMA CopiesInUse ==
  ASSUME MountedDisk, Mounted, RegionsInOrder
  PROVE  /\ ActiveFat(volume) \in Nat /\ LastFat(volume) \in Nat
         /\ ActiveFat(volume) <= LastFat(volume)
         /\ LastFat(volume) < volume.bpb.fatCount
<1>1. ActiveFat(volume) < volume.bpb.fatCount
  BY DEF RegionsInOrder
<1> QED
  BY <1>1, DiskFields DEF ActiveFat, LastFat

(* The bytes of a cluster's entry are bytes of the copy.                   *)
LEMMA EntryIsThere ==
  ASSUME MountedDisk, TableShape, Mounted, EveryClusterHasEntry, fat # <<>>,
         NEW k \in DOMAIN fat, NEW c \in ClusterNumbers
  PROVE  /\ c \in Nat
         /\ EntryOffset(volume.type, c) \in Nat
         /\ EntryBytes(volume.type) \in Nat \ {0}
         /\ EntryAt(volume, k, c) \in [1 .. EntryBytes(volume.type) -> Byte]
         /\ \A i \in 1 .. EntryBytes(volume.type) :
              EntryOffset(volume.type, c) + i - 1 \in DOMAIN fat[k]
<1>1. c \in Nat
  BY DEF ClusterNumbers
<1>2. EntryOffset(volume.type, c) \in Nat /\ EntryBytes(volume.type) \in Nat \ {0}
  BY <1>1 DEF EntryOffset, EntryBytes, Mounted, FatTypes
<1>3. EntryOffset(volume.type, c) + EntryBytes(volume.type) <= TableSize(volume.bpb)
  BY DEF EveryClusterHasEntry, TableSize
<1>4. fat[k] \in [0 .. TableSize(volume.bpb) - 1 -> Byte] /\ TableSize(volume.bpb) \in Nat
  BY DiskFields DEF TableShape
<1>5. ASSUME NEW i \in 1 .. EntryBytes(volume.type)
      PROVE  EntryOffset(volume.type, c) + i - 1 \in 0 .. TableSize(volume.bpb) - 1
  BY <1>2, <1>3, <1>4
<1>6. EntryAt(volume, k, c) \in [1 .. EntryBytes(volume.type) -> Byte]
  BY <1>4, <1>5 DEF EntryAt
<1> QED
  BY <1>1, <1>2, <1>4, <1>5, <1>6

(* What serialize_into accepts fits the entry.                             *)
LEMMA StorableFits ==
  ASSUME NEW t \in FatTypes, NEW e, Storable(t, e)
  PROVE  Raw(t, e) \in Nat /\ Raw(t, e) <= Mask[t]
<1>1. Mask[t] \in Nat /\ FirstReserved[t] \in Nat /\ Bad[t] \in Nat /\ EocMin[t] \in Nat
  BY SMT, FatTableAssumption, GeometryAssumption DEF FatTypes
<1>2. FirstReserved[t] <= Bad[t] /\ Bad[t] < EocMin[t] /\ EocMin[t] <= Mask[t]
  BY FatTableAssumption
<1>3. CASE e.kind = "free" \/ e.kind = "end"
  BY <1>1, <1>3 DEF Raw
<1>4. CASE e.kind = "bad"
  BY <1>1, <1>2, <1>4 DEF Raw
<1>5. CASE e.kind = "data" /\ e.next \in 2 .. FirstReserved[t] - 1
  BY <1>1, <1>2, <1>5 DEF Raw
<1>6. CASE e.kind = "reserved" /\ e.raw \in 0 .. Mask[t]
  BY <1>1, <1>6 DEF Raw
<1> QED
  BY <1>3, <1>4, <1>5, <1>6 DEF Storable

(* A block takes at least one byte.                                        *)
LEMMA BlockTakes ==
  ASSUME NEW a \in Nat, NEW n \in Nat \ {0}
  PROVE  InBlock(a, n) \in 1 .. n
<1>1. a % BlockSize \in Nat /\ a % BlockSize < BlockSize
  BY FatTableAssumption
<1> QED
  BY <1>1, FatTableAssumption DEF InBlock

-----------------------------------------------------------------------------
(* The invariant holds at first.                                           *)
LEMMA InitTable == FatInit => TableInv
<1> SUFFICES ASSUME FatInit PROVE TableInv
  OBVIOUS
<1>1. MountedDisk
  BY GeometryAssumption DEF FatInit, Init, MountedDisk, Mounted, NotMounted, FatTypes
<1>2. TableShape
  <2> SUFFICES ASSUME fat # <<>> PROVE TableShape
    BY DEF TableShape
  <2>1. sector \in Written /\ fat = Formatted(Disk)
    BY DEF FatInit
  <2>2. Accepts(sector) /\ IsSound(Parse(sector))
    BY <2>1, FatTableAssumption
  <2>3. Disk.bpb = Parse(sector)
    BY <2>2, MountedVolume DEF Disk
  <2>4. \A k \in 0 .. Parse(sector).fatCount - 1 :
          Formatted(Disk)[k] \in [0 .. TableSize(Parse(sector)) - 1 -> Byte]
    BY <2>3 DEF Formatted, TableSize, Byte
  <2>5. DOMAIN Formatted(Disk) = 0 .. Parse(sector).fatCount - 1
    BY <2>3 DEF Formatted
  <2> QED
    BY <2>1, <2>2, <2>4, <2>5 DEF TableShape
<1>3. Writing /\ Pending
  BY DEF FatInit, NoWrite, Writing, Pending
<1>4. Counts
  BY FatTableAssumption DEF FatInit, Counts
<1> QED
  BY <1>1, <1>2, <1>3, <1>4 DEF TableInv

(* Mounting, and rewriting the boot sector, keep the volume on the device. *)
LEMMA MountKeeps ==
  ASSUME TableInv, MountVolume
  PROVE  TableInv'
<1> USE DEF TableInv
<1>1. MountedDisk'
  <2>1. CASE Accepts(sector) /\ IsSound(Parse(sector))
    BY <2>1 DEF MountVolume, Mount, MountedDisk, Disk
  <2>2. CASE ~ (Accepts(sector) /\ IsSound(Parse(sector)))
    BY <2>2 DEF MountVolume, Mount, MountedDisk, FromBpb, Mounted, Rejected, FatTypes
  <2> QED
    BY <2>1, <2>2
<1>2. TableShape'
  BY DEF TableShape, MountVolume, Mount, tableVars
<1>3. Writing' /\ Pending' /\ Counts'
  BY DEF Writing, Pending, Counts, MountVolume, tableVars
<1> QED
  BY <1>1, <1>2, <1>3

(* Writing the boot sector back keeps it.                                  *)
LEMMA RewriteKeeps ==
  ASSUME TableInv, RewriteSector
  PROVE  TableInv'
<1> USE DEF TableInv
<1>1. Accepts(sector) /\ IsSound(Parse(sector)) /\ volume.bpb = Parse(sector) /\ sector \in Sector
  BY DiskFields DEF RewriteSector, Rewrite, MountedDisk, Mounted
<1>2. sector' = Serialize(Parse(sector), sector)
  BY <1>1 DEF RewriteSector, Rewrite
<1>3. sector' \in Sector /\ Accepts(sector') /\ Parse(sector') = Parse(sector)
  BY <1>1, <1>2, ParsedSerialized
<1>4. MountedDisk'
  BY <1>3 DEF MountedDisk, Mounted, RewriteSector, Rewrite, NotMounted, FatTypes
<1>5. TableShape'
  BY <1>1, <1>3 DEF TableShape, RewriteSector, tableVars
<1>6. Writing' /\ Pending' /\ Counts'
  BY DEF Writing, Pending, Counts, RewriteSector, tableVars
<1> QED
  BY <1>4, <1>5, <1>6

(* A call's first step picks a copy that is in use.                        *)
LEMMA WriteFatEntryKeeps ==
  ASSUME TableInv, RegionsInOrder, NEW c \in WrittenClusters, NEW e, WriteFatEntry(c, e)
  PROVE  TableInv'
<1> USE DEF TableInv
<1>1. Mounted /\ fat # <<>> /\ c \in ClusterNumbers
  BY DEF WriteFatEntry, Mounted, ClusterNumbers
<1>2. ActiveFat(volume) \in DOMAIN fat /\ ActiveFat(volume) \in Targets(volume)
  BY <1>1, CopiesInUse, DiskFields DEF Targets, TableShape
<1>3. write' = [cluster |-> c, value |-> e, copy |-> ActiveFat(volume), at |-> 0, bytes |-> <<>>]
  BY DEF WriteFatEntry, NoWrite
<1>4. Writing'
  <2>1. volume' = volume /\ fat' = fat /\ pc' = "read" /\ Storable(volume.type, e)
    BY DEF WriteFatEntry
  <2>2. Mounted' /\ ClusterNumbers' = ClusterNumbers /\ Targets(volume)' = Targets(volume)
    BY <1>1, <2>1 DEF Mounted, ClusterNumbers
  <2>3. write'.cluster = c /\ write'.value = e /\ write'.copy = ActiveFat(volume) /\ write'.bytes = <<>>
        /\ write'.at = 0
    BY <1>3
  <2>4. Storable(volume.type, write.value)'
    BY <2>1, <2>3
  <2> QED
    BY <1>1, <1>2, <1>3, <2>1, <2>2, <2>3, <2>4 DEF Writing
<1>5. MountedDisk' /\ TableShape' /\ Pending' /\ Counts'
  BY DEF MountedDisk, Mounted, Disk, TableShape, Pending, Counts, WriteFatEntry
<1> QED
  BY <1>4, <1>5

(* The bytes that were read and changed differ in the entry only.          *)
LEMMA ReadModifyKeeps ==
  ASSUME TableInv, EveryClusterHasEntry, ReadModify
  PROVE  TableInv'
<1> USE DEF TableInv
<1>1. /\ Mounted /\ fat # <<>> /\ write.cluster \in ClusterNumbers
      /\ Storable(volume.type, write.value)
      /\ write.copy \in DOMAIN fat /\ write.copy \in Targets(volume)
  BY DEF ReadModify, Writing
<1>2. PICK t \in FatTypes, c \in Nat, k \in DOMAIN fat, x \in Nat :
        /\ t = volume.type /\ c = write.cluster /\ k = write.copy
        /\ x = Raw(t, write.value) /\ x <= Mask[t]
  BY <1>1, EntryIsThere, StorableFits DEF Mounted
<1>3. PICK at, b, m :
        at = EntryOffset(t, c) /\ b = EntryAt(volume, k, c) /\ m = Merge(t, c, x, b)
  OBVIOUS
<1>4. /\ at \in Nat /\ EntryBytes(t) \in Nat \ {0} /\ b \in [1 .. EntryBytes(t) -> Byte]
      /\ \A i \in 1 .. EntryBytes(t) : at + i - 1 \in DOMAIN fat[k] /\ b[i] = fat[k][at + i - 1]
  BY <1>1, <1>2, <1>3, EntryIsThere DEF EntryAt
<1>5. DifferIn(m, b, EntryBytes(t), at, EntryNibbles(t, c))
  BY <1>2, <1>3, <1>4, MergedInEntry
<1>6. write' = [cluster |-> write.cluster, value |-> write.value, copy |-> write.copy,
                at |-> at, bytes |-> m]
  BY <1>2, <1>3 DEF ReadModify, Writing
<1>7. m # <<>> /\ m \in Seq(Byte) /\ Len(m) = EntryBytes(t)
  BY <1>4, <1>5 DEF DifferIn
<1>8. Writing'
  BY <1>1, <1>6 DEF Writing, ReadModify, Mounted, ClusterNumbers, MaxCluster, Targets, LastFat, ActiveFat, Mirroring, Storable
<1>9. Pending'
  <2>1. volume' = volume /\ fat' = fat
    BY DEF ReadModify
  <2>2. write'.at = at /\ write'.bytes = m /\ write'.copy = k /\ write'.cluster = c
    BY <1>2, <1>6
  <2>3. EntryNibbles(volume.type, write.cluster)' = EntryNibbles(t, c)
    BY <1>2, <2>1, <2>2
  <2>4. ASSUME NEW i \in 1 .. Len(m)
        PROVE  /\ at + i - 1 \in DOMAIN fat[k]
               /\ \A h \in {0, 1} : Half(m[i], h) # Half(fat[k][at + i - 1], h)
                    => 2 * (at + i - 1) + h \in EntryNibbles(t, c)
    BY <1>4, <1>5, <1>7 DEF DifferIn
  <2> QED
    BY <1>4, <1>7, <2>1, <2>2, <2>3, <2>4 DEF Pending
<1>10. MountedDisk' /\ TableShape' /\ Counts'
  BY DEF MountedDisk, Mounted, Disk, TableShape, Counts, ReadModify
<1> QED
  BY <1>8, <1>9, <1>10

(* What a block leaves to be written.                                      *)
LEMMA RestOfBytes ==
  ASSUME NEW s \in Seq(Byte), NEW n \in 1 .. Len(s), n < Len(s)
  PROVE  /\ SubSeq(s, n + 1, Len(s)) \in Seq(Byte)
         /\ SubSeq(s, n + 1, Len(s)) # <<>>
         /\ Len(SubSeq(s, n + 1, Len(s))) = Len(s) - n
         /\ \A i \in 1 .. Len(s) - n : SubSeq(s, n + 1, Len(s))[i] = s[i + n]
<1>1. Len(s) \in Nat /\ n + 1 \in 1 .. Len(s)
  OBVIOUS
<1>2. Len(SubSeq(s, n + 1, Len(s))) = Len(s) - n
  BY <1>1
<1>3. ASSUME NEW i \in 1 .. Len(s) - n
      PROVE  SubSeq(s, n + 1, Len(s))[i] = s[i + n] /\ s[i + n] \in Byte
  BY <1>1
<1>4. SubSeq(s, n + 1, Len(s)) \in Seq(Byte)
  BY <1>1
<1>5. SubSeq(s, n + 1, Len(s)) # <<>>
  <2> SUFFICES ASSUME SubSeq(s, n + 1, Len(s)) = <<>> PROVE FALSE
    OBVIOUS
  <2>1. Len(SubSeq(s, n + 1, Len(s))) = Len(<<>>)
    BY Zenon
  <2>2. Len(<<>>) = 0
    OBVIOUS
  <2>3. Len(s) - n = 0
    BY <1>2, <2>1, <2>2, Zenon
  <2> QED
    BY <1>1, <2>3
<1> QED
  BY <1>2, <1>3, <1>4, <1>5

(* A block writes the first n of the bytes and changes no other byte.      *)
LEMMA BlockWritten ==
  ASSUME TableInv, WriteBlock
  PROVE  \E n \in 1 .. Len(write.bytes) :
           /\ n = InBlock(Address(volume, write.copy, write.at), Len(write.bytes))
           /\ DOMAIN fat' = DOMAIN fat
           /\ \A k \in DOMAIN fat : DOMAIN fat'[k] = DOMAIN fat[k]
           /\ \A k \in DOMAIN fat : \A i \in DOMAIN fat[k] :
                fat'[k][i] = IF k = write.copy /\ i \in write.at .. write.at + n - 1
                             THEN write.bytes[i - write.at + 1] ELSE fat[k][i]
           /\ \/ /\ n < Len(write.bytes) /\ pc' = "write"
                 /\ write' = [write EXCEPT !.at = @ + n,
                                           !.bytes = SubSeq(write.bytes, n + 1, Len(write.bytes))]
              \/ /\ n = Len(write.bytes) /\ write.copy < LastFat(volume) /\ pc' = "read"
                 /\ write' = [write EXCEPT !.at = 0, !.bytes = <<>>, !.copy = @ + 1]
              \/ /\ n = Len(write.bytes) /\ ~ (write.copy < LastFat(volume)) /\ pc' = "info"
                 /\ write' = [write EXCEPT !.at = 0, !.bytes = <<>>]
<1>1. /\ pc = "write" /\ Mounted /\ fat # <<>> /\ write.copy \in DOMAIN fat
      /\ write.copy \in Targets(volume)
      /\ write.at \in Nat /\ write.bytes \in Seq(Byte) /\ write.bytes # <<>>
  BY DEF TableInv, Writing, Pending, WriteBlock
<1>2. PICK n : n = InBlock(Address(volume, write.copy, write.at), Len(write.bytes))
  OBVIOUS
<1>3. Address(volume, write.copy, write.at) \in Nat
  <2>1. volume.fatStart \in Nat /\ write.copy \in Nat
    BY <1>1, MountedVolume, Fields DEF TableInv, MountedDisk, TableShape, Disk
  <2>2. FatSectors(volume.bpb) \in Nat /\ volume.bpb.bytesPerSector \in Nat
    BY <1>1, DiskFields DEF TableInv
  <2>3. FatStart(volume, write.copy) \in Nat
    BY <2>1, <2>2 DEF FatStart
  <2> QED
    BY <1>1, <2>2, <2>3 DEF Address
<1>4. n \in 1 .. Len(write.bytes)
  BY <1>1, <1>2, <1>3, BlockTakes
<1>5. /\ DOMAIN fat' = DOMAIN fat
      /\ \A k \in DOMAIN fat : DOMAIN fat'[k] = DOMAIN fat[k]
      /\ \A k \in DOMAIN fat : \A i \in DOMAIN fat[k] :
           fat'[k][i] = IF k = write.copy /\ i \in write.at .. write.at + n - 1
                        THEN write.bytes[i - write.at + 1] ELSE fat[k][i]
  <2>1. PICK f : f = [i \in DOMAIN fat[write.copy] |->
                        IF i \in write.at .. write.at + n - 1
                        THEN write.bytes[i - write.at + 1] ELSE fat[write.copy][i]]
    OBVIOUS
  <2>2. fat' = [fat EXCEPT ![write.copy] = f]
    BY <1>2, <2>1 DEF WriteBlock
  <2>3. /\ DOMAIN fat' = DOMAIN fat
        /\ \A k \in DOMAIN fat : fat'[k] = IF k = write.copy THEN f ELSE fat[k]
    BY <2>2
  <2>4. DOMAIN f = DOMAIN fat[write.copy]
    BY <2>1
  <2>5. \A i \in DOMAIN fat[write.copy] :
          f[i] = IF i \in write.at .. write.at + n - 1
                 THEN write.bytes[i - write.at + 1] ELSE fat[write.copy][i]
    BY <2>1
  <2> QED
    BY <2>3, <2>4, <2>5
<1>6. CASE SubSeq(write.bytes, n + 1, Len(write.bytes)) # <<>>
  <2>1. n < Len(write.bytes)
    BY <1>1, <1>4, <1>6
  <2>2. /\ pc' = "write"
        /\ write' = [write EXCEPT !.at = @ + n,
                                  !.bytes = SubSeq(write.bytes, n + 1, Len(write.bytes))]
    BY <1>1, <1>2, <1>6 DEF WriteBlock
  <2> QED
    BY <1>2, <1>4, <1>5, <2>1, <2>2
<1>7. CASE SubSeq(write.bytes, n + 1, Len(write.bytes)) = <<>>
  <2>0. n = Len(write.bytes)
    BY <1>1, <1>4, <1>7, RestOfBytes
  <2>1. CASE write.copy < LastFat(volume)
    <3>1. pc' = "read" /\ write' = [write EXCEPT !.at = 0, !.bytes = <<>>, !.copy = @ + 1]
      BY <1>2, <1>7, <2>1 DEF WriteBlock
    <3> QED
      BY <1>2, <1>4, <1>5, <2>0, <2>1, <3>1
  <2>2. CASE ~ (write.copy < LastFat(volume))
    <3>1. pc' = "info" /\ write' = [write EXCEPT !.at = 0, !.bytes = <<>>]
      BY <1>2, <1>7, <2>2 DEF WriteBlock
    <3> QED
      BY <1>2, <1>4, <1>5, <2>0, <2>2, <3>1
  <2> QED
    BY <2>1, <2>2
<1> QED
  BY <1>6, <1>7

(* The two half bytes of a byte.                                           *)
LEMMA HalfBytes ==
  ASSUME NEW i \in Nat
  PROVE  /\ (2 * i) % 2 = 0 /\ (2 * i) \div 2 = i
         /\ (2 * i + 1) % 2 = 1 /\ (2 * i + 1) \div 2 = i
OBVIOUS

(* Writing a block keeps it: what is pending shrinks.                      *)
LEMMA WriteBlockKeeps ==
  ASSUME TableInv, RegionsInOrder, WriteBlock
  PROVE  TableInv'
<1>1. /\ pc = "write" /\ Mounted /\ fat # <<>>
      /\ write.cluster \in ClusterNumbers /\ Storable(volume.type, write.value)
      /\ write.copy \in DOMAIN fat /\ write.copy \in Targets(volume)
      /\ write = [cluster |-> write.cluster, value |-> write.value, copy |-> write.copy,
                  at |-> write.at, bytes |-> write.bytes]
      /\ write.at \in Nat /\ write.bytes \in Seq(Byte)
  BY DEF TableInv, Writing, Pending, WriteBlock
<1>2. UNCHANGED <<sector, volume, hint, faults>>
  BY DEF WriteBlock
<1>3. PICK n \in 1 .. Len(write.bytes) :
        /\ DOMAIN fat' = DOMAIN fat
        /\ \A k \in DOMAIN fat : DOMAIN fat'[k] = DOMAIN fat[k]
        /\ \A k \in DOMAIN fat : \A i \in DOMAIN fat[k] :
             fat'[k][i] = IF k = write.copy /\ i \in write.at .. write.at + n - 1
                          THEN write.bytes[i - write.at + 1] ELSE fat[k][i]
        /\ \/ /\ n < Len(write.bytes) /\ pc' = "write"
              /\ write' = [write EXCEPT !.at = @ + n,
                                        !.bytes = SubSeq(write.bytes, n + 1, Len(write.bytes))]
           \/ /\ write.copy < LastFat(volume) /\ pc' = "read"
              /\ write' = [write EXCEPT !.at = 0, !.bytes = <<>>, !.copy = @ + 1]
           \/ /\ pc' = "info" /\ write' = [write EXCEPT !.at = 0, !.bytes = <<>>]
  BY BlockWritten
<1>4. MountedDisk' /\ Counts'
  BY <1>2 DEF TableInv, MountedDisk, Mounted, Disk, Counts
<1>5. ASSUME NEW k \in DOMAIN fat
      PROVE  fat'[k] \in [0 .. TableSize(Parse(sector)) - 1 -> Byte]
  <2>1. fat[k] \in [0 .. TableSize(Parse(sector)) - 1 -> Byte]
    BY <1>1 DEF TableInv, TableShape
  <2>2. \A i \in DOMAIN fat[k] : fat'[k][i] \in Byte
    <3> SUFFICES ASSUME NEW i \in DOMAIN fat[k] PROVE fat'[k][i] \in Byte
      OBVIOUS
    <3>1. CASE k = write.copy /\ i \in write.at .. write.at + n - 1
      <4>1. i - write.at + 1 \in 1 .. Len(write.bytes)
        BY <1>1, <3>1
      <4>2. write.bytes[i - write.at + 1] \in Byte
        BY <1>1, <4>1
      <4> QED
        BY <1>3, <3>1, <4>2
    <3>2. CASE ~ (k = write.copy /\ i \in write.at .. write.at + n - 1)
      <4>1. fat'[k][i] = fat[k][i]
        BY <1>3, <3>2
      <4> QED
        BY <2>1, <4>1
    <3> QED
      BY <3>1, <3>2
  <2>3. fat'[k] = [i \in DOMAIN fat[k] |-> fat'[k][i]]
    BY <2>1, <1>3, <1>1 DEF WriteBlock
  <2> QED
    BY <2>1, <2>2, <2>3
<1>6. TableShape'
  BY <1>1, <1>2, <1>3, <1>5 DEF TableInv, TableShape
<1>7. fat' # <<>>
  <2>1. 0 \in DOMAIN fat
    BY <1>1, CopiesInUse, DiskFields DEF TableInv, TableShape
  <2> QED
    BY <2>1, <1>3
<1>8. Mounted' /\ ClusterNumbers' = ClusterNumbers /\ Targets(volume)' = Targets(volume)
  BY <1>1, <1>2 DEF Mounted, ClusterNumbers
<1>9. CASE /\ n < Len(write.bytes) /\ pc' = "write"
           /\ write' = [write EXCEPT !.at = @ + n,
                                     !.bytes = SubSeq(write.bytes, n + 1, Len(write.bytes))]
  <2>1. PICK rest : rest = SubSeq(write.bytes, n + 1, Len(write.bytes))
    OBVIOUS
  <2>2. /\ rest \in Seq(Byte) /\ rest # <<>> /\ Len(rest) = Len(write.bytes) - n
        /\ \A i \in 1 .. Len(rest) : rest[i] = write.bytes[i + n]
    <3>1. write.bytes \in Seq(Byte) /\ n < Len(write.bytes)
      BY <1>1, <1>9
    <3> QED
      BY <2>1, <3>1, RestOfBytes
  <2>3. /\ write' = [cluster |-> write.cluster, value |-> write.value, copy |-> write.copy,
                     at |-> write.at + n, bytes |-> rest]
    BY <1>1, <1>9, <2>1
  <2>4. Writing'
    BY <1>1, <1>2, <1>3, <1>7, <1>8, <1>9, <2>3 DEF Writing
  <2>5. ASSUME NEW i \in 1 .. Len(rest)
        PROVE  /\ write.at + n + i - 1 \in DOMAIN fat[write.copy]
               /\ fat'[write.copy][write.at + n + i - 1] = fat[write.copy][write.at + n + i - 1]
               /\ \A h \in {0, 1} :
                    Half(rest[i], h) # Half(fat[write.copy][write.at + n + i - 1], h)
                      => 2 * (write.at + n + i - 1) + h \in EntryNibbles(volume.type, write.cluster)
    <3>1. i + n \in 1 .. Len(write.bytes) /\ write.at + (i + n) - 1 = write.at + n + i - 1
      BY <1>1, <2>2
    <3>2. /\ write.at + (i + n) - 1 \in DOMAIN fat[write.copy]
          /\ \A h \in {0, 1} :
               Half(write.bytes[i + n], h) # Half(fat[write.copy][write.at + (i + n) - 1], h)
                 => 2 * (write.at + (i + n) - 1) + h \in EntryNibbles(volume.type, write.cluster)
      BY <1>1, <3>1 DEF TableInv, Pending
    <3>3. write.at + n + i - 1 \notin write.at .. write.at + n - 1
      BY <1>1
    <3>4. fat'[write.copy][write.at + n + i - 1] = fat[write.copy][write.at + n + i - 1]
      BY <1>1, <1>3, <3>1, <3>2, <3>3
    <3> QED
      BY <2>2, <3>1, <3>2, <3>4
  <2>6. Pending'
    <3>1. write'.at = write.at + n /\ write'.bytes = rest /\ write'.copy = write.copy
          /\ EntryNibbles(volume.type, write.cluster)' = EntryNibbles(volume.type, write.cluster)
      BY <2>3, <1>2
    <3>2. write.at + n \in Nat
      BY <1>1
    <3> QED
      BY <1>1, <1>3, <2>2, <2>5, <3>1, <3>2 DEF Pending
  <2> QED
    BY <1>4, <1>6, <2>4, <2>6 DEF TableInv
<1>10. CASE /\ write.copy < LastFat(volume) /\ pc' = "read"
            /\ write' = [write EXCEPT !.at = 0, !.bytes = <<>>, !.copy = @ + 1]
  <2>1. write.copy + 1 \in DOMAIN fat /\ write.copy + 1 \in Targets(volume)
    <3>1. /\ ActiveFat(volume) \in Nat /\ LastFat(volume) \in Nat
          /\ LastFat(volume) < volume.bpb.fatCount
      BY <1>1, CopiesInUse DEF TableInv
    <3>2. volume.bpb = Parse(sector) /\ volume.bpb.fatCount \in Nat
      BY <1>1, DiskFields DEF TableInv
    <3>3. DOMAIN fat = 0 .. volume.bpb.fatCount - 1
      BY <1>1, <3>2 DEF TableInv, TableShape
    <3>4. write.copy \in ActiveFat(volume) .. LastFat(volume)
      BY <1>1 DEF Targets
    <3>5. /\ write.copy + 1 \in ActiveFat(volume) .. LastFat(volume)
          /\ write.copy + 1 \in 0 .. volume.bpb.fatCount - 1
      BY <1>10, <3>1, <3>2, <3>4
    <3> QED
      BY <3>3, <3>5 DEF Targets
  <2>2. write' = [cluster |-> write.cluster, value |-> write.value, copy |-> write.copy + 1,
                  at |-> 0, bytes |-> <<>>]
    BY <1>1, <1>10
  <2>3. Writing'
    BY <1>1, <1>2, <1>3, <1>7, <1>8, <1>10, <2>1, <2>2 DEF Writing
  <2> QED
    BY <1>4, <1>6, <1>10, <2>3 DEF TableInv, Pending
<1>11. CASE pc' = "info" /\ write' = [write EXCEPT !.at = 0, !.bytes = <<>>]
  <2>1. write' = [cluster |-> write.cluster, value |-> write.value, copy |-> write.copy,
                  at |-> 0, bytes |-> <<>>]
    BY <1>1, <1>11
  <2>2. Writing'
    BY <1>1, <1>2, <1>3, <1>7, <1>8, <1>11, <2>1 DEF Writing
  <2> QED
    BY <1>4, <1>6, <1>11, <2>2 DEF TableInv, Pending
<1> QED
  BY <1>3, <1>9, <1>10, <1>11

(* The last step of a call, and a fault.                                   *)
LEMMA EndKeeps ==
  ASSUME TableInv, InvalidateFsInfo \/ Interrupt
  PROVE  TableInv'
<1> USE DEF TableInv
<1>1. pc' = "idle" /\ write' = NoWrite /\ UNCHANGED <<sector, volume, fat>>
  BY DEF InvalidateFsInfo, Interrupt
<1>2. Counts'
  BY FatTableAssumption DEF Counts, InvalidateFsInfo, Interrupt
<1>3. MountedDisk' /\ TableShape' /\ Pending'
  BY <1>1 DEF MountedDisk, Mounted, Disk, TableShape, Pending
<1>4. Writing'
  BY <1>1 DEF Writing, NoWrite
<1> QED
  BY <1>2, <1>3, <1>4

(* The invariant of the table.                                             *)
THEOREM TableInvariant == FatSpec => []TableInv
<1>1. FatSpec => [](EveryClusterHasEntry /\ RegionsInOrder)
  BY FatSpecIsSpec, EveryClusterHasEntryHolds, RegionsInOrderHolds, PTL
<1>2. ASSUME TableInv, EveryClusterHasEntry /\ RegionsInOrder, [FatNext]_fatVars
      PROVE  TableInv'
  <2>1. CASE UNCHANGED fatVars
    <3>1. MountedDisk' /\ TableShape' /\ Counts'
      BY <1>2, <2>1 DEF TableInv, MountedDisk, Mounted, Disk, TableShape, Counts, fatVars
    <3>2. Writing' /\ Pending'
      BY <1>2, <2>1 DEF TableInv, Writing, Pending, fatVars, Mounted, ClusterNumbers
    <3> QED
      BY <3>1, <3>2 DEF TableInv
  <2> QED
    BY <1>2, <2>1, MountKeeps, RewriteKeeps, WriteFatEntryKeeps, ReadModifyKeeps, WriteBlockKeeps,
      EndKeeps DEF FatNext
<1> QED
  BY <1>1, <1>2, InitTable, PTL DEF FatSpec

(* The table's state is always what its declarations say.                  *)
THEOREM TableTypeCorrect == FatSpec => []TableTypeOK
<1>1. ASSUME TableInv PROVE TableTypeOK
  <2>1. ASSUME NEW k \in DOMAIN fat, NEW i \in DOMAIN fat[k] PROVE fat[k][i] \in 0 .. 255
    <3>1. fat # <<>>
      BY <2>1
    <3> QED
      BY <1>1, <3>1 DEF TableInv, TableShape, Byte
  <2>2. hint \in {"counted", "unknown"} /\ faults \in 0 .. MaxFaults
    BY <1>1 DEF TableInv, Counts
  <2>3. /\ pc \in {"idle", "read", "write", "info"}
        /\ pc # "idle" => write.cluster \in ClusterNumbers /\ write.copy \in DOMAIN fat
        /\ pc = "write" <=> write.bytes # <<>>
    BY <1>1 DEF TableInv, Writing, Pending
  <2>4. \A i \in 1 .. Len(write.bytes) :
          write.bytes[i] \in 0 .. 255 /\ write.at + i - 1 \in DOMAIN fat[write.copy]
    <3>1. CASE pc = "write"
      <4>1. write.bytes \in Seq(Byte) /\ \A i \in 1 .. Len(write.bytes) :
              write.at + i - 1 \in DOMAIN fat[write.copy]
        BY <1>1, <3>1 DEF TableInv, Pending
      <4>2. \A i \in 1 .. Len(write.bytes) : write.bytes[i] \in Byte
        BY <4>1
      <4> QED
        BY <4>1, <4>2 DEF Byte
    <3>2. CASE pc # "write"
      BY <1>1, <3>2 DEF TableInv, Writing
    <3> QED
      BY <3>1, <3>2
  <2> QED
    BY <2>1, <2>2, <2>3, <2>4 DEF TableTypeOK
<1> QED
  BY <1>1, TableInvariant, PTL

(* No write changes a bit outside its entry, or a copy that is not in use. *)
THEOREM NeighboursKeptHolds == FatSpec => NeighboursKept
<1>1. ASSUME TableInv, [FatNext]_fatVars, NEW k \in DOMAIN fat, NEW i \in DOMAIN fat[k],
             fat'[k][i] # fat[k][i]
      PROVE  /\ k \in Targets(volume)
             /\ \A j \in {2 * i, 2 * i + 1} :
                  (Nibble(k, j))' # Nibble(k, j) => j \in EntryNibbles(volume.type, write.cluster)
  <2>1. WriteBlock
    BY <1>1 DEF FatNext, fatVars, MountVolume, RewriteSector, tableVars, WriteFatEntry, ReadModify,
      InvalidateFsInfo, Interrupt
  <2>2. /\ pc = "write" /\ write.copy \in Targets(volume) /\ fat # <<>>
        /\ write.at \in Nat /\ write.bytes \in Seq(Byte)
    BY <1>1, <2>1 DEF TableInv, Writing, Pending, WriteBlock
  <2>3. PICK n \in 1 .. Len(write.bytes) : \A l \in DOMAIN fat : \A o \in DOMAIN fat[l] :
          fat'[l][o] = IF l = write.copy /\ o \in write.at .. write.at + n - 1
                       THEN write.bytes[o - write.at + 1] ELSE fat[l][o]
    BY <1>1, <2>1, BlockWritten
  <2>4. k = write.copy /\ i \in write.at .. write.at + n - 1
        /\ fat'[k][i] = write.bytes[i - write.at + 1]
    BY <1>1, <2>3
  <2>5. PICK p \in 1 .. Len(write.bytes) : p = i - write.at + 1 /\ i = write.at + p - 1 /\ i \in Nat
    BY <2>2, <2>4
  <2>6. \A h \in {0, 1} : Half(fat'[k][i], h) # Half(fat[k][i], h)
                            => 2 * i + h \in EntryNibbles(volume.type, write.cluster)
    BY <1>1, <2>2, <2>4, <2>5 DEF TableInv, Pending
  <2>7. /\ Nibble(k, 2 * i) = Half(fat[k][i], 0) /\ (Nibble(k, 2 * i))' = Half(fat'[k][i], 0)
        /\ Nibble(k, 2 * i + 1) = Half(fat[k][i], 1) /\ (Nibble(k, 2 * i + 1))' = Half(fat'[k][i], 1)
    <3>1. (2 * i) % 2 = 0 /\ (2 * i) \div 2 = i /\ (2 * i + 1) % 2 = 1 /\ (2 * i + 1) \div 2 = i
      BY <2>5, HalfBytes
    <3> QED
      BY <3>1 DEF Nibble, Half
  <2> QED
    BY <2>2, <2>4, <2>6, <2>7
<1>2. TableInv /\ [FatNext]_fatVars =>
        [\A k \in DOMAIN fat : \A i \in DOMAIN fat[k] :
           fat'[k][i] # fat[k][i] =>
             /\ k \in Targets(volume)
             /\ \A j \in {2 * i, 2 * i + 1} :
                  (Nibble(k, j))' # Nibble(k, j) => j \in EntryNibbles(volume.type, write.cluster)]_fatVars
  BY <1>1
<1> QED
  BY <1>2, TableInvariant, PTL DEF FatSpec, NeighboursKept

-----------------------------------------------------------------------------
(* What the copies say between two device writes.  The entry of a cluster  *)
(* in the bytes of one copy:                                               *)
EntryOf(t, table, c) ==
  ParseEntry(t, c, [i \in 1 .. EntryBytes(t) |-> table[EntryOffset(t, c) + i - 1]])

(* A copy's byte once the bytes that are still to be written are there.    *)
ByteAfter(o) ==
  IF o \in write.at .. write.at + Len(write.bytes) - 1
    THEN write.bytes[o - write.at + 1] ELSE fat[write.copy][o]

(* The entries nobody writes are as they were stored, in all copies; the   *)
(* copies a call is through with hold its value, and the one it is writing *)
(* holds it once the rest of the bytes is written.                         *)
OthersStored ==
  fat # <<>> =>
    \A k \in Targets(Disk) : \A c \in (WrittenClusters \cap (2 .. MaxCluster(Disk))) \ cut :
      pc = "idle" \/ c # write.cluster => EntryOf(Disk.type, fat[k], c) = stored[c]
CopiesStored ==
  pc # "idle" => \A k \in Targets(Disk) :
    k < write.copy \/ pc = "info" => EntryOf(Disk.type, fat[k], write.cluster) = write.value
RestStores ==
  pc = "write" =>
    ParseEntry(Disk.type, write.cluster,
               [i \in 1 .. EntryBytes(Disk.type) |->
                  ByteAfter(EntryOffset(Disk.type, write.cluster) + i - 1)]) = write.value
CountsHold ==
  HasFsInfo(Disk) /\ hint = "counted" => \A c \in WrittenClusters : stored[c] = Free
WritesEntries ==
  /\ DOMAIN stored = WrittenClusters
  /\ pc # "idle" => write.cluster \in WrittenClusters /\ write.value \in Entries

StoredInv == WritesEntries /\ OthersStored /\ CopiesStored /\ RestStores /\ CountsHold

(* What parse makes of two bytes, by their half bytes.                     *)
LEMMA HalvesOfPair ==
  ASSUME NEW p \in Byte, NEW q \in Byte
  PROVE  /\ (p + 256 * q) % 4096 = p + 256 * (q % 16)
         /\ (p + 256 * q) \div 16 = p \div 16 + 16 * q
BY DEF Byte

(* A byte is its two halves.                                               *)
LEMMA HalvesOfByte ==
  ASSUME NEW p \in Byte, NEW q \in Byte, p % 16 = q % 16, p \div 16 = q \div 16
  PROVE  p = q
BY DEF Byte

(* Entries have no half byte in common.                                    *)
LEMMA NibblesApart ==
  ASSUME NEW t \in FatTypes, NEW c \in Nat, NEW d \in Nat, c # d
  PROVE  EntryNibbles(t, c) \cap EntryNibbles(t, d) = {}
<1>1. CASE t = "Fat12"
  BY <1>1 DEF EntryNibbles
<1>2. CASE t = "Fat16"
  BY <1>2 DEF EntryNibbles
<1>3. CASE t = "Fat32"
  BY <1>3 DEF EntryNibbles
<1> QED
  BY <1>1, <1>2, <1>3 DEF FatTypes

(* An entry depends on its own half bytes only.                            *)
LEMMA EntrySame ==
  ASSUME NEW t \in FatTypes, NEW c \in Nat, NEW f, NEW g,
         \A i \in 1 .. EntryBytes(t) :
           /\ f[EntryOffset(t, c) + i - 1] \in Byte
           /\ g[EntryOffset(t, c) + i - 1] \in Byte
           /\ \A h \in {0, 1} :
                2 * (EntryOffset(t, c) + i - 1) + h \in EntryNibbles(t, c) =>
                  Half(f[EntryOffset(t, c) + i - 1], h) = Half(g[EntryOffset(t, c) + i - 1], h)
  PROVE  EntryOf(t, f, c) = EntryOf(t, g, c)
<1> DEFINE a == [i \in 1 .. EntryBytes(t) |-> f[EntryOffset(t, c) + i - 1]]
           b == [i \in 1 .. EntryBytes(t) |-> g[EntryOffset(t, c) + i - 1]]
<1>1. SUFFICES Value(t, c, a) = Value(t, c, b)
  BY DEF EntryOf, ParseEntry
<1>2. /\ a \in [1 .. EntryBytes(t) -> Byte] /\ b \in [1 .. EntryBytes(t) -> Byte]
      /\ \A i \in 1 .. EntryBytes(t), h \in {0, 1} :
           2 * (EntryOffset(t, c) + i - 1) + h \in EntryNibbles(t, c) => Half(a[i], h) = Half(b[i], h)
  OBVIOUS
<1> HIDE DEF a, b
<1>3. CASE t = "Fat12"
  <2>0. EntryBytes(t) = 2 /\ EntryOffset(t, c) = c + c \div 2 /\ EntryNibbles(t, c) = 3 * c .. 3 * c + 2
    BY <1>3 DEF EntryBytes, EntryOffset, EntryNibbles
  <2>1. a[1] \in Byte /\ a[2] \in Byte /\ b[1] \in Byte /\ b[2] \in Byte
    BY <1>2, <2>0
  <2>2. PICK o \in Nat : o = c + c \div 2
    BY SMT
  <2>3. CASE c % 2 = 0
    <3>1. 2 * o = 3 * c
      BY <2>2, <2>3
    <3>2. Half(a[1], 0) = Half(b[1], 0) /\ Half(a[1], 1) = Half(b[1], 1) /\ Half(a[2], 0) = Half(b[2], 0)
      <4>1. /\ 1 \in 1 .. 2 /\ 2 \in 1 .. 2
            /\ 2 * (o + 1 - 1) + 0 \in 3 * c .. 3 * c + 2
            /\ 2 * (o + 1 - 1) + 1 \in 3 * c .. 3 * c + 2
            /\ 2 * (o + 2 - 1) + 0 \in 3 * c .. 3 * c + 2
        BY <3>1
      <4> QED
        BY <1>2, <2>0, <2>2, <4>1
    <3>3. a[1] = b[1] /\ a[2] % 16 = b[2] % 16
      BY <2>1, <3>2, HalvesOfByte DEF Half
    <3>4. Pair(a) % 4096 = Pair(b) % 4096
      BY <2>1, <3>3, HalvesOfPair DEF Pair
    <3> QED
      BY <1>3, <2>3, <3>4 DEF Value, Value12
  <2>4. CASE c % 2 # 0
    <3>1. 2 * o = 3 * c - 1
      BY <2>2, <2>4
    <3>2. Half(a[1], 1) = Half(b[1], 1) /\ Half(a[2], 0) = Half(b[2], 0) /\ Half(a[2], 1) = Half(b[2], 1)
      <4>1. /\ 1 \in 1 .. 2 /\ 2 \in 1 .. 2
            /\ 2 * (o + 1 - 1) + 1 \in 3 * c .. 3 * c + 2
            /\ 2 * (o + 2 - 1) + 0 \in 3 * c .. 3 * c + 2
            /\ 2 * (o + 2 - 1) + 1 \in 3 * c .. 3 * c + 2
        BY <3>1
      <4> QED
        BY <1>2, <2>0, <2>2, <4>1
    <3>3. a[2] = b[2] /\ a[1] \div 16 = b[1] \div 16
      BY <2>1, <3>2, HalvesOfByte DEF Half
    <3>4. Pair(a) \div 16 = Pair(b) \div 16
      BY <2>1, <3>3, HalvesOfPair DEF Pair
    <3> QED
      BY <1>3, <2>4, <3>4 DEF Value, Value12
  <2> QED
    BY <2>3, <2>4
<1>4. CASE t = "Fat16"
  <2>0. EntryBytes(t) = 2 /\ EntryOffset(t, c) = c * 2 /\ EntryNibbles(t, c) = 4 * c .. 4 * c + 3
    BY <1>4 DEF EntryBytes, EntryOffset, EntryNibbles
  <2>1. a[1] \in Byte /\ a[2] \in Byte /\ b[1] \in Byte /\ b[2] \in Byte
    BY <1>2, <2>0
  <2>2. \A i \in 1 .. 2, h \in {0, 1} : 2 * (c * 2 + i - 1) + h \in 4 * c .. 4 * c + 3
    OBVIOUS
  <2>3. \A i \in 1 .. 2, h \in {0, 1} : Half(a[i], h) = Half(b[i], h)
    BY <1>2, <2>0, <2>2
  <2>4. a[1] = b[1] /\ a[2] = b[2]
    BY <2>1, <2>3, HalvesOfByte DEF Half
  <2> QED
    BY <1>4, <2>4 DEF Value, Pair
<1>5. CASE t = "Fat32"
  <2>0. EntryBytes(t) = 4 /\ EntryOffset(t, c) = c * 4 /\ EntryNibbles(t, c) = 8 * c .. 8 * c + 6
    BY <1>5 DEF EntryBytes, EntryOffset, EntryNibbles
  <2>1. \A i \in 1 .. 4 : a[i] \in Byte /\ b[i] \in Byte
    BY <1>2, <2>0
  <2>2. \A i \in 1 .. 4, h \in {0, 1} :
          i # 4 \/ h = 0 => 2 * (c * 4 + i - 1) + h \in 8 * c .. 8 * c + 6
    OBVIOUS
  <2>3. \A i \in 1 .. 4, h \in {0, 1} : i # 4 \/ h = 0 => Half(a[i], h) = Half(b[i], h)
    BY <1>2, <2>0, <2>2
  <2>4. a[1] = b[1] /\ a[2] = b[2] /\ a[3] = b[3] /\ a[4] % 16 = b[4] % 16
    BY <2>1, <2>3, HalvesOfByte DEF Half
  <2> QED
    BY <1>5, <2>4 DEF Value, Value32
<1> QED
  BY <1>3, <1>4, <1>5 DEF FatTypes

(* The entries that a formatting program leaves are free.                  *)
LEMMA FormattedFree ==
  ASSUME NEW D, D = Disk, sector \in Sector, Accepts(sector), IsSound(Parse(sector)),
         NEW k \in 0 .. D.bpb.fatCount - 1, NEW c \in 2 .. MaxCluster(D),
         EntryOffset(D.type, c) + EntryBytes(D.type) <= FatSectors(D.bpb) * D.bpb.bytesPerSector
  PROVE  EntryOf(D.type, Formatted(D)[k], c) = Free
<1>1. D.bpb = Parse(sector) /\ D.type \in FatTypes
  BY MountedVolume DEF Disk, FatType, FatTypes
<1>2. PICK size \in Nat : size = FatSectors(D.bpb) * D.bpb.bytesPerSector
  BY <1>1, Fields
<1>3. c \in Nat /\ c >= 2
  OBVIOUS
<1>4. PICK t \in FatTypes : t = D.type
  BY <1>1
<1> DEFINE b == [i \in 1 .. EntryBytes(t) |-> Formatted(D)[k][EntryOffset(t, c) + i - 1]]
<1>5. \A o \in 0 .. size - 1 :
        Formatted(D)[k][o] = IF t = "Fat32" /\ o % 4 = 3 THEN 160
                             ELSE IF o < EntryOffset(t, 2) THEN 255 ELSE 0
  BY <1>2, <1>4 DEF Formatted
<1>6. Value(t, c, b) = 0
  <2>1. CASE t = "Fat12"
    <3>1. /\ c + c \div 2 \in 0 .. size - 1 /\ c + c \div 2 + 1 \in 0 .. size - 1
          /\ c + c \div 2 >= 3
      BY <1>2, <1>3, <1>4, <2>1 DEF EntryOffset, EntryBytes
    <3>2. EntryOffset(t, 2) = 3 /\ EntryBytes(t) = 2 /\ EntryOffset(t, c) = c + c \div 2
      BY <2>1 DEF EntryOffset, EntryBytes
    <3>3. b[1] = 0 /\ b[2] = 0
      BY <1>5, <2>1, <3>1, <3>2
    <3> HIDE DEF b
    <3>4. Pair(b) = 0
      BY <3>3 DEF Pair
    <3> QED
      BY <2>1, <3>4 DEF Value, Value12
  <2>2. CASE t = "Fat16"
    <3>1. c * 2 \in 0 .. size - 1 /\ c * 2 + 1 \in 0 .. size - 1 /\ c * 2 >= 4
      BY <1>2, <1>3, <1>4, <2>2 DEF EntryOffset, EntryBytes
    <3>2. EntryOffset(t, 2) = 4 /\ EntryBytes(t) = 2 /\ EntryOffset(t, c) = c * 2
      BY <2>2 DEF EntryOffset, EntryBytes
    <3>3. b[1] = 0 /\ b[2] = 0
      BY <1>5, <2>2, <3>1, <3>2
    <3> QED
      BY <2>2, <3>3 DEF Value, Pair
  <2>3. CASE t = "Fat32"
    <3>1. /\ \A i \in 0 .. 3 : c * 4 + i \in 0 .. size - 1
          /\ c * 4 >= 8
          /\ (c * 4) % 4 = 0 /\ (c * 4 + 1) % 4 = 1 /\ (c * 4 + 2) % 4 = 2 /\ (c * 4 + 3) % 4 = 3
      BY <1>2, <1>3, <1>4, <2>3 DEF EntryOffset, EntryBytes
    <3>2. EntryOffset(t, 2) = 8 /\ EntryBytes(t) = 4 /\ EntryOffset(t, c) = c * 4
      BY <2>3 DEF EntryOffset, EntryBytes
    <3>3. b[1] = 0 /\ b[2] = 0 /\ b[3] = 0 /\ b[4] = 160
      BY <1>5, <2>3, <3>1, <3>2
    <3> QED
      BY <2>3, <3>3 DEF Value, Value32
  <2> QED
    BY <2>1, <2>2, <2>3 DEF FatTypes
<1>7. EntryOf(t, Formatted(D)[k], c) = ParseEntry(t, c, b)
  BY DEF EntryOf
<1> HIDE DEF b
<1>8. ParseEntry(t, c, b) = Free
  BY <1>6, MarkersInOrder DEF ParseEntry
<1> QED
  BY <1>4, <1>7, <1>8

-----------------------------------------------------------------------------
(* The table of a volume and the copies in use, from its boot sector.      *)
LEMMA DiskTable ==
  ASSUME TableInv, EveryClusterHasEntry, RegionsInOrder, Mounted, fat # <<>>, NEW D, D = Disk
  PROVE  /\ volume = D /\ D.type \in FatTypes
         /\ Targets(D) \subseteq DOMAIN fat
         /\ ActiveFat(D) \in Nat /\ LastFat(D) \in Nat
         /\ ClusterNumbers = 2 .. MaxCluster(D)
         /\ \A k \in DOMAIN fat : \A o \in DOMAIN fat[k] : o \in Nat /\ fat[k][o] \in Byte
         /\ \A c \in 2 .. MaxCluster(D) :
              /\ c \in Nat
              /\ EntryOffset(D.type, c) \in Nat
              /\ \A k \in DOMAIN fat : \A i \in 1 .. EntryBytes(D.type) :
                   EntryOffset(D.type, c) + i - 1 \in DOMAIN fat[k]
<1>1. volume = D /\ D.type \in FatTypes
  BY DEF TableInv, MountedDisk, Mounted
<1>2. ActiveFat(D) \in Nat /\ LastFat(D) \in Nat /\ LastFat(D) < D.bpb.fatCount
  BY <1>1, CopiesInUse DEF TableInv
<1>3. D.bpb.fatCount \in Nat /\ D.bpb = Parse(sector)
  BY <1>1, DiskFields DEF TableInv
<1>4. DOMAIN fat = 0 .. D.bpb.fatCount - 1
  BY <1>3 DEF TableInv, TableShape
<1>5. Targets(D) \subseteq DOMAIN fat
  <2>1. ASSUME NEW k \in ActiveFat(D) .. LastFat(D) PROVE k \in 0 .. D.bpb.fatCount - 1
    BY <1>2, <1>3
  <2> QED
    BY <1>4, <2>1 DEF Targets
<1>6. ClusterNumbers = 2 .. MaxCluster(D)
  BY <1>1 DEF ClusterNumbers
<1>0. PICK size \in Nat : size = TableSize(Parse(sector))
  BY <1>1, <1>3, DiskFields DEF TableInv
<1>7. \A k \in DOMAIN fat : fat[k] \in [0 .. size - 1 -> Byte]
  BY <1>0 DEF TableInv, TableShape
<1>8. \A k \in DOMAIN fat : \A o \in DOMAIN fat[k] : o \in Nat /\ fat[k][o] \in Byte
  BY <1>7
<1>9. ASSUME NEW c \in ClusterNumbers
      PROVE  /\ c \in Nat
             /\ EntryOffset(volume.type, c) \in Nat
             /\ \A k \in DOMAIN fat : \A i \in 1 .. EntryBytes(volume.type) :
                  EntryOffset(volume.type, c) + i - 1 \in DOMAIN fat[k]
  <2>1. c \in Nat
    BY DEF ClusterNumbers
  <2>2. 0 \in DOMAIN fat
    BY <1>2, <1>3, <1>4
  <2> QED
    BY <2>1, <2>2, EntryIsThere DEF TableInv
<1> QED
  BY <1>1, <1>2, <1>5, <1>6, <1>8, <1>9

(* At first nothing has been written.                                      *)
LEMMA StoredInit ==
  ASSUME FatInit, TableInv PROVE StoredInv
<1>1. WritesEntries /\ CopiesStored /\ RestStores /\ CountsHold
  BY DEF FatInit, WritesEntries, CopiesStored, RestStores, CountsHold
<1>2. PICK D : D = Disk
  OBVIOUS
<1>3. SUFFICES ASSUME fat # <<>>, NEW k \in Targets(D),
                      NEW c \in WrittenClusters, c \in 2 .. MaxCluster(D)
               PROVE  EntryOf(D.type, fat[k], c) = stored[c]
  BY <1>1, <1>2 DEF StoredInv, OthersStored
<1>4. fat = Formatted(D) /\ sector \in Sector /\ Accepts(sector) /\ IsSound(Parse(sector))
  BY <1>2, <1>3 DEF FatInit, TableInv, TableShape, MountedDisk
<1>5. PICK b : b = Parse(sector)
  OBVIOUS
<1>6. D = FromBpb(b) /\ D.bpb = b
  BY <1>2, <1>4, <1>5, MountedVolume DEF Disk
<1>7. EntryOffset(D.type, c) + EntryBytes(D.type) <= FatSectors(D.bpb) * D.bpb.bytesPerSector
  BY <1>3, <1>4, <1>5, <1>6, EntryFits
<1>9. k \in 0 .. D.bpb.fatCount - 1
  <2>1. b.fatCount \in Nat \ {0} /\ b.active \in Nat /\ (b.private => b.active < b.fatCount)
    BY <1>4, <1>5, Fields DEF IsSound
  <2>2. ActiveFat(D) \in Nat /\ LastFat(D) \in Nat /\ LastFat(D) < b.fatCount
    BY <1>6, <2>1 DEF ActiveFat, LastFat, Mirroring
  <2> QED
    BY <1>3, <1>6, <2>1, <2>2 DEF Targets
<1>8. EntryOf(D.type, fat[k], c) = Free
  BY <1>2, <1>3, <1>4, <1>7, <1>9, FormattedFree
<1> QED
  BY <1>3, <1>8 DEF FatInit

(* Mounting and rewriting the boot sector leave the FAT as it is.          *)
LEMMA StoredSame ==
  ASSUME StoredInv, Disk' = Disk,
         UNCHANGED <<fat, hint, pc, write, stored, cut>>
  PROVE  StoredInv'
<1>1. PICK D : D = Disk /\ Disk' = D
  OBVIOUS
<1>2. OthersStored'
  BY <1>1 DEF StoredInv, OthersStored
<1>3. CopiesStored'
  BY <1>1 DEF StoredInv, CopiesStored
<1>4. RestStores'
  BY <1>1 DEF StoredInv, RestStores, ByteAfter
<1>5. CountsHold' /\ WritesEntries'
  BY <1>1 DEF StoredInv, CountsHold, WritesEntries
<1> QED
  BY <1>2, <1>3, <1>4, <1>5 DEF StoredInv

(* Mounting and writing the boot sector back change no FAT.                *)
LEMMA StoredMount ==
  ASSUME TableInv, StoredInv, MountVolume \/ RewriteSector
  PROVE  StoredInv'
<1>1. UNCHANGED <<fat, hint, pc, write, stored, cut>>
  BY DEF MountVolume, RewriteSector, tableVars
<1>2. CASE MountVolume
  <2>1. Disk' = Disk
    BY <1>2 DEF MountVolume, Mount, Disk
  <2> QED
    BY <1>1, <2>1, StoredSame
<1>3. CASE RewriteSector
  <2>1. Accepts(sector) /\ IsSound(Parse(sector)) /\ volume.bpb = Parse(sector) /\ sector \in Sector
    BY <1>3, DiskFields DEF TableInv, RewriteSector, Rewrite, MountedDisk, Mounted
  <2>2. sector' = Serialize(Parse(sector), sector)
    BY <1>3, <2>1 DEF RewriteSector, Rewrite
  <2>3. Parse(sector') = Parse(sector)
    BY <2>1, <2>2, ParsedSerialized
  <2>4. Disk' = Disk
    BY <2>3 DEF Disk
  <2> QED
    BY <1>1, <2>4, StoredSame
<1> QED
  BY <1>2, <1>3

(* A call that begins writes to none of the entries yet.                   *)
LEMMA StoredWrite ==
  ASSUME TableInv, EveryClusterHasEntry, RegionsInOrder, StoredInv,
         NEW c \in WrittenClusters, NEW e \in Entries, WriteFatEntry(c, e)
  PROVE  StoredInv'
<1>1. PICK D : D = Disk
  OBVIOUS
<1>2. /\ pc = "idle" /\ pc' = "read" /\ volume' = volume /\ sector' = sector /\ Mounted
      /\ UNCHANGED <<fat, hint, stored, cut>>
      /\ write'.cluster = c /\ write'.value = e /\ write'.copy = ActiveFat(volume)
  BY DEF WriteFatEntry, NoWrite, Mounted
<1>3. Disk' = D
  BY <1>1, <1>2 DEF Disk
<1>4. OthersStored'
  <2> SUFFICES ASSUME fat # <<>>, NEW k \in Targets(D),
                      NEW d \in (WrittenClusters \cap (2 .. MaxCluster(D))) \ cut
               PROVE  EntryOf(D.type, fat[k], d) = stored[d]
    BY <1>2, <1>3 DEF OthersStored
  <2> QED
    BY <1>1, <1>2 DEF StoredInv, OthersStored
<1>5. CopiesStored'
  <2>1. fat # <<>>
    BY DEF WriteFatEntry
  <2>2. volume = D /\ ActiveFat(D) \in Nat /\ LastFat(D) \in Nat
    BY <1>1, <1>2, <2>1, DiskTable
  <2>3. \A k \in Targets(D) : ~ (k < ActiveFat(D))
    BY <2>2 DEF Targets
  <2> QED
    BY <1>2, <1>3, <2>2, <2>3 DEF CopiesStored
<1>6. RestStores'
  BY <1>2 DEF RestStores
<1>7. CountsHold' /\ WritesEntries'
  BY <1>1, <1>2, <1>3 DEF StoredInv, CountsHold, WritesEntries
<1> QED
  BY <1>4, <1>5, <1>6, <1>7 DEF StoredInv

(* What is to be written stores the value.                                 *)
LEMMA StoredRead ==
  ASSUME TableInv, EveryClusterHasEntry, RegionsInOrder, StoredInv, ReadModify
  PROVE  StoredInv'
<1>0. /\ pc = "read" /\ pc' = "write" /\ Mounted /\ fat # <<>> /\ volume' = volume /\ sector' = sector
      /\ UNCHANGED <<fat, hint, stored, cut>>
      /\ write.cluster \in ClusterNumbers /\ Storable(volume.type, write.value)
      /\ write.copy \in DOMAIN fat
      /\ write.value \in Entries
  BY DEF TableInv, Writing, StoredInv, WritesEntries, ReadModify
<1>1. PICK D : D = Disk /\ Disk' = D /\ volume = D /\ D.type \in FatTypes
  <2>1. Disk' = Disk
    BY <1>0 DEF Disk
  <2> QED
    BY <1>0, <2>1, DiskTable
<1>2. PICK t \in FatTypes, c \in Nat, k \in DOMAIN fat, e \in Entries :
        /\ t = D.type /\ c = write.cluster /\ k = write.copy /\ e = write.value
  BY <1>0, <1>1, EntryIsThere DEF TableInv
<1>3. PICK at, b, m :
        at = EntryOffset(t, c) /\ b = EntryAt(volume, k, c) /\ m = Merge(t, c, Raw(t, e), b)
  OBVIOUS
<1>4. at \in Nat /\ EntryBytes(t) \in Nat \ {0} /\ b \in [1 .. EntryBytes(t) -> Byte]
  BY <1>0, <1>1, <1>2, <1>3, EntryIsThere DEF TableInv
<1>5. Storable(t, e) /\ Raw(t, e) \in Nat /\ Raw(t, e) <= Mask[t]
  BY <1>0, <1>1, <1>2, StorableFits
<1>6. m \in Seq(Byte) /\ Len(m) = EntryBytes(t)
  BY <1>2, <1>3, <1>4, <1>5, MergedInEntry DEF DifferIn
<1>7. e \in {Free, BadCluster, EndOfChain} \cup {Data(n) : n \in 2 .. FirstReserved[t] - 1}
  BY <1>5 DEF Entries, Storable, Data, Free, EndOfChain
<1>8. ParseEntry(t, c, m) = e
  <2>1. e \in Accepted(t) /\ e.kind # "reserved"
    BY <1>7 DEF Accepted, Free, BadCluster, EndOfChain, Data
  <2> QED
    BY <1>3, <1>4, <2>1, EntryIsReadBack
<1>9. /\ write'.cluster = c /\ write'.value = e /\ write'.copy = k
      /\ write'.at = at /\ write'.bytes = m
  BY <1>1, <1>2, <1>3 DEF ReadModify, TableInv, Writing
<1>10. \A i \in 1 .. EntryBytes(t) : (ByteAfter(at + i - 1))' = m[i]
  <2> SUFFICES ASSUME NEW i \in 1 .. EntryBytes(t) PROVE (ByteAfter(at + i - 1))' = m[i]
    OBVIOUS
  <2>1. PICK o \in at .. at + Len(m) - 1 : o = at + i - 1 /\ o - at + 1 = i
    BY <1>4, <1>6
  <2>2. (ByteAfter(o))' = m[o - at + 1]
    BY <1>9, <2>1 DEF ByteAfter
  <2> QED
    BY <2>1, <2>2
<1>11. RestStores'
  <2>1. m = [i \in 1 .. EntryBytes(t) |-> m[i]]
    BY <1>4, <1>6
  <2>2. [i \in 1 .. EntryBytes(t) |-> (ByteAfter(at + i - 1))'] = m
    BY <1>10, <2>1
  <2> QED
    BY <1>1, <1>2, <1>3, <1>8, <1>9, <2>2 DEF RestStores
<1>12. OthersStored'
  BY <1>0, <1>1, <1>2, <1>9 DEF StoredInv, OthersStored
<1>13. CopiesStored'
  BY <1>0, <1>1, <1>2, <1>9 DEF StoredInv, CopiesStored
<1>14. CountsHold' /\ WritesEntries'
  BY <1>0, <1>1, <1>2, <1>9 DEF StoredInv, CountsHold, WritesEntries
<1> QED
  BY <1>11, <1>12, <1>13, <1>14 DEF StoredInv

(* A block changes half bytes of the entry that is being written only.     *)
LEMMA BlockInEntry ==
  ASSUME TableInv, WriteBlock, NEW k \in DOMAIN fat, NEW o \in DOMAIN fat[k], o \in Nat,
         NEW h \in {0, 1}, Half(fat'[k][o], h) # Half(fat[k][o], h)
  PROVE  2 * o + h \in EntryNibbles(volume.type, write.cluster)
<1>1. /\ pc = "write" /\ write.at \in Nat /\ write.bytes \in Seq(Byte)
  BY DEF TableInv, Pending, WriteBlock
<1>2. PICK n \in 1 .. Len(write.bytes) : \A l \in DOMAIN fat : \A i \in DOMAIN fat[l] :
        fat'[l][i] = IF l = write.copy /\ i \in write.at .. write.at + n - 1
                     THEN write.bytes[i - write.at + 1] ELSE fat[l][i]
  BY BlockWritten
<1>3. k = write.copy /\ o \in write.at .. write.at + n - 1
      /\ fat'[k][o] = write.bytes[o - write.at + 1]
  BY <1>2
<1>4. PICK p \in 1 .. Len(write.bytes) : p = o - write.at + 1 /\ o = write.at + p - 1
  BY <1>1, <1>3
<1> QED
  BY <1>1, <1>3, <1>4 DEF TableInv, Pending

(* A block changes no other entry in any copy, and once the last block of  *)
(* a copy is there, the copy holds the value.                              *)
LEMMA BlockEntries ==
  ASSUME TableInv, EveryClusterHasEntry, RegionsInOrder, StoredInv, WriteBlock, NEW V, V = Disk
  PROVE  /\ \A k \in DOMAIN fat, d \in 2 .. MaxCluster(V) : d # write.cluster \/ k # write.copy =>
              EntryOf(V.type, fat'[k], d) = EntryOf(V.type, fat[k], d)
         /\ pc' # "write" => EntryOf(V.type, fat'[write.copy], write.cluster) = write.value
<1>0. /\ pc = "write" /\ Mounted /\ fat # <<>> /\ volume' = volume /\ sector' = sector
      /\ UNCHANGED <<hint, stored, cut>>
      /\ write.cluster \in ClusterNumbers /\ write.copy \in DOMAIN fat
      /\ write.copy \in Targets(volume)
      /\ write.cluster \in WrittenClusters /\ write.value \in Entries
      /\ write.at \in Nat /\ write.bytes \in Seq(Byte)
      /\ write = [cluster |-> write.cluster, value |-> write.value, copy |-> write.copy,
                  at |-> write.at, bytes |-> write.bytes]
  BY DEF TableInv, Writing, Pending, StoredInv, WritesEntries, WriteBlock
<1>1. PICK D : D = Disk /\ Disk' = D /\ volume = D /\ D.type \in FatTypes
  <2>1. Disk' = Disk
    BY <1>0 DEF Disk
  <2> QED
    BY <1>0, <2>1, DiskTable
<1>t. /\ Targets(D) \subseteq DOMAIN fat
      /\ ActiveFat(D) \in Nat /\ LastFat(D) \in Nat
      /\ ClusterNumbers = 2 .. MaxCluster(D)
      /\ \A k \in DOMAIN fat : \A o \in DOMAIN fat[k] : o \in Nat /\ fat[k][o] \in Byte
      /\ \A d \in 2 .. MaxCluster(D) :
           /\ d \in Nat
           /\ EntryOffset(D.type, d) \in Nat
           /\ \A k \in DOMAIN fat : \A i \in 1 .. EntryBytes(D.type) :
                EntryOffset(D.type, d) + i - 1 \in DOMAIN fat[k]
  BY <1>0, <1>1, DiskTable
<1>p. PICK t, c, copy, e, at, bytes :
        /\ t = D.type /\ c = write.cluster /\ copy = write.copy /\ e = write.value
        /\ at = write.at /\ bytes = write.bytes
  OBVIOUS
<1>2. /\ t = D.type /\ c = write.cluster /\ copy = write.copy /\ e = write.value
      /\ at = write.at /\ bytes = write.bytes
      /\ t \in FatTypes /\ c \in 2 .. MaxCluster(D) /\ copy \in Targets(D)
      /\ at \in Nat /\ bytes \in Seq(Byte)
  BY <1>0, <1>1, <1>p, <1>t
<1>a. at \in Nat
  BY <1>2
<1>3. PICK n \in 1 .. Len(bytes) :
        /\ DOMAIN fat' = DOMAIN fat
        /\ \A k \in DOMAIN fat : DOMAIN fat'[k] = DOMAIN fat[k]
        /\ \A k \in DOMAIN fat : \A i \in DOMAIN fat[k] :
             fat'[k][i] = IF k = copy /\ i \in at .. at + n - 1
                          THEN bytes[i - at + 1] ELSE fat[k][i]
        /\ \/ /\ n < Len(bytes) /\ pc' = "write"
              /\ write' = [write EXCEPT !.at = @ + n, !.bytes = SubSeq(bytes, n + 1, Len(bytes))]
           \/ /\ n = Len(bytes) /\ copy < LastFat(volume) /\ pc' = "read"
              /\ write' = [write EXCEPT !.at = 0, !.bytes = <<>>, !.copy = @ + 1]
           \/ /\ n = Len(bytes) /\ ~ (copy < LastFat(volume)) /\ pc' = "info"
              /\ write' = [write EXCEPT !.at = 0, !.bytes = <<>>]
  BY <1>2, BlockWritten
<1>4. write'.cluster = c /\ write'.value = e
  BY <1>0, <1>2, <1>3
<1>5. \A k \in DOMAIN fat : \A o \in DOMAIN fat[k] : fat'[k][o] \in Byte
  <2> SUFFICES ASSUME NEW k \in DOMAIN fat, NEW o \in DOMAIN fat[k] PROVE fat'[k][o] \in Byte
    OBVIOUS
  <2>1. CASE k = copy /\ o \in at .. at + n - 1
    <3>1. o - at + 1 \in 1 .. Len(bytes)
      BY <1>a, <2>1
    <3>2. bytes[o - at + 1] \in Byte
      BY <1>2, <3>1
    <3> QED
      BY <1>3, <2>1, <3>2
  <2>2. CASE ~ (k = copy /\ o \in at .. at + n - 1)
    BY <1>3, <1>t, <2>2
  <2> QED
    BY <2>1, <2>2
(* The entries of other clusters, and those of other copies, are kept.     *)
<1>6. ASSUME NEW k \in DOMAIN fat, NEW d \in 2 .. MaxCluster(D), d # c \/ k # copy
      PROVE  EntryOf(t, fat'[k], d) = EntryOf(t, fat[k], d)
  <2>1. ASSUME NEW o \in DOMAIN fat[k], NEW h \in {0, 1}, 2 * o + h \in EntryNibbles(t, d)
        PROVE  Half(fat'[k][o], h) = Half(fat[k][o], h)
    <3>1. CASE k # copy
      BY <1>3, <3>1
    <3>2. CASE d # c
      <4>1. 2 * o + h \notin EntryNibbles(t, c)
        BY <1>2, <1>t, <2>1, <3>2, NibblesApart
      <4>2. o \in Nat
        BY <1>t
      <4> QED
        BY <1>1, <1>2, <4>1, <4>2, BlockInEntry
    <3> QED
      BY <1>6, <3>1, <3>2
  <2>2. \A i \in 1 .. EntryBytes(t) :
          /\ EntryOffset(t, d) + i - 1 \in DOMAIN fat[k]
          /\ fat[k][EntryOffset(t, d) + i - 1] \in Byte
          /\ fat'[k][EntryOffset(t, d) + i - 1] \in Byte
    BY <1>2, <1>5, <1>t
  <2>3. d \in Nat
    BY <1>t
  <2> QED
    BY <1>2, <2>1, <2>2, <2>3, EntrySame
(* The bytes that will be there stay the same.                             *)
<1>7. ParseEntry(t, c, [i \in 1 .. EntryBytes(t) |-> ByteAfter(EntryOffset(t, c) + i - 1)]) = e
  BY <1>0, <1>1, <1>2 DEF StoredInv, RestStores
<1>8. ASSUME n = Len(bytes) PROVE EntryOf(t, fat'[copy], c) = e
  <2>1. ASSUME NEW o \in DOMAIN fat[copy] PROVE fat'[copy][o] = ByteAfter(o)
    BY <1>2, <1>3, <1>8, <1>t DEF ByteAfter
  <2>2. \A i \in 1 .. EntryBytes(t) :
          fat'[copy][EntryOffset(t, c) + i - 1] = ByteAfter(EntryOffset(t, c) + i - 1)
    BY <1>2, <1>t, <2>1
  <2> QED
    BY <1>7, <2>2 DEF EntryOf
<1> QED
  BY <1>1, <1>2, <1>3, <1>6, <1>8

(* A block that is written brings one copy closer to what is stored.       *)
LEMMA StoredBlock ==
  ASSUME TableInv, EveryClusterHasEntry, RegionsInOrder, StoredInv, WriteBlock
  PROVE  StoredInv'
<1>0. /\ pc = "write" /\ Mounted /\ fat # <<>> /\ volume' = volume /\ sector' = sector
      /\ UNCHANGED <<hint, stored, cut>>
      /\ write.cluster \in ClusterNumbers /\ write.copy \in DOMAIN fat
      /\ write.copy \in Targets(volume)
      /\ write.cluster \in WrittenClusters /\ write.value \in Entries
      /\ write.at \in Nat /\ write.bytes \in Seq(Byte)
      /\ write = [cluster |-> write.cluster, value |-> write.value, copy |-> write.copy,
                  at |-> write.at, bytes |-> write.bytes]
  BY DEF TableInv, Writing, Pending, StoredInv, WritesEntries, WriteBlock
<1>1. PICK D : D = Disk /\ Disk' = D /\ volume = D /\ D.type \in FatTypes
  <2>1. Disk' = Disk
    BY <1>0 DEF Disk
  <2> QED
    BY <1>0, <2>1, DiskTable
<1>t. /\ Targets(D) \subseteq DOMAIN fat
      /\ ActiveFat(D) \in Nat /\ LastFat(D) \in Nat
      /\ ClusterNumbers = 2 .. MaxCluster(D)
      /\ \A k \in DOMAIN fat : \A o \in DOMAIN fat[k] : o \in Nat /\ fat[k][o] \in Byte
      /\ \A d \in 2 .. MaxCluster(D) :
           /\ d \in Nat
           /\ EntryOffset(D.type, d) \in Nat
           /\ \A k \in DOMAIN fat : \A i \in 1 .. EntryBytes(D.type) :
                EntryOffset(D.type, d) + i - 1 \in DOMAIN fat[k]
  BY <1>0, <1>1, DiskTable
<1>p. PICK t, c, copy, e, at, bytes :
        /\ t = D.type /\ c = write.cluster /\ copy = write.copy /\ e = write.value
        /\ at = write.at /\ bytes = write.bytes
  OBVIOUS
<1>2. /\ t = D.type /\ c = write.cluster /\ copy = write.copy /\ e = write.value
      /\ at = write.at /\ bytes = write.bytes
      /\ t \in FatTypes /\ c \in 2 .. MaxCluster(D) /\ copy \in Targets(D)
      /\ at \in Nat /\ bytes \in Seq(Byte)
  BY <1>0, <1>1, <1>p, <1>t
<1>a. at \in Nat
  BY <1>2
<1>3. PICK n \in 1 .. Len(bytes) :
        /\ DOMAIN fat' = DOMAIN fat
        /\ \A k \in DOMAIN fat : DOMAIN fat'[k] = DOMAIN fat[k]
        /\ \A k \in DOMAIN fat : \A i \in DOMAIN fat[k] :
             fat'[k][i] = IF k = copy /\ i \in at .. at + n - 1
                          THEN bytes[i - at + 1] ELSE fat[k][i]
        /\ \/ /\ n < Len(bytes) /\ pc' = "write"
              /\ write' = [write EXCEPT !.at = @ + n, !.bytes = SubSeq(bytes, n + 1, Len(bytes))]
           \/ /\ n = Len(bytes) /\ copy < LastFat(volume) /\ pc' = "read"
              /\ write' = [write EXCEPT !.at = 0, !.bytes = <<>>, !.copy = @ + 1]
           \/ /\ n = Len(bytes) /\ ~ (copy < LastFat(volume)) /\ pc' = "info"
              /\ write' = [write EXCEPT !.at = 0, !.bytes = <<>>]
  BY <1>2, BlockWritten
<1>4. write'.cluster = c /\ write'.value = e
  BY <1>0, <1>2, <1>3
<1>6. ASSUME NEW k \in DOMAIN fat, NEW d \in 2 .. MaxCluster(D), d # c \/ k # copy
      PROVE  EntryOf(t, fat'[k], d) = EntryOf(t, fat[k], d)
  BY <1>1, <1>2, <1>6, BlockEntries
(* The bytes that will be there stay the same.                             *)
<1>7. ParseEntry(t, c, [i \in 1 .. EntryBytes(t) |-> ByteAfter(EntryOffset(t, c) + i - 1)]) = e
  BY <1>0, <1>1, <1>2 DEF StoredInv, RestStores
<1>8. ASSUME pc' # "write" PROVE EntryOf(t, fat'[copy], c) = e
  BY <1>1, <1>2, <1>8, BlockEntries
<1>9. ASSUME n < Len(bytes), write'.at = at + n, write'.bytes = SubSeq(bytes, n + 1, Len(bytes)),
             write'.copy = copy, NEW o \in DOMAIN fat[copy]
      PROVE  (ByteAfter(o))' = ByteAfter(o)
  <2>1. PICK rest \in Seq(Byte) :
          /\ rest = SubSeq(bytes, n + 1, Len(bytes)) /\ Len(rest) = Len(bytes) - n
          /\ \A i \in 1 .. Len(bytes) - n : rest[i] = bytes[i + n]
    BY <1>2, <1>9, RestOfBytes
  <2>2. o \in Nat
    BY <1>2, <1>t
  <2>3. (ByteAfter(o))' = IF o \in at + n .. at + n + Len(rest) - 1
                          THEN rest[o - (at + n) + 1] ELSE fat'[copy][o]
    BY <1>9, <2>1 DEF ByteAfter
  <2>4. ByteAfter(o) = IF o \in at .. at + Len(bytes) - 1 THEN bytes[o - at + 1] ELSE fat[copy][o]
    BY <1>2 DEF ByteAfter
  <2>5. fat'[copy][o] = IF o \in at .. at + n - 1 THEN bytes[o - at + 1] ELSE fat[copy][o]
    BY <1>2, <1>3, <1>t
  <2>l. PICK len \in Nat : len = Len(bytes) /\ n \in 1 .. len /\ n < len
    BY <1>9
  <2>m. Len(rest) = len - n
    BY <2>1, <2>l, Zenon
  <2>6. CASE o \in at + n .. at + Len(bytes) - 1
    <3>1. PICK p \in 1 .. Len(bytes) - n : p = o - (at + n) + 1 /\ p + n = o - at + 1
      <4>1. o - (at + n) + 1 \in 1 .. len - n /\ (o - (at + n) + 1) + n = o - at + 1
        BY <1>a, <2>2, <2>6, <2>l
      <4> QED
        BY <2>l, <4>1
    <3>2. rest[p] = bytes[o - at + 1]
      BY <2>1, <3>1
    <3>3. o \in at + n .. at + n + Len(rest) - 1 /\ o \in at .. at + Len(bytes) - 1
      BY <1>a, <2>2, <2>6, <2>l, <2>m
    <3> QED
      BY <2>3, <2>4, <3>1, <3>2, <3>3
  <2>7. CASE o \notin at + n .. at + Len(bytes) - 1
    <3>1. o \notin at + n .. at + n + Len(rest) - 1
      BY <1>a, <2>2, <2>7, <2>l, <2>m
    <3>2. o \in at .. at + n - 1 <=> o \in at .. at + Len(bytes) - 1
      BY <1>a, <2>2, <2>7, <2>l
    <3> QED
      BY <2>3, <2>4, <2>5, <3>1, <3>2
  <2> QED
    BY <2>6, <2>7
<1>10. OthersStored'
  <2> SUFFICES ASSUME NEW k \in Targets(D),
                      NEW d \in (WrittenClusters \cap (2 .. MaxCluster(D))) \ cut, d # c
               PROVE  EntryOf(t, fat'[k], d) = stored[d]
    <3>1. pc' # "idle"
      BY <1>3
    <3> QED
      BY <1>0, <1>1, <1>2, <1>4, <3>1 DEF OthersStored
  <2>1. EntryOf(t, fat'[k], d) = EntryOf(t, fat[k], d)
    BY <1>6, <1>t
  <2> QED
    BY <1>0, <1>1, <1>2, <2>1 DEF StoredInv, OthersStored
<1>11. \A k \in Targets(D) : k < copy => EntryOf(t, fat'[k], c) = e
  <2> SUFFICES ASSUME NEW k \in Targets(D), k < copy PROVE EntryOf(t, fat'[k], c) = e
    OBVIOUS
  <2>1. k # copy
    BY <1>2, <1>t DEF Targets
  <2>2. EntryOf(t, fat[k], c) = e
    BY <1>0, <1>1, <1>2 DEF StoredInv, CopiesStored
  <2> QED
    BY <1>2, <1>6, <1>t, <2>1, <2>2
<1>12. CountsHold' /\ WritesEntries'
  BY <1>0, <1>1, <1>2, <1>4 DEF StoredInv, CountsHold, WritesEntries
<1>13. CASE /\ n < Len(bytes) /\ pc' = "write"
            /\ write' = [write EXCEPT !.at = @ + n, !.bytes = SubSeq(bytes, n + 1, Len(bytes))]
  <2>1. write'.copy = copy /\ write'.at = at + n /\ write'.bytes = SubSeq(bytes, n + 1, Len(bytes))
    BY <1>0, <1>2, <1>13
  <2>2. CopiesStored'
    BY <1>1, <1>2, <1>4, <1>11, <1>13, <2>1 DEF CopiesStored
  <2>3. \A i \in 1 .. EntryBytes(t) :
          (ByteAfter(EntryOffset(t, c) + i - 1))' = ByteAfter(EntryOffset(t, c) + i - 1)
    <3> SUFFICES ASSUME NEW i \in 1 .. EntryBytes(t)
                 PROVE  (ByteAfter(EntryOffset(t, c) + i - 1))' = ByteAfter(EntryOffset(t, c) + i - 1)
      OBVIOUS
    <3>1. PICK o \in DOMAIN fat[copy] : o = EntryOffset(t, c) + i - 1
      BY <1>2, <1>t
    <3>2. (ByteAfter(o))' = ByteAfter(o)
      BY <1>9, <1>13, <2>1
    <3> QED
      BY <3>1, <3>2
  <2>4. RestStores'
    BY <1>1, <1>2, <1>4, <1>7, <2>3 DEF RestStores
  <2> QED
    BY <1>10, <1>12, <2>2, <2>4 DEF StoredInv
<1>14. CASE /\ n = Len(bytes) /\ copy < LastFat(volume) /\ pc' = "read"
            /\ write' = [write EXCEPT !.at = 0, !.bytes = <<>>, !.copy = @ + 1]
  <2>1. write'.copy = copy + 1
    BY <1>0, <1>2, <1>14
  <2>2. \A k \in Targets(D) : k < copy + 1 => k < copy \/ k = copy
    BY <1>2, <1>t DEF Targets
  <2>3. CopiesStored'
    BY <1>1, <1>2, <1>4, <1>8, <1>11, <1>14, <2>1, <2>2 DEF CopiesStored
  <2> QED
    BY <1>10, <1>12, <1>14, <2>3 DEF StoredInv, RestStores
<1>15. CASE /\ n = Len(bytes) /\ ~ (copy < LastFat(volume)) /\ pc' = "info"
            /\ write' = [write EXCEPT !.at = 0, !.bytes = <<>>]
  <2>1. \A k \in Targets(D) : k < copy \/ k = copy
    BY <1>1, <1>2, <1>15, <1>t DEF Targets
  <2>2. CopiesStored'
    BY <1>1, <1>2, <1>4, <1>8, <1>11, <1>15, <2>1 DEF CopiesStored
  <2> QED
    BY <1>10, <1>12, <1>15, <2>2 DEF StoredInv, RestStores
<1> QED
  BY <1>3, <1>13, <1>14, <1>15

(* A call that is complete has stored its value in every copy in use; one  *)
(* that is interrupted leaves the other entries alone.                     *)
LEMMA StoredEnd ==
  ASSUME TableInv, EveryClusterHasEntry, RegionsInOrder, StoredInv, InvalidateFsInfo \/ Interrupt
  PROVE  StoredInv'
<1>0. /\ pc # "idle" /\ pc' = "idle" /\ Mounted /\ fat # <<>> /\ volume' = volume /\ sector' = sector
      /\ fat' = fat /\ write.cluster \in WrittenClusters /\ write.value \in Entries
      /\ DOMAIN stored = WrittenClusters
  BY DEF TableInv, Writing, StoredInv, WritesEntries, InvalidateFsInfo, Interrupt
<1>1. PICK D : D = Disk /\ Disk' = D /\ volume = D
  <2>1. Disk' = Disk
    BY <1>0 DEF Disk
  <2> QED
    BY <1>0, <2>1, DiskTable
<1>2. CopiesStored' /\ RestStores'
  BY <1>0 DEF CopiesStored, RestStores
<1>3. CASE InvalidateFsInfo
  <2>1. /\ pc = "info" /\ stored' = [stored EXCEPT ![write.cluster] = write.value]
        /\ cut' = cut \ {write.cluster}
        /\ hint' = IF HasFsInfo(D) THEN "unknown" ELSE hint
    BY <1>1, <1>3 DEF InvalidateFsInfo
  <2>2. OthersStored'
    <3> SUFFICES ASSUME NEW k \in Targets(D),
                        NEW d \in (WrittenClusters \cap (2 .. MaxCluster(D))) \ cut'
                 PROVE  EntryOf(D.type, fat[k], d) = stored'[d]
      BY <1>0, <1>1 DEF OthersStored
    <3>1. CASE d = write.cluster
      BY <1>0, <1>1, <2>1, <3>1 DEF StoredInv, CopiesStored
    <3>2. CASE d # write.cluster
      BY <1>0, <1>1, <2>1, <3>2 DEF StoredInv, OthersStored
    <3> QED
      BY <3>1, <3>2
  <2>3. CountsHold' /\ WritesEntries'
    BY <1>0, <1>1, <2>1 DEF CountsHold, WritesEntries
  <2> QED
    BY <1>2, <2>2, <2>3 DEF StoredInv
<1>4. CASE Interrupt
  <2>1. stored' = stored /\ cut' = cut \cup {write.cluster} /\ hint' = hint
    BY <1>4 DEF Interrupt
  <2>2. OthersStored'
    BY <1>0, <1>1, <2>1 DEF StoredInv, OthersStored
  <2>3. CountsHold' /\ WritesEntries'
    BY <1>0, <1>1, <2>1 DEF StoredInv, CountsHold, WritesEntries
  <2> QED
    BY <1>2, <2>2, <2>3 DEF StoredInv
<1> QED
  BY <1>3, <1>4

(* What each copy says between two device writes is invariant.             *)
THEOREM StoredInvariant == FatSpec => []StoredInv
<1>1. FatSpec => [](EveryClusterHasEntry /\ RegionsInOrder)
  BY FatSpecIsSpec, EveryClusterHasEntryHolds, RegionsInOrderHolds, PTL
<1>2. ASSUME TableInv, EveryClusterHasEntry /\ RegionsInOrder, StoredInv, [FatNext]_fatVars
      PROVE  StoredInv'
  <2>1. CASE UNCHANGED fatVars
    <3>1. Disk' = Disk
      BY <2>1 DEF fatVars, Disk
    <3> QED
      BY <1>2, <2>1, <3>1, StoredSame DEF fatVars
  <2> QED
    BY <1>2, <2>1, StoredMount, StoredWrite, StoredRead, StoredBlock, StoredEnd DEF FatNext
<1>3. FatInit => StoredInv
  BY InitTable, StoredInit
<1> QED
  BY <1>1, <1>2, <1>3, TableInvariant, PTL DEF FatSpec

(* Between calls every copy of the FAT that is in use holds the entry that *)
(* was stored last, except where a write was interrupted, and FSInfo       *)
(* offers no count of free clusters that a completed write made wrong.     *)
THEOREM SettledHolds == FatSpec => []SettledBetweenCalls
<1>1. FatSpec => [](EveryClusterHasEntry /\ RegionsInOrder)
  BY FatSpecIsSpec, EveryClusterHasEntryHolds, RegionsInOrderHolds, PTL
<1>2. ASSUME TableInv, EveryClusterHasEntry /\ RegionsInOrder, StoredInv PROVE SettledBetweenCalls
  <2> SUFFICES ASSUME Mounted, pc = "idle" PROVE SettledBetweenCalls
    BY DEF SettledBetweenCalls
  <2>1. PICK D : D = Disk /\ volume = D
    BY <1>2 DEF TableInv, MountedDisk
  <2>2. HasFsInfo(volume) /\ hint = "counted" => \A c \in WrittenClusters : stored[c] = Free
    BY <1>2, <2>1 DEF StoredInv, CountsHold
  <2>3. ASSUME NEW c \in (WrittenClusters \cap ClusterNumbers) \ cut, NEW k \in DOMAIN fat,
               Mirroring(volume) \/ k = ActiveFat(volume)
        PROVE  FatEntryAt(volume, k, c) = stored[c]
    <3>1. fat # <<>>
      BY <2>3
    <3>2. ActiveFat(D) \in Nat /\ LastFat(D) \in Nat
      BY <1>2, <2>1, <3>1, DiskTable
    <3>3. DOMAIN fat = 0 .. D.bpb.fatCount - 1 /\ D.bpb.fatCount \in Nat
      BY <1>2, <2>1, <3>1, DiskFields DEF TableInv, TableShape
    <3>4. k \in Targets(D)
      BY <2>1, <2>3, <3>2, <3>3 DEF Targets, ActiveFat, LastFat
    <3>5. c \in 2 .. MaxCluster(D)
      BY <2>1, <2>3 DEF ClusterNumbers
    <3>6. EntryOf(D.type, fat[k], c) = stored[c]
      BY <1>2, <2>1, <2>3, <3>1, <3>4, <3>5 DEF StoredInv, OthersStored
    <3> QED
      BY <2>1, <3>6 DEF FatEntryAt, EntryAt, EntryOf
  <2> QED
    BY <2>2, <2>3 DEF SettledBetweenCalls
<1> QED
  BY <1>1, <1>2, TableInvariant, StoredInvariant, PTL

-----------------------------------------------------------------------------
(* The bytes implement the table of entries.  Between the blocks of a copy *)
(* the bytes to come are all of the entry's, unless it lies across blocks. *)
TornInv ==
  pc = "write" =>
    \/ write.at = EntryOffset(Disk.type, write.cluster) /\ Len(write.bytes) = EntryBytes(Disk.type)
    \/ Straddles(Disk, write.copy, write.cluster)

(* Reading begins a write in which nothing has been torn yet.              *)
LEMMA TornRead ==
  ASSUME TableInv, EveryClusterHasEntry, RegionsInOrder, StoredInv, ReadModify
  PROVE  TornInv'
<1>0. /\ Mounted /\ fat # <<>> /\ volume' = volume /\ sector' = sector
      /\ write.cluster \in ClusterNumbers /\ Storable(volume.type, write.value)
      /\ write.copy \in DOMAIN fat
  BY DEF TableInv, Writing, ReadModify
<1>1. PICK D : D = Disk /\ Disk' = D /\ volume = D /\ D.type \in FatTypes
  <2>1. Disk' = Disk
    BY <1>0 DEF Disk
  <2> QED
    BY <1>0, <2>1, DiskTable
<1>2. PICK t, c, k, e :
        /\ t \in FatTypes /\ c \in Nat /\ k \in DOMAIN fat
        /\ t = D.type /\ c = write.cluster /\ k = write.copy /\ e = write.value
  BY <1>0, <1>1, EntryIsThere DEF TableInv
<1>3. PICK b, m : b = EntryAt(volume, k, c) /\ m = Merge(t, c, Raw(t, e), b)
  OBVIOUS
<1>4. b \in [1 .. EntryBytes(t) -> Byte]
  BY <1>0, <1>1, <1>2, <1>3, EntryIsThere DEF TableInv
<1>5. Raw(t, e) \in Nat /\ Raw(t, e) <= Mask[t]
  BY <1>0, <1>1, <1>2, StorableFits
<1>6. Len(m) = EntryBytes(t)
  BY <1>2, <1>3, <1>4, <1>5, MergedInEntry DEF DifferIn
<1>7. write'.cluster = c /\ write'.at = EntryOffset(t, c) /\ write'.bytes = m
  BY <1>1, <1>2, <1>3 DEF ReadModify, TableInv, Writing
<1> QED
  BY <1>1, <1>2, <1>6, <1>7 DEF TornInv

(* A block that leaves bytes to write is one of an entry across blocks.    *)
LEMMA TornBlock ==
  ASSUME TableInv, EveryClusterHasEntry, RegionsInOrder, TornInv, WriteBlock, pc' = "write"
  PROVE  Straddles(Disk, write.copy, write.cluster)
<1>1. pc = "write" /\ Mounted /\ fat # <<>> /\ write.bytes \in Seq(Byte)
  BY DEF TableInv, Writing, Pending, WriteBlock
<1>2. PICK D : D = Disk /\ volume = D
  BY <1>1, DiskTable
<1>3. InBlock(Address(volume, write.copy, write.at), Len(write.bytes)) < Len(write.bytes)
  BY BlockWritten
<1>4. CASE write.at = EntryOffset(D.type, write.cluster) /\ Len(write.bytes) = EntryBytes(D.type)
  BY <1>2, <1>3, <1>4 DEF Straddles
<1> QED
  BY <1>1, <1>2, <1>4 DEF TornInv

(* Every step keeps TornInv.                                               *)
LEMMA TornStep ==
  ASSUME TableInv, EveryClusterHasEntry, RegionsInOrder, StoredInv, TornInv, [FatNext]_fatVars
  PROVE  TornInv'
<1>1. CASE UNCHANGED fatVars
  <2>1. Disk' = Disk
    BY <1>1 DEF fatVars, Disk
  <2> QED
    BY <1>1, <2>1 DEF fatVars, TornInv
<1>2. CASE ReadModify
  BY <1>2, TornRead
<1>3. CASE WriteBlock
  <2>1. PICK D, k, c : D = Disk /\ k = write.copy /\ c = write.cluster
    OBVIOUS
  <2>2. Disk' = D
    BY <1>3, <2>1 DEF WriteBlock, Disk
  <2>3. pc' = "write" => write'.copy = k /\ write'.cluster = c
    BY <1>3, <2>1, BlockWritten DEF TableInv, Writing
  <2>4. pc' = "write" => Straddles(D, k, c)
    BY <1>3, <2>1, TornBlock
  <2> QED
    BY <2>2, <2>3, <2>4 DEF TornInv
<1>4. CASE pc' # "write"
  BY <1>4 DEF TornInv
<1>5. CASE MountVolume \/ RewriteSector
  BY <1>4, <1>5 DEF MountVolume, RewriteSector, tableVars, TableInv, Writing
<1> QED
  BY <1>1, <1>2, <1>3, <1>4, <1>5 DEF FatNext, WriteFatEntry, InvalidateFsInfo, Interrupt

(* Mounting and rewriting the boot sector leave it describing one volume.  *)
LEMMA DiskSame ==
  ASSUME TableInv, [FatNext]_fatVars PROVE Disk' = Disk
<1>1. CASE MountVolume \/ sector' = sector
  BY <1>1 DEF MountVolume, Mount, Disk
<1>2. CASE RewriteSector
  <2>1. Accepts(sector) /\ IsSound(Parse(sector)) /\ volume.bpb = Parse(sector) /\ sector \in Sector
    BY <1>2, DiskFields DEF TableInv, RewriteSector, Rewrite, MountedDisk, Mounted
  <2>2. sector' = Serialize(Parse(sector), sector)
    BY <1>2, <2>1 DEF RewriteSector, Rewrite
  <2>3. Parse(sector') = Parse(sector)
    BY <2>1, <2>2, ParsedSerialized
  <2> QED
    BY <2>3 DEF Disk
<1> QED
  BY <1>1, <1>2 DEF FatNext, fatVars, WriteFatEntry, ReadModify, WriteBlock, InvalidateFsInfo, Interrupt

(* The table of entries, by the volume that the boot sector describes.     *)
LEMMA CellsAre ==
  ASSUME TableInv, NEW D, D = Disk
  PROVE  /\ Described = D
         /\ Clusters = IF fat = <<>> THEN {} ELSE 2 .. MaxCluster(D)
         /\ CellsNow = [k \in DOMAIN fat |-> [c \in Clusters |-> EntryOf(D.type, fat[k], c)]]
         /\ StraddlingNow = {kc \in (DOMAIN fat) \X Clusters : Straddles(D, kc[1], kc[2])}
<1>1. Described = D
  BY DEF TableInv, MountedDisk, Described
<1>2. \A k, c : FatEntryAt(Described, k, c) = EntryOf(D.type, fat[k], c)
  BY <1>1 DEF FatEntryAt, EntryAt, EntryOf
<1>3. CellsNow = [k \in DOMAIN fat |-> [c \in Clusters |-> EntryOf(D.type, fat[k], c)]]
  BY <1>2 DEF CellsNow
<1> QED
  BY <1>1, <1>3 DEF Clusters, StraddlingNow

(* The cells depend on the bytes and the volume alone.                     *)
LEMMA CellsKept ==
  ASSUME TableInv, TableInv', Disk' = Disk, fat' = fat
  PROVE  CellsNow' = CellsNow /\ StraddlingNow' = StraddlingNow
<1>1. Described = Disk /\ Described' = Disk
  BY DEF TableInv, MountedDisk, Described
<1>2. PICK D : D = Described /\ D = Described'
  BY <1>1
<1>3. Clusters' = Clusters
  BY <1>2 DEF Clusters
<1>4. \A k, c : FatEntryAt(D, k, c)' = FatEntryAt(D, k, c)
  BY DEF FatEntryAt, EntryAt
<1> QED
  BY <1>2, <1>3, <1>4 DEF CellsNow, StraddlingNow

(* What a call is writing is not nothing.                                  *)
LEMMA WritingSomething ==
  ASSUME NEW c, NEW e, NEW left
  PROVE  [cluster |-> c, value |-> e, left |-> left] # NoWrite
<1>1. "left" \notin DOMAIN NoWrite
  BY DEF NoWrite
<1>2. "left" \in DOMAIN [cluster |-> c, value |-> e, left |-> left]
  OBVIOUS
<1> QED
  BY <1>1, <1>2

(* write_fat_entry begins a call, that is through with no copy yet.        *)
LEMMA BeginsCall ==
  ASSUME TableInv, TableInv', EveryClusterHasEntry, RegionsInOrder, [FatNext]_fatVars,
         NEW c \in WrittenClusters, NEW e \in Entries, WriteFatEntry(c, e)
  PROVE  Cells!Begin
<1>1. /\ pc = "idle" /\ pc' = "read" /\ volume' = volume /\ fat' = fat /\ fat # <<>> /\ Mounted
      /\ write'.cluster = c /\ write'.value = e /\ write'.copy = ActiveFat(volume)
  BY DEF WriteFatEntry, NoWrite, Mounted
<1>2. CellsNow' = CellsNow /\ StraddlingNow' = StraddlingNow
  BY <1>1, DiskSame, CellsKept
<1>3. WritingNow' = [cluster |-> c, value |-> e, left |-> ActiveFat(volume) .. LastFat(volume)]
  BY <1>1 DEF WritingNow
<1>4. WritingNow' # NoWrite
  BY <1>3, WritingSomething
<1>5. WritingNow = NoWrite
  BY <1>1 DEF WritingNow
<1>6. WritingNow'.left \subseteq DOMAIN CellsNow
  BY <1>1, <1>3, DiskTable DEF Targets, CellsNow
<1> QED
  BY <1>2, <1>4, <1>5, <1>6 DEF Cells!Begin

(* It ends, complete or not.                                               *)
LEMMA EndsCall ==
  ASSUME TableInv, TableInv', [FatNext]_fatVars, InvalidateFsInfo \/ Interrupt
  PROVE  Cells!Return
<1>1. pc # "idle" /\ pc' = "idle" /\ fat' = fat
  BY DEF InvalidateFsInfo, Interrupt
<1>2. CellsNow' = CellsNow /\ StraddlingNow' = StraddlingNow
  BY <1>1, DiskSame, CellsKept
<1>3. WritingNow # NoWrite
  BY <1>1, WritingSomething DEF WritingNow
<1>4. WritingNow' = NoWrite
  BY <1>1 DEF WritingNow
<1> QED
  BY <1>2, <1>3, <1>4 DEF Cells!Return

(* What is left to do when a copy has been written.                        *)
LEMMA OneCopyLess ==
  ASSUME NEW k \in Nat, NEW l \in Nat, k <= l
  PROVE  /\ k \in k .. l /\ \A j \in k .. l : k <= j
         /\ k < l => (k .. l) \ {k} = (k + 1) .. l
         /\ ~ (k < l) => (k .. l) \ {k} = {}
OBVIOUS

(* A block stores the entry of one copy, or leaves it half written.        *)
LEMMA WritesCell ==
  ASSUME TableInv, TableInv', EveryClusterHasEntry, RegionsInOrder, StoredInv, TornInv,
         [FatNext]_fatVars, WriteBlock
  PROVE  \E k \in DOMAIN CellsNow : Cells!Store(k) \/ Cells!Tear(k)
<1>0. /\ pc = "write" /\ Mounted /\ fat # <<>> /\ volume' = volume
      /\ write.cluster \in ClusterNumbers /\ write.copy \in DOMAIN fat
      /\ write.copy \in Targets(volume)
      /\ write = [cluster |-> write.cluster, value |-> write.value, copy |-> write.copy,
                  at |-> write.at, bytes |-> write.bytes]
  BY DEF TableInv, Writing, WriteBlock
<1>1. PICK D : D = Disk /\ Disk' = D /\ volume = D
  BY <1>0, DiskSame, DiskTable
<1>t. /\ Targets(D) \subseteq DOMAIN fat
      /\ ActiveFat(D) \in Nat /\ LastFat(D) \in Nat
      /\ ClusterNumbers = 2 .. MaxCluster(D)
  BY <1>0, <1>1, DiskTable
<1>2. PICK c, copy, e, f, g :
        c = write.cluster /\ copy = write.copy /\ e = write.value /\ f = fat /\ g = fat'
  OBVIOUS
<1>3. copy \in Nat /\ copy <= LastFat(D) /\ copy \in DOMAIN f /\ c \in 2 .. MaxCluster(D)
  BY <1>0, <1>1, <1>t, <1>2 DEF Targets
<1>4. /\ DOMAIN g = DOMAIN f
      /\ \/ pc' = "write" /\ write'.copy = copy
         \/ pc' = "read" /\ copy < LastFat(D) /\ write'.copy = copy + 1
         \/ pc' = "info" /\ ~ (copy < LastFat(D)) /\ write'.copy = copy
      /\ write'.cluster = c /\ write'.value = e
  BY <1>0, <1>1, <1>2, BlockWritten
<1>5. f # <<>> /\ g # <<>>
  <2>1. copy \notin DOMAIN <<>>
    OBVIOUS
  <2> QED
    BY <1>0, <1>2, <1>3, <1>4, <2>1
<1> DEFINE CL == 2 .. MaxCluster(D)
           before == [k \in DOMAIN f |-> [d \in CL |-> EntryOf(D.type, f[k], d)]]
           after == [k \in DOMAIN f |-> [d \in CL |-> EntryOf(D.type, g[k], d)]]
<1>6. /\ Clusters = CL /\ CellsNow = before
      /\ StraddlingNow = {kc \in (DOMAIN f) \X CL : Straddles(D, kc[1], kc[2])}
  BY <1>1, <1>2, <1>5, CellsAre
<1>7. /\ CellsNow' = after
      /\ StraddlingNow' = {kc \in (DOMAIN f) \X CL : Straddles(D, kc[1], kc[2])}
  <2>1. Described' = D
    BY <1>1 DEF TableInv, MountedDisk, Described
  <2>2. Clusters' = CL
    BY <1>2, <1>5, <2>1 DEF Clusters
  <2>3. \A k, d : FatEntryAt(D, k, d)' = EntryOf(D.type, g[k], d)
    BY <1>2 DEF FatEntryAt, EntryAt, EntryOf
  <2>4. CellsNow' = after
    BY <1>2, <1>4, <2>1, <2>2, <2>3 DEF CellsNow
  <2> QED
    BY <1>2, <1>4, <2>1, <2>2, <2>4 DEF StraddlingNow
<1>8. \A k \in DOMAIN f, d \in CL : d # c \/ k # copy =>
        EntryOf(D.type, g[k], d) = EntryOf(D.type, f[k], d)
  BY <1>1, <1>2, BlockEntries
<1>9. after = [before EXCEPT ![copy][c] = after[copy][c]]
  <2>1. PICK cells, b, x : cells = [before EXCEPT ![copy][c] = x] /\ x = after[copy][c]
                            /\ b = [before[copy] EXCEPT ![c] = x] /\ cells = [before EXCEPT ![copy] = b]
    OBVIOUS
  <2>2. \A k \in DOMAIN f, d \in CL : k # copy \/ d # c => after[k][d] = before[k][d]
    BY <1>8
  <2>3. \A k \in DOMAIN f : cells[k] = IF k = copy THEN b ELSE before[k]
    BY <2>1
  <2>4. \A d \in CL : b[d] = IF d = c THEN x ELSE before[copy][d]
    BY <1>3, <2>1
  <2>5. b = [d \in CL |-> b[d]] /\ cells = [k \in DOMAIN f |-> cells[k]]
    BY <1>3, <2>1
  <2>6. \A k \in DOMAIN f : after[k] = [d \in CL |-> after[k][d]] /\ before[k] = [d \in CL |-> before[k][d]]
    OBVIOUS
  <2>7. after = [k \in DOMAIN f |-> after[k]]
    OBVIOUS
  <2> HIDE DEF after, before, CL
  <2>8. \A k \in DOMAIN f : k # copy => after[k] = before[k]
    BY <2>2, <2>6
  <2>9. after[copy] = b
    BY <1>3, <2>1, <2>2, <2>4, <2>5, <2>6
  <2> QED
    BY <2>1, <2>3, <2>5, <2>7, <2>8, <2>9
<1>10. WritingNow = [cluster |-> c, value |-> e, left |-> copy .. LastFat(D)]
  BY <1>0, <1>1, <1>2 DEF WritingNow
<1>11. Cells!IsNext(copy)
  BY <1>3, <1>10, OneCopyLess, WritingSomething DEF Cells!IsNext
<1>12. CASE pc' = "write"
  <2>1. <<copy, c>> \in StraddlingNow
    BY <1>1, <1>2, <1>3, <1>6, <1>12, TornBlock
  <2>2. WritingNow' = WritingNow
    BY <1>1, <1>0, <1>4, <1>10, <1>12 DEF WritingNow
  <2>3. CellsNow' = [CellsNow EXCEPT ![copy][c] = CellsNow'[copy][c]]
    BY <1>6, <1>7, <1>9
  <2>4. Cells!Tear(copy)
    BY <1>6, <1>7, <1>10, <1>11, <2>1, <2>2, <2>3 DEF Cells!Tear
  <2> QED
    BY <1>3, <1>6, <2>4
<1>13. CASE pc' # "write"
  <2>1. after[copy][c] = e
    BY <1>1, <1>2, <1>3, <1>13, BlockEntries
  <2>2. CellsNow' = [CellsNow EXCEPT ![copy][c] = e]
    BY <1>6, <1>7, <1>9, <2>1
  <2>3. WritingNow' = [cluster |-> c, value |-> e, left |-> (copy .. LastFat(D)) \ {copy}]
    <3>1. CASE pc' = "read" /\ copy < LastFat(D) /\ write'.copy = copy + 1
      <4>1. WritingNow' = [cluster |-> c, value |-> e, left |-> copy + 1 .. LastFat(D)]
        BY <1>0, <1>1, <1>4, <3>1 DEF WritingNow
      <4>2. (copy .. LastFat(D)) \ {copy} = copy + 1 .. LastFat(D)
        BY <1>3, <1>t, <3>1, OneCopyLess
      <4> QED
        BY <4>1, <4>2
    <3>2. CASE pc' = "info" /\ ~ (copy < LastFat(D))
      <4>1. WritingNow' = [cluster |-> c, value |-> e, left |-> {}]
        BY <1>0, <1>1, <1>4, <3>2 DEF WritingNow
      <4>2. (copy .. LastFat(D)) \ {copy} = {}
        BY <1>3, <1>t, <3>2, OneCopyLess
      <4> QED
        BY <4>1, <4>2
    <3> QED
      BY <1>4, <1>13, <3>1, <3>2
  <2>4. WritingNow' = [WritingNow EXCEPT !.left = @ \ {copy}]
    <3>1. PICK left, less : left = copy .. LastFat(D) /\ less = left \ {copy}
      OBVIOUS
    <3>2. WritingNow = [cluster |-> c, value |-> e, left |-> left]
      BY <1>10, <3>1
    <3>3. WritingNow' = [cluster |-> c, value |-> e, left |-> less]
      BY <2>3, <3>1
    <3>4. \A w : w = [cluster |-> c, value |-> e, left |-> left] =>
            [w EXCEPT !.left = less] = [cluster |-> c, value |-> e, left |-> less]
      OBVIOUS
    <3>5. WritingNow.left = left
      BY <3>2
    <3> QED
      BY <3>1, <3>2, <3>3, <3>4, <3>5, Zenon
  <2>5. WritingNow.cluster = c /\ WritingNow.value = e
    BY <1>10
  <2>6. StraddlingNow' = StraddlingNow
    BY <1>6, <1>7
  <2>7. CellsNow' = [CellsNow EXCEPT ![copy][WritingNow.cluster] = WritingNow.value]
    BY <2>2, <2>5
  <2>8. Cells!Store(copy)
    BY <1>11, <2>4, <2>6, <2>7 DEF Cells!Store
  <2> QED
    BY <1>3, <1>6, <2>8
<1> QED
  BY <1>12, <1>13

(* write_fat_entry, reading and merging bytes that entries share and       *)
(* writing them in blocks, implements a table of entries of which one at a *)
(* time is written, in one copy after the other.                           *)
THEOREM CellsAreRefined == FatSpec => CellsRefined
<1>1. FatSpec => [](EveryClusterHasEntry /\ RegionsInOrder)
  BY FatSpecIsSpec, EveryClusterHasEntryHolds, RegionsInOrderHolds, PTL
<1>2. ASSUME TableInv, TableInv', EveryClusterHasEntry /\ RegionsInOrder, StoredInv, TornInv,
             [FatNext]_fatVars
      PROVE  [Cells!CellsNext]_(Cells!cellVars)
  <2>1. CASE UNCHANGED fatVars \/ MountVolume \/ RewriteSector \/ ReadModify
    <3>1. fat' = fat
      BY <2>1 DEF fatVars, tableVars, MountVolume, RewriteSector, ReadModify
    <3>2. CellsNow' = CellsNow /\ StraddlingNow' = StraddlingNow
      BY <1>2, <3>1, DiskSame, CellsKept
    <3>3. WritingNow' = WritingNow
      BY <1>2, <2>1 DEF fatVars, tableVars, MountVolume, RewriteSector, ReadModify, WritingNow,
        TableInv, Writing
    <3> QED
      BY <3>2, <3>3 DEF Cells!cellVars
  <2>2. CASE \E c \in WrittenClusters, e \in Entries : WriteFatEntry(c, e)
    BY <1>2, <2>2, BeginsCall DEF Cells!CellsNext
  <2>3. CASE WriteBlock
    BY <1>2, <2>3, WritesCell DEF Cells!CellsNext
  <2>4. CASE InvalidateFsInfo \/ Interrupt
    BY <1>2, <2>4, EndsCall DEF Cells!CellsNext
  <2> QED
    BY <1>2, <2>1, <2>2, <2>3, <2>4 DEF FatNext
<1>3. FatInit => WritingNow = NoWrite /\ TornInv
  BY DEF FatInit, WritingNow, TornInv
<1>4. ASSUME TableInv, EveryClusterHasEntry /\ RegionsInOrder, StoredInv, TornInv, [FatNext]_fatVars
      PROVE  TornInv'
  BY <1>4, TornStep
<1> QED
  BY <1>1, <1>2, <1>3, <1>4, TableInvariant, StoredInvariant, PTL
    DEF FatSpec, CellsRefined, Cells!CellsSpec
=============================================================================
