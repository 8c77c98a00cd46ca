----------------------------- MODULE MCFatTable -----------------------------
(* Boot sectors of volumes of a few sectors, with the limits of the format *)
(* scaled down, and a FAT12, a FAT16 and two FAT32 volumes to write to.    *)
EXTENDS FatTable

Layouts ==
  [signature : {TRUE}, bytesPerSector : {4, 8}, sectorsPerCluster : {1, 2},
   reserved : {1, 2}, fatCount : {1, 2}, rootEntries : {0, 1, 3}, total16 : {0, 6, 12, 20},
   total32 : {0, 17, 21, 24}, perFat16 : {0, 1, 2, 9}, perFat32 : {0, 6, 15},
   private : BOOLEAN, active : {0, 1}, rootCluster : {0, 2}, fsInfo : {1}]

(* Sectors that parse has to refuse, one way or several.                   *)
Defects ==
  [signature : BOOLEAN, bytesPerSector : {3, 8}, sectorsPerCluster : {1, 3},
   reserved : {0, 1}, fatCount : {0, 1}, rootEntries : {1}, total16 : {0, 12},
   total32 : {0, 17}, perFat16 : {0, 2}, perFat32 : {0, 6},
   private : {FALSE}, active : {0}, rootCluster : {2}, fsInfo : {1}]

Sectors == Layouts \cup Defects
FirstReservedOf == [Fat12 |-> 4, Fat16 |-> 9, Fat32 |-> 13]
BadOf == [Fat12 |-> 4087, Fat16 |-> 65527, Fat32 |-> 268435447]
EocMinOf == [Fat12 |-> 4088, Fat16 |-> 65528, Fat32 |-> 268435448]
MaskOf == [Fat12 |-> 4095, Fat16 |-> 65535, Fat32 |-> 268435455]

(* A FAT12 and a FAT16 volume, and FAT32 volumes with and without          *)
(* mirroring; all have two copies of the FAT.                              *)
WrittenSectors ==
  {s \in Sectors :
     /\ s.bytesPerSector = 8 /\ s.sectorsPerCluster = 1 /\ s.fatCount = 2
     /\ s.perFat32 = 6 /\ s.active = 1 /\ s.rootCluster = 2 /\ s.rootEntries <= 1
     /\ <<s.perFat16, s.total16, s.total32, s.reserved, s.private>> \in
          {<<1, 6, 17, 1, FALSE>>, <<2, 12, 17, 1, FALSE>>,
           <<0, 0, 24, 2, FALSE>>, <<0, 0, 24, 2, TRUE>>}
     /\ Accepts(s) /\ IsSound(Parse(s))}
=============================================================================
