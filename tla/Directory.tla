------------------------------ MODULE Directory ------------------------------
(***************************************************************************)
(* One directory and the calls of DirectoryWrite that change it:           *)
(* create_file, create_directory, remove_file, remove_directory and a      *)
(* rename inside the directory, slot by slot.                              *)
(*                                                                         *)
(* A slot is a 32-byte directory entry: the end marker, a deleted entry,   *)
(* one piece of a long name (LfnEntry) or a short entry.  What the code    *)
(* computes from the characters of a name is given by constants; ShortName *)
(* computes them.  Clusters are only free or not free: FatChains models    *)
(* how they are allocated and freed.                                       *)
(***************************************************************************)
EXTENDS Integers, Sequences, FiniteSetsExt

CONSTANTS
  Names, ShortNames,
  CanonicalShort,    \* canonical_short_name: name -> ShortNames or NoName
  Aliases,           \* short_alias: name -> sequence, by ordinal
  Answers,           \* ShortName::matches: short name -> the names it answers to
  LfnCount,          \* name -> number of LfnEntry slots it takes
  Checksum,          \* short name -> checksum
  NoName,
  Clusters,          \* clusters free at the start
  NoCluster,
  SlotsPerCluster,
  FixedRoot,         \* TRUE: DirectoryLocation::FixedRoot, which cannot grow
  InitialSlots,
  MaxFaults          \* bound on device errors and power cuts

ASSUME DirectoryAssumption ==
  /\ NoName \notin Names \cup ShortNames
  /\ CanonicalShort \in [Names -> ShortNames \cup {NoName}]
  /\ \A n, m \in Names : CanonicalShort[n] = CanonicalShort[m] /\ n # m => CanonicalShort[n] = NoName
  /\ Aliases \in [Names -> Seq(ShortNames)]
  /\ Answers \in [ShortNames -> SUBSET Names]
  /\ \A n \in Names : CanonicalShort[n] # NoName => n \in Answers[CanonicalShort[n]]
  /\ LfnCount \in [Names -> Nat \ {0}]
  /\ NoCluster \notin Clusters /\ IsFiniteSet(Clusters)
  /\ SlotsPerCluster \in Nat \ {0}
  /\ FixedRoot \in BOOLEAN
  /\ InitialSlots \in Nat
  /\ MaxFaults \in Nat

VARIABLES
  slots,    \* the directory, as long as its chain or its fixed area
  free,     \* clusters free_chain released, or never allocated
  phase,    \* where the call is
  call,     \* its kind, names, cluster, and the slots of its source entry
  run,      \* slots that create_named_entry has still to write
  at,       \* index of the next slot to write or delete
  faults,   \* device errors and power cuts so far
  failed,   \* history: some call was interrupted or returned an error
  spoilt    \* history: clusters that a rename left with two entries, or that
            \* create_directory freed after an error

dirVars == <<slots, free, phase, call, run, at, faults, failed, spoilt>>

End == [tag |-> "end"]
Deleted == [tag |-> "deleted"]
Lfn(n, ordinal, short) ==
  [tag |-> "lfn", name |-> n, ordinal |-> ordinal,
   last |-> ordinal = LfnCount[n], sum |-> Checksum[short]]
Short(short, c) == [tag |-> "short", short |-> short, cluster |-> c]

NoCall == [kind |-> "none", name |-> NoName, source |-> NoName,
           ref |-> NoCluster, start |-> 0, last |-> 0]

-----------------------------------------------------------------------------
(* Reading a directory: everything before the first end marker, or before  *)
(* the end of the chain.                                                   *)
EndIndex == Min({i \in 1 .. Len(slots) : slots[i] = End} \cup {Len(slots) + 1})
Entries == {i \in 1 .. EndIndex - 1 : slots[i].tag = "short"}

(* LfnSequence: the pieces right before the short entry, from the one      *)
(* flagged last down to ordinal 1, with the checksum of the short name.    *)
LongNameBefore(i, short, n) ==
  /\ LfnCount[n] < i
  /\ \A k \in 1 .. LfnCount[n] : slots[i - k] = Lfn(n, k, short)
HasLongName(i, n) == LongNameBefore(i, slots[i].short, n)

(* ReadDir: an entry is listed under its long name, or else under its      *)
(* short name.                                                             *)
Shows(i, n) ==
  \/ HasLongName(i, n)
  \/ slots[i].short = CanonicalShort[n] /\ \A m \in Names : ~ HasLongName(i, m)
Shown(i) ==
  IF \E n \in Names : Shows(i, n) THEN CHOOSE n \in Names : Shows(i, n) ELSE NoName

(* find_entry                                                              *)
Matches(i, n) == HasLongName(i, n) \/ n \in Answers[slots[i].short]
Found(n) == {i \in Entries : Matches(i, n)}
FindEntry(n) == Min(Found(n))
(* Mutant: the long name is not part of the found entry.                   *)
LfnStart_ShortOnly(i) == i

LfnStart(i) ==
  LET long == {n \in Names : HasLongName(i, n)}
  IN  IF long = {} THEN i ELSE i - LfnCount[CHOOSE n \in long : TRUE]

(* short_name_exists, select_short_name                                    *)
ShortNameExists(short) == \E i \in Entries : slots[i].short = short
NeedsLfn(n) == CanonicalShort[n] = NoName \/ ShortNameExists(CanonicalShort[n])
FreeAliases(n) == {k \in DOMAIN Aliases[n] : ~ ShortNameExists(Aliases[n][k])}
(* Mutant: the first alias is taken, whether an entry has it or not.       *)
SelectShortName_First(n) ==
  IF NeedsLfn(n) THEN Aliases[n][1] ELSE CanonicalShort[n]

SelectShortName(n) ==
  IF NeedsLfn(n) THEN Aliases[n][Min(FreeAliases(n))] ELSE CanonicalShort[n]

(* find_free_directory_entries: the first run of deleted entries that is   *)
(* long enough, or else the end, with the deleted entries right before it. *)
DeletedRun(i, j) == \A k \in i .. j : slots[k] = Deleted
Runs(count) == {i \in 1 .. EndIndex - count : DeletedRun(i, i + count - 1)}
FreeEntries(count) ==
  IF Runs(count) # {}
    THEN [start |-> Min(Runs(count)), reachedEnd |-> FALSE]
    ELSE [start |-> Min({i \in 1 .. EndIndex : DeletedRun(i, EndIndex - 1)}),
          reachedEnd |-> TRUE]

(* check_directory_capacity                                                *)
(* Mutant: the last slot is counted one too low.                           *)
HasCapacity_OffByOne(start, count) == FixedRoot => start + count - 2 <= Len(slots)

HasCapacity(start, count) == FixedRoot => start + count - 1 <= Len(slots)

(* The last `left` pieces of a long name that are to be written, and the   *)
(* short entry behind them.                                                *)
NamedSlots(n, c, short, left) ==
  [i \in 1 .. left |-> Lfn(n, left + 1 - i, short)] \o <<Short(short, c)>>

(* The slots that create_named_entry writes, in order: the pieces of the   *)
(* long name, the short entry, and a new end marker behind an entry that   *)
(* took the old one's place.                                               *)
(* Mutant: the pieces of the long name in ascending order.                 *)
NewSlots_Ascending(n, c) ==
  LET count == IF NeedsLfn(n) THEN LfnCount[n] ELSE 0
      place == FreeEntries(count + 1)
      named == [k \in 1 .. count |-> Lfn(n, k, SelectShortName(n))]
                 \o <<Short(SelectShortName(n), c)>>
      next  == place.start + count + 1
  IN  IF place.reachedEnd /\ HasCapacity(next, 1) THEN Append(named, End) ELSE named

(* Mutant: the entry takes the end marker's place and brings none.         *)
NewSlots_NoEnd(n, c) ==
  LET count == IF NeedsLfn(n) THEN LfnCount[n] ELSE 0
  IN  NamedSlots(n, c, SelectShortName(n), count)

NewSlots(n, c) ==
  LET count == IF NeedsLfn(n) THEN LfnCount[n] ELSE 0
      place == FreeEntries(count + 1)
      named == NamedSlots(n, c, SelectShortName(n), count)
      next  == place.start + count + 1
  IN  IF place.reachedEnd /\ HasCapacity(next, 1) THEN Append(named, End) ELSE named
Place(n) == FreeEntries((IF NeedsLfn(n) THEN LfnCount[n] ELSE 0) + 1)
Fits(n) ==
  LET count == (IF NeedsLfn(n) THEN LfnCount[n] ELSE 0) + 1
  IN  Place(n).reachedEnd => HasCapacity(Place(n).start, count)

-----------------------------------------------------------------------------
Return == /\ phase' = "idle" /\ call' = NoCall /\ run' = <<>> /\ at' = 0

(* An error, of the device or of the code (NoSpace, DirectoryFull).        *)
(* create_directory cleans up when create_named_entry returns one.         *)
(* Mutant: the cleanup does not ask whether there is a cluster yet.        *)
ReturnError_AlwaysUndo ==
  /\ failed' = TRUE
  /\ spoilt' = IF call.kind = "rename" THEN spoilt \cup {call.ref} ELSE spoilt
  /\ IF call.kind = "mkdir" /\ phase # "undo"
       THEN phase' = "undo" /\ run' = <<>> /\ at' = 0 /\ UNCHANGED call
       ELSE Return

ReturnError ==
  /\ failed' = TRUE
  /\ spoilt' = IF call.kind = "rename" THEN spoilt \cup {call.ref} ELSE spoilt
  /\ IF call.kind = "mkdir" /\ phase \in {"name", "write"}
       THEN phase' = "undo" /\ run' = <<>> /\ at' = 0 /\ UNCHANGED call
       ELSE Return

(* create_named_entry, up to its first write.                              *)
CreateNamedEntry(n, c) ==
  IF Fits(n)
    THEN /\ phase' = "write"
         /\ run' = NewSlots(n, c)
         /\ at' = Place(n).start
         /\ UNCHANGED <<failed, spoilt>>
    ELSE ReturnError

(* Mutant: a file is created without looking for its name first.           *)
CreateFile_Unchecked(n) ==
  /\ phase = "idle"
  /\ FreeAliases(n) # {} /\ Fits(n)
  /\ call' = [NoCall EXCEPT !.kind = "create", !.name = n]
  /\ CreateNamedEntry(n, NoCluster)
  /\ UNCHANGED <<slots, free, faults>>

CreateFile(n) ==
  /\ phase = "idle"
  /\ Found(n) = {} /\ FreeAliases(n) # {}
  /\ Fits(n)
  /\ call' = [NoCall EXCEPT !.kind = "create", !.name = n]
  /\ CreateNamedEntry(n, NoCluster)
  /\ UNCHANGED <<slots, free, faults>>

(* create_directory allocates a cluster, writes the dot entries in it, and *)
(* calls create_named_entry, which looks for the name again.               *)
CreateDirectory(n) ==
  /\ phase = "idle"
  /\ Found(n) = {} /\ FreeAliases(n) # {}
  /\ call' = [NoCall EXCEPT !.kind = "mkdir", !.name = n]
  /\ phase' = "alloc"
  /\ UNCHANGED <<slots, free, run, at, failed, spoilt, faults>>

AllocateCluster ==
  /\ phase = "alloc"
  /\ \E c \in free :
       /\ free' = free \ {c}
       /\ call' = [call EXCEPT !.ref = c]
  /\ phase' = "dots"
  /\ UNCHANGED <<slots, run, at, failed, spoilt, faults>>

WriteDotEntries ==
  /\ phase = "dots"
  /\ phase' = "name"
  /\ UNCHANGED <<slots, free, call, run, at, failed, spoilt, faults>>

NameDirectory ==
  /\ phase = "name"
  /\ CreateNamedEntry(call.name, call.ref)
  /\ UNCHANGED <<slots, free, faults>>
  /\ Fits(call.name) => UNCHANGED call

(* write_directory_at, when the directory's chain is too short: one        *)
(* cluster of end markers is appended (ensure_chain_length in FatChains).  *)
(* A fixed root cannot grow: DirectoryFull.                                *)
GrowDirectory ==
  /\ phase = "write" /\ at > Len(slots) /\ ~ FixedRoot
  /\ \E c \in free : free' = free \ {c}
  /\ slots' = slots \o [i \in 1 .. SlotsPerCluster |-> End]
  /\ UNCHANGED <<phase, call, run, at, failed, spoilt, faults>>

NoSpace ==
  /\ \/ phase = "write" /\ at > Len(slots) /\ (FixedRoot \/ free = {})
     \/ phase = "alloc" /\ free = {}
  /\ ReturnError
  /\ UNCHANGED <<slots, free, faults>>

(* write_directory_entry                                                   *)
WriteSlot ==
  /\ phase = "write" /\ at <= Len(slots)
  /\ slots' = [slots EXCEPT ![at] = Head(run)]
  /\ IF Len(run) > 1
       THEN run' = Tail(run) /\ at' = at + 1 /\ UNCHANGED <<phase, call>>
       ELSE IF call.kind = "rename"
       THEN phase' = "delete" /\ run' = <<>> /\ at' = call.last /\ UNCHANGED call
       ELSE Return
  /\ UNCHANGED <<free, failed, spoilt, faults>>

(* The cleanup of create_directory: free_chain of the cluster it had       *)
(* allocated, whatever create_named_entry had written.                     *)
UndoDirectory ==
  /\ phase = "undo"
  /\ free' = free \cup {call.ref}
  /\ spoilt' = spoilt \cup {call.ref}
  /\ Return
  /\ UNCHANGED <<slots, failed, faults>>

-----------------------------------------------------------------------------
CallOn(n, kind, name) ==
  [kind |-> kind, name |-> name, source |-> Shown(FindEntry(n)), ref |-> slots[FindEntry(n)].cluster,
   start |-> LfnStart(FindEntry(n)), last |-> FindEntry(n)]

(* remove_file and remove_directory (of an empty directory)                *)
(* Mutant: the chain is freed before the entry is deleted.                 *)
Remove_FreeFirst(n) ==
  /\ phase = "idle"
  /\ Found(n) # {}
  /\ call' = [CallOn(n, "remove", NoName) EXCEPT !.ref = NoCluster]
  /\ free' = free \cup ({slots[FindEntry(n)].cluster} \ {NoCluster})
  /\ phase' = "delete"
  /\ at' = FindEntry(n)
  /\ UNCHANGED <<slots, run, failed, spoilt, faults>>

Remove(n) ==
  /\ phase = "idle"
  /\ Found(n) # {}
  /\ call' = CallOn(n, "remove", NoName)
  /\ phase' = "delete"
  /\ at' = FindEntry(n)
  /\ UNCHANGED <<slots, free, run, failed, spoilt, faults>>

Rename(n, m) ==
  /\ phase = "idle"
  /\ Found(n) # {} /\ Found(m) = {} /\ FreeAliases(m) # {}
  /\ Fits(m)
  /\ call' = CallOn(n, "rename", m)
  /\ CreateNamedEntry(m, slots[FindEntry(n)].cluster)
  /\ UNCHANGED <<slots, free, faults>>

(* delete_found_entry: the short entry first, its long name backwards.     *)
(* Mutant: a deleted entry is overwritten with zeros.                      *)
DeleteSlot_Zero ==
  /\ phase = "delete"
  /\ slots' = [slots EXCEPT ![at] = End]
  /\ IF at > call.start
       THEN at' = at - 1 /\ UNCHANGED <<phase, call, run>>
       ELSE IF call.kind = "remove" /\ call.ref # NoCluster
       THEN phase' = "free" /\ at' = 0 /\ UNCHANGED <<call, run>>
       ELSE Return
  /\ UNCHANGED <<free, failed, spoilt, faults>>

DeleteSlot ==
  /\ phase = "delete"
  /\ slots' = [slots EXCEPT ![at] = Deleted]
  /\ IF at > call.start
       THEN at' = at - 1 /\ UNCHANGED <<phase, call, run>>
       ELSE IF call.kind = "remove" /\ call.ref # NoCluster
       THEN phase' = "free" /\ at' = 0 /\ UNCHANGED <<call, run>>
       ELSE Return
  /\ UNCHANGED <<free, failed, spoilt, faults>>

FreeChain ==
  /\ phase = "free"
  /\ free' = free \cup {call.ref}
  /\ Return
  /\ UNCHANGED <<slots, failed, spoilt, faults>>

-----------------------------------------------------------------------------
(* A device error is returned to the code; a power cut or a dropped future *)
(* is not.                                                                 *)
DeviceError ==
  /\ phase # "idle"
  /\ faults < MaxFaults
  /\ faults' = faults + 1
  /\ ReturnError
  /\ UNCHANGED <<slots, free>>

PowerCut ==
  /\ phase # "idle"
  /\ faults < MaxFaults
  /\ faults' = faults + 1
  /\ failed' = TRUE
  /\ spoilt' = IF call.kind = "rename" THEN spoilt \cup {call.ref} ELSE spoilt
  /\ Return
  /\ UNCHANGED <<slots, free>>

-----------------------------------------------------------------------------
DirInit ==
  /\ slots = [i \in 1 .. InitialSlots |-> End]
  /\ free = Clusters
  /\ phase = "idle" /\ call = NoCall /\ run = <<>> /\ at = 0
  /\ faults = 0 /\ failed = FALSE /\ spoilt = {}

(* A directory that another system wrote: behind the end marker are        *)
(* entries that it no longer shows, here all with one cluster.             *)
StaleCluster == CHOOSE c \in Clusters : TRUE
StaleSlots == {End} \cup {Short(short, StaleCluster) : short \in ShortNames}
ForeignInit ==
  /\ slots \in {q \in [1 .. InitialSlots -> StaleSlots] : q[1] = End}
  /\ free = Clusters \ {StaleCluster}
  /\ phase = "idle" /\ call = NoCall /\ run = <<>> /\ at = 0
  /\ faults = 0 /\ failed = FALSE /\ spoilt = {}

DirCall ==
  \E n \in Names :
    \/ CreateFile(n) \/ CreateDirectory(n) \/ Remove(n)
    \/ \E m \in Names : Rename(n, m)

DirStep ==
  \/ AllocateCluster \/ WriteDotEntries \/ NameDirectory \/ GrowDirectory \/ NoSpace \/ WriteSlot
  \/ UndoDirectory \/ DeleteSlot \/ FreeChain

DirNext == DirCall \/ DirStep \/ DeviceError \/ PowerCut

DirSpec == DirInit /\ [][DirNext]_dirVars

ForeignSpec == ForeignInit /\ [][DirNext]_dirVars

(* A device that never fails and is never switched off.                    *)
ReliableSpec == DirInit /\ [][DirCall \/ DirStep]_dirVars

-----------------------------------------------------------------------------
Map == INSTANCE DirectoryMap WITH
  Refs <- Clusters, NoOp <- NoCall, op <- call,
  entries <- {[name |-> Shown(i), ref |-> slots[i].cluster] : i \in Entries}

(* Entries come and go whole, and only those a call is about: a long name  *)
(* is never seen without its entry or an entry without its long name, and  *)
(* a rename never loses the entry, wherever it is interrupted.             *)
MapRefined == Map!MapSpec

DirTypeOK ==
  /\ \A i \in DOMAIN slots : slots[i].tag \in {"end", "deleted", "lfn", "short"}
  /\ free \subseteq Clusters
  /\ phase \in {"idle", "alloc", "dots", "name", "write", "undo", "delete", "free"}
  /\ call.ref \in Clusters \cup {NoCluster}
  /\ phase = "write" <=> run # <<>>
  /\ at \in 0 .. Len(slots) + 1

(* A visible entry leads to clusters that are in use: a removal hides the  *)
(* entry before it frees the chain.                                        *)
VisibleInUse == \A i \in Entries : slots[i].cluster \notin free

(* The same, where neither an interrupted rename had left a second entry   *)
(* nor a failed create_directory had freed its cluster.                    *)
RemovalHidesFirst == \A i \in Entries : slots[i].cluster \notin free \ spoilt

(* No two entries are listed under one name.  (A lookup may find two: long *)
(* names are compared letter by letter, short names without regard to      *)
(* case.)                                                                  *)
ListedOnce ==
  \A i, j \in Entries : \A n \in Names : Shows(i, n) /\ Shows(j, n) => i = j

(* An entry and the end marker behind it do not run over the end of a      *)
(* fixed root.                                                             *)
FitsRoot == phase = "write" /\ FixedRoot => at + Len(run) - 1 <= Len(slots)

(* Behind the end marker there is nothing that a later entry could bring   *)
(* back.                                                                   *)
NothingBehindEnd == \A i \in EndIndex .. Len(slots) : slots[i] = End

(* Between calls none of which failed, what another system left behind the *)
(* end marker is not an entry again.                                       *)
StaleStaysHidden ==
  phase = "idle" /\ ~ failed => \A i \in Entries : slots[i].cluster # StaleCluster

(* Between calls none of which failed, every piece of a long name belongs  *)
(* to an entry, and every cluster in use to an entry or to the directory.  *)
Grown == (Len(slots) - InitialSlots) \div SlotsPerCluster
NothingLost ==
  phase = "idle" /\ ~ failed =>
    /\ \A i \in 1 .. EndIndex - 1 : slots[i].tag = "lfn" =>
         \E j \in Entries, n \in Names :
           HasLongName(j, n) /\ i < j /\ j - LfnCount[n] <= i
    /\ Cardinality(Clusters \ free) =
         Grown + Cardinality({i \in Entries : slots[i].cluster # NoCluster})
-----------------------------------------------------------------------------
(* What a running call relies on.                                          *)

Slot ==
  {End, Deleted}
    \cup [tag : {"lfn"}, name : Names, ordinal : Nat \ {0}, last : BOOLEAN,
          sum : {Checksum[s] : s \in ShortNames}]
    \cup [tag : {"short"}, short : ShortNames, cluster : Clusters \cup {NoCluster}]

Published == phase = "write" /\ run = <<End>>
Unpublished == phase \in {"dots", "name"} \/ (phase = "write" /\ run # <<End>>)

(* The call's locals, by phase.                                            *)
CallRecords ==
  [kind : {"create", "mkdir", "remove", "rename"}, name : Names \cup {NoName},
   source : Names \cup {NoName}, ref : Clusters \cup {NoCluster}, start : Nat, last : Nat]
LocalsOK ==
  /\ phase = "idle" => call = NoCall /\ run = <<>> /\ at = 0
  /\ phase # "idle" => call \in CallRecords
  /\ phase \in {"alloc", "dots", "name", "undo"} => call.kind = "mkdir"
  /\ phase = "write" => call.kind \in {"create", "mkdir", "rename"}
  /\ phase = "delete" => call.kind \in {"remove", "rename"}
  /\ phase = "free" => call.kind = "remove" /\ call.ref # NoCluster
  /\ call.kind \in {"create", "mkdir", "rename"} => call.name \in Names
  /\ call.kind = "mkdir" /\ phase # "alloc" => call.ref \in Clusters
  /\ call.kind = "create" => call.ref = NoCluster
  /\ phase \in {"alloc", "dots", "name"} => FreeAliases(call.name) # {}

(* What is left to write of an entry with `count` pieces, and the pieces   *)
(* that have been written.                                                 *)
Writing(short, count, left) ==
  /\ LET named == NamedSlots(call.name, call.ref, short, left)
     IN  run \in {named, Append(named, End)}
  /\ \A k \in left + 1 .. count :
       at + left - k \in DOMAIN slots /\ slots[at + left - k] = Lfn(call.name, k, short)
  /\ ~ ShortNameExists(short)
  /\ IF count = 0 THEN short = CanonicalShort[call.name]
     ELSE \E k \in DOMAIN Aliases[call.name] : short = Aliases[call.name][k]

(* Only deleted slots are overwritten, and an end marker is written where  *)
(* the entry has come to the end.                                          *)
WriteInv ==
  phase = "write" =>
    /\ at \in 1 .. EndIndex
    /\ \A i \in at .. at + Len(run) - 1 : i < EndIndex => slots[i] = Deleted
    /\ run[Len(run)] = End => EndIndex < at + Len(run)
    /\ ~ Published =>
         \E short \in ShortNames, count \in {0, LfnCount[call.name]} :
           \E left \in 0 .. count : Writing(short, count, left)

(* The slots of the entry that is renamed or removed are its own until     *)
(* they are deleted, the short entry first.                                *)
SourceInv ==
  call.kind = "rename" \/ phase = "delete" =>
    /\ 1 <= call.start /\ call.start <= call.last /\ call.last < EndIndex
    /\ phase = "delete" => at \in call.start .. call.last
    /\ LET first == IF phase = "delete" THEN at ELSE call.last
       IN  /\ \A i \in call.start .. first : i < call.last => slots[i].tag = "lfn"
           /\ \A i \in first + 1 .. call.last : slots[i] = Deleted
           /\ first = call.last =>
                slots[call.last].tag = "short" /\ slots[call.last].cluster = call.ref

(* Two entries have one cluster only in the middle of a rename, and a      *)
(* cluster that is about to get its entry, or has lost it, has no other.   *)
HasEntry(c) == \E i \in Entries : slots[i].cluster = c
RefInv ==
  /\ spoilt \subseteq Clusters \cup {NoCluster}
  /\ \A i, j \in Entries :
       slots[i].cluster = slots[j].cluster /\ slots[i].cluster \in Clusters \ spoilt /\ i # j =>
         /\ call.kind = "rename" /\ ~ Unpublished
         /\ slots[i].cluster = call.ref /\ call.last \in {i, j}
  /\ call.kind = "rename" => call.ref \notin free \ spoilt
  /\ call.kind = "mkdir" /\ phase # "alloc" => call.ref \notin free
  /\ call.kind = "mkdir" /\ Unpublished /\ HasEntry(call.ref) => call.ref \in spoilt
  /\ call.kind = "remove" /\ (phase = "free" \/ at < call.last) /\ HasEntry(call.ref) =>
       call.ref \in spoilt \cup {NoCluster}

(* No two entries have the same short name.                                *)
ShortNamesUnique ==
  \A i, j \in Entries : slots[i].short = slots[j].short => i = j

DirInv ==
  /\ slots \in Seq(Slot) /\ run \in Seq(Slot) /\ DirTypeOK
  /\ LocalsOK /\ WriteInv /\ SourceInv /\ RefInv
  /\ NothingBehindEnd /\ RemovalHidesFirst /\ ShortNamesUnique

-----------------------------------------------------------------------------
(* A new entry is not listed under the long name of another: its place is  *)
(* behind no pieces that an interrupted call left and whose checksum is    *)
(* that of its short name.                                                 *)
NoAdoption ==
  phase = "write" /\ Head(run).tag = "short" =>
    \A n \in Names : LongNameBefore(at, Head(run).short, n) => n = call.name

(* Only what an interrupted call left behind is ever adopted.              *)
AdoptsLeftoversOnly == failed \/ NoAdoption

(* Every entry is listed, each under a name of its own; the name of a new  *)
(* entry is still free until it is published, and a renamed entry is there *)
(* under its new name before the old one goes.                             *)
Unnamed == phase = "alloc" \/ Unpublished
HoldsSource == (call.kind = "rename" /\ phase = "write") \/ (phase = "delete" /\ at = call.last)
EntriesNamed == (\A i \in Entries : \E n \in Names : Shows(i, n)) /\ ListedOnce
CallNamed ==
  /\ Unnamed => \A i \in Entries : ~ Shows(i, call.name)
  /\ HoldsSource => /\ call.source \in Names /\ call.last \in Entries
                    /\ Shows(call.last, call.source)
  /\ call.kind = "rename" /\ (Published \/ phase = "delete") =>
       \E i \in Entries \ {call.last} :
         Shows(i, call.name) /\ slots[i].cluster = call.ref
NamesInv == EntriesNamed /\ CallNamed

-----------------------------------------------------------------------------
(* Where no call has failed: pieces without an entry are those the running *)
(* call has just written or is about to delete, and a cluster without an   *)
(* entry, or with two, is the running call's.                              *)
Belongs(i) ==
  \E j \in Entries, n \in Names : HasLongName(j, n) /\ i < j /\ j - LfnCount[n] <= i
Owned(places) ==
  \A i \in 1 .. EndIndex - 1 : slots[i].tag = "lfn" => Belongs(i) \/ i \in places
SourceGone == phase = "free" \/ (phase = "delete" /\ at < call.last)
WrittenPieces ==
  phase = "write" /\ ~ Published =>
    \E short \in ShortNames, count \in {0, LfnCount[call.name]} :
      \E left \in 0 .. count :
        Writing(short, count, left) /\ Owned(at + left - count .. at - 1)
OtherPieces ==
  ~ (phase = "write" /\ ~ Published) =>
    Owned(IF phase = "delete" /\ SourceGone THEN call.start .. at ELSE {})
SourcePieces ==
  HoldsSource => \A n \in Names :
    HasLongName(call.last, n) => call.start <= call.last - LfnCount[n]
PiecesInv == WrittenPieces /\ OtherPieces /\ SourcePieces

InUseByEntries == {i \in Entries : slots[i].cluster # NoCluster}
Pending ==
  IF /\ call.ref # NoCluster
     /\ (call.kind = "mkdir" /\ Unpublished) \/ (call.kind = "remove" /\ SourceGone)
    THEN 1 ELSE 0
Twice ==
  IF /\ call.ref # NoCluster /\ call.kind = "rename"
     /\ Published \/ (phase = "delete" /\ at = call.last)
    THEN 1 ELSE 0
ClustersInv ==
  /\ spoilt = {}
  /\ call.kind = "remove" => call.ref \notin free
  /\ Cardinality(Clusters \ free) + Twice = Grown + Cardinality(InUseByEntries) + Pending
LostInv == ~ failed => phase # "undo" /\ PiecesInv /\ ClustersInv
=============================================================================
