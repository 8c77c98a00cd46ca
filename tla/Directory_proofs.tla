-------------------------- MODULE Directory_proofs --------------------------
(***************************************************************************)
(* Proofs about Directory, for every set of names and whatever short names *)
(* and aliases the code makes of them, a directory of any length, and any  *)
(* number of clusters and faults.  What a listing shows is proved for the  *)
(* runs in which no entry adopts the pieces of another (NoAdoption), and   *)
(* it is proved that an entry can only do so after a failed call.          *)
(*                                                                         *)
(* Three inductive invariants: DirInv, of the slots and the running call;  *)
(* NamesInv, of what the entries are named; and LostInv, of pieces and     *)
(* clusters without an entry.                                              *)
(***************************************************************************)
EXTENDS Directory, NaturalSets, SequenceTheorems

-----------------------------------------------------------------------------
(* Slots.                                                                  *)
LEMMA SlotTags ==
  ASSUME NEW x \in Slot
  PROVE  /\ x.tag \in {"end", "deleted", "lfn", "short"}
         /\ x.tag = "end" <=> x = End
         /\ x.tag = "deleted" <=> x = Deleted
         /\ x.tag = "short" => x.short \in ShortNames /\ x.cluster \in Clusters \cup {NoCluster}
BY DEF Slot, End, Deleted

(* The kinds of slots and their fields.                                    *)
LEMMA SlotKinds ==
  /\ End \in Slot /\ Deleted \in Slot /\ End.tag = "end" /\ Deleted.tag = "deleted"
  /\ \A s, c : Short(s, c).tag = "short" /\ Short(s, c).short = s /\ Short(s, c).cluster = c
  /\ \A n, k, s : Lfn(n, k, s).tag = "lfn" /\ Lfn(n, k, s).name = n
  /\ \A s \in ShortNames, c \in Clusters \cup {NoCluster} : Short(s, c) \in Slot
  /\ \A n \in Names, s \in ShortNames : \A k \in Nat \ {0} : Lfn(n, k, s) \in Slot
<1>1. \A n \in Names, s \in ShortNames : \A k \in Nat \ {0} : Lfn(n, k, s) \in Slot
  BY DEF Slot, Lfn
<1>2. \A s \in ShortNames, c \in Clusters \cup {NoCluster} : Short(s, c) \in Slot
  BY DEF Slot, Short
<1>3. End \in Slot /\ Deleted \in Slot
  BY DEF Slot
<1> QED
  BY <1>1, <1>2, <1>3 DEF End, Deleted, Lfn, Short

-----------------------------------------------------------------------------
(* The end of a directory with the slots q, and its entries.               *)
EndOf(q) == Min({i \in 1 .. Len(q) : q[i] = End} \cup {Len(q) + 1})
EntriesOf(q) == {i \in 1 .. EndOf(q) - 1 : q[i].tag = "short"}
Behind(q) == \A i \in EndOf(q) .. Len(q) : q[i] = End

(* Min of the community modules is what it says for any set of numbers.    *)
LEMMA MinIs ==
  ASSUME NEW S \in SUBSET Nat, S # {}
  PROVE  Min(S) \in S /\ \A m \in S : Min(S) <= m
BY LeastElement DEF Min

(* EndOf is the first end marker, or the place behind the last slot.       *)
LEMMA EndOfFacts ==
  ASSUME NEW q \in Seq(Slot)
  PROVE  /\ EndOf(q) \in 1 .. Len(q) + 1
         /\ EndOf(q) <= Len(q) => q[EndOf(q)] = End
         /\ \A i \in 1 .. EndOf(q) - 1 : i \in 1 .. Len(q) /\ q[i] # End
<1> DEFINE S == {i \in 1 .. Len(q) : q[i] = End} \cup {Len(q) + 1}
<1>1. Len(q) \in Nat
  OBVIOUS
<1>2. S \in SUBSET Nat /\ S # {}
  BY <1>1
<1>3. Min(S) \in S /\ \A m \in S : Min(S) <= m
  BY <1>2, MinIs
<1>4. EndOf(q) = Min(S)
  BY DEF EndOf
<1> HIDE DEF S
<1>5. EndOf(q) \in S /\ \A m \in S : EndOf(q) <= m
  BY <1>3, <1>4
<1> QED
  BY <1>1, <1>5 DEF S

(* The converse: a place with these properties is EndOf.                   *)
LEMMA EndOfIs ==
  ASSUME NEW q \in Seq(Slot), NEW e \in 1 .. Len(q) + 1,
         e <= Len(q) => q[e] = End, \A i \in 1 .. e - 1 : q[i] # End
  PROVE  EndOf(q) = e
<1>1. /\ EndOf(q) \in 1 .. Len(q) + 1
      /\ EndOf(q) <= Len(q) => q[EndOf(q)] = End
      /\ \A i \in 1 .. EndOf(q) - 1 : i \in 1 .. Len(q) /\ q[i] # End
  BY EndOfFacts
<1>2. Len(q) \in Nat
  OBVIOUS
<1>3. CASE EndOf(q) < e
  BY <1>1, <1>2, <1>3
<1>4. CASE e < EndOf(q)
  BY <1>1, <1>2, <1>4
<1> QED
  BY <1>1, <1>2, <1>3, <1>4

(* The directory's own operators are these, of its slots.                  *)
LEMMA OfSlots ==
  /\ EndIndex = EndOf(slots) /\ Entries = EntriesOf(slots)
  /\ NothingBehindEnd <=> Behind(slots)
  /\ EndIndex' = EndOf(slots') /\ Entries' = EntriesOf(slots')
  /\ NothingBehindEnd' <=> Behind(slots')
BY DEF EndIndex, EndOf, Entries, EntriesOf, NothingBehindEnd, Behind

(* Writing a slot that is not an end marker.                               *)
LEMMA SlotWritten ==
  ASSUME NEW q \in Seq(Slot), Behind(q), NEW a \in 1 .. Len(q), a <= EndOf(q),
         a < EndOf(q) => q[a] = Deleted, NEW x \in Slot, x # End,
         NEW r \in Seq(Slot), Len(r) = Len(q),
         \A i \in 1 .. Len(q) : r[i] = IF i = a THEN x ELSE q[i]
  PROVE  /\ Behind(r)
         /\ EndOf(r) = IF a = EndOf(q) THEN a + 1 ELSE EndOf(q)
         /\ EntriesOf(r) = IF x.tag = "short" THEN EntriesOf(q) \cup {a} ELSE EntriesOf(q)
         /\ a \notin EntriesOf(q)
<1>1. /\ r \in Seq(Slot) /\ Len(r) = Len(q) /\ Len(q) \in Nat
      /\ \A i \in 1 .. Len(q) : r[i] = IF i = a THEN x ELSE q[i]
  OBVIOUS
<1>2. /\ EndOf(q) \in 1 .. Len(q) + 1
      /\ EndOf(q) <= Len(q) => q[EndOf(q)] = End
      /\ \A i \in 1 .. EndOf(q) - 1 : i \in 1 .. Len(q) /\ q[i] # End
  BY EndOfFacts
<1> DEFINE e == IF a = EndOf(q) THEN a + 1 ELSE EndOf(q)
<1>3. e \in 1 .. Len(r) + 1 /\ \A i \in 1 .. e - 1 : r[i] # End
  BY <1>1, <1>2
<1>4. \A i \in e .. Len(r) : r[i] = End
  BY <1>1, <1>2 DEF Behind
<1>5. EndOf(r) = e
  <2> HIDE DEF e
  <2>1. e <= Len(r) => r[e] = End
    BY <1>1, <1>3, <1>4
  <2> QED
    BY <1>1, <1>3, <2>1, EndOfIs
<1>6. Behind(r)
  BY <1>4, <1>5 DEF Behind
<1>7. a \notin EntriesOf(q)
  BY <1>1, <1>2, SlotKinds DEF EntriesOf
<1>8. ASSUME NEW i \in Nat PROVE i \in EntriesOf(r) <=> (i \in EntriesOf(q) \/ (i = a /\ x.tag = "short"))
  BY <1>1, <1>2, <1>5, <1>7 DEF EntriesOf
<1>9. EntriesOf(r) \subseteq Nat /\ EntriesOf(q) \subseteq Nat /\ a \in Nat
  BY <1>1, <1>2, <1>5 DEF EntriesOf
<1>10. EntriesOf(r) = IF x.tag = "short" THEN EntriesOf(q) \cup {a} ELSE EntriesOf(q)
  <2>1. CASE x.tag = "short"
    <3>1. \A i : i \in EntriesOf(r) <=> i \in EntriesOf(q) \cup {a}
      BY <1>8, <1>9, <2>1
    <3> QED
      BY <2>1, <3>1
  <2>2. CASE x.tag # "short"
    BY <1>8, <1>9, <2>2
  <2> QED
    BY <2>1, <2>2
<1> QED
  BY <1>1, <1>5, <1>6, <1>7, <1>10

(* An end marker is written over an end marker.                            *)
LEMMA EndWritten ==
  ASSUME NEW q \in Seq(Slot), NEW a \in 1 .. Len(q), a = EndOf(q)
  PROVE  [q EXCEPT ![a] = End] = q
BY EndOfFacts

(* Deleting a slot before the end.                                         *)
LEMMA SlotDeleted ==
  ASSUME NEW q \in Seq(Slot), Behind(q), NEW a \in 1 .. EndOf(q) - 1,
         NEW r \in Seq(Slot), Len(r) = Len(q),
         \A i \in 1 .. Len(q) : r[i] = IF i = a THEN Deleted ELSE q[i]
  PROVE  Behind(r) /\ EndOf(r) = EndOf(q) /\ EntriesOf(r) = EntriesOf(q) \ {a}
<1>2. /\ EndOf(q) \in 1 .. Len(q) + 1
      /\ EndOf(q) <= Len(q) => q[EndOf(q)] = End
      /\ \A i \in 1 .. EndOf(q) - 1 : i \in 1 .. Len(q) /\ q[i] # End
  BY EndOfFacts
<1>1. /\ r \in Seq(Slot) /\ Len(r) = Len(q) /\ Len(q) \in Nat
      /\ \A i \in 1 .. Len(q) : r[i] = IF i = a THEN Deleted ELSE q[i]
  BY <1>2, SlotKinds
<1>3. \A i \in 1 .. EndOf(q) - 1 : r[i] # End
  BY <1>1, <1>2, SlotKinds
<1>4. \A i \in EndOf(q) .. Len(r) : r[i] = End
  BY <1>1, <1>2 DEF Behind
<1>5. EndOf(r) = EndOf(q)
  <2>1. EndOf(q) <= Len(r) => r[EndOf(q)] = End
    BY <1>1, <1>2, <1>4
  <2> QED
    BY <1>1, <1>2, <1>3, <2>1, EndOfIs
<1>6. Behind(r)
  BY <1>4, <1>5 DEF Behind
<1>7. EntriesOf(r) = EntriesOf(q) \ {a}
  BY <1>1, <1>2, <1>5, SlotKinds DEF EntriesOf
<1> QED
  BY <1>1, <1>5, <1>6, <1>7

(* A cluster of end markers behind the last slot.                          *)
LEMMA SlotsAppended ==
  ASSUME NEW q \in Seq(Slot), EndOf(q) = Len(q) + 1,
         NEW r, r = q \o [i \in 1 .. SlotsPerCluster |-> End]
  PROVE  /\ r \in Seq(Slot) /\ Len(r) = Len(q) + SlotsPerCluster /\ Behind(r)
         /\ EndOf(r) = EndOf(q) /\ EntriesOf(r) = EntriesOf(q)
         /\ \A i \in 1 .. Len(q) : r[i] = q[i]
<1> DEFINE more == [i \in 1 .. SlotsPerCluster |-> End]
<1>0. SlotsPerCluster \in Nat \ {0}
  BY DirectoryAssumption
<1>1. more \in Seq(Slot) /\ Len(more) = SlotsPerCluster
        /\ \A i \in 1 .. SlotsPerCluster : more[i] = End
  BY <1>0, SlotKinds
<1> HIDE DEF more
<1>2. /\ r \in Seq(Slot) /\ Len(r) = Len(q) + SlotsPerCluster /\ Len(q) \in Nat
      /\ \A i \in 1 .. Len(q) : r[i] = q[i]
      /\ \A i \in Len(q) + 1 .. Len(r) : r[i] = End
  <2>1. r = q \o more
    BY DEF more
  <2>2. r \in Seq(Slot) /\ Len(r) = Len(q) + SlotsPerCluster /\ Len(q) \in Nat
    <3>1. q \o more \in Seq(Slot) /\ Len(q \o more) = Len(q) + Len(more)
      BY <1>1, ConcatProperties
    <3> QED
      BY <1>1, <2>1, <3>1
  <2>3. \A i \in 1 .. Len(q) : r[i] = q[i]
    BY <1>1, <2>1
  <2>4. ASSUME NEW i \in Len(q) + 1 .. Len(r) PROVE r[i] = End
    <3>1. i - Len(q) \in 1 .. SlotsPerCluster
      BY <1>0, <2>2
    <3>2. r[i] = more[i - Len(q)]
      BY <1>1, <2>1, <2>2
    <3> QED
      BY <1>1, <3>1, <3>2
  <2> QED
    BY <2>2, <2>3, <2>4
<1>3. \A i \in 1 .. EndOf(q) - 1 : r[i] # End
  BY <1>2, EndOfFacts
<1>4. EndOf(r) = EndOf(q)
  <2>1. EndOf(q) \in 1 .. Len(r) + 1 /\ r[EndOf(q)] = End
    BY <1>0, <1>2
  <2> QED
    BY <1>2, <1>3, <2>1, EndOfIs
<1>5. EntriesOf(r) = EntriesOf(q)
  BY <1>2, <1>4 DEF EntriesOf
<1> QED
  BY <1>2, <1>4, <1>5 DEF Behind

-----------------------------------------------------------------------------
(* Where an entry of `count` slots goes.                                   *)
LEMMA FreeEntriesFacts ==
  ASSUME slots \in Seq(Slot), NEW count \in Nat \ {0}
  PROVE  LET place == FreeEntries(count)
         IN  /\ place.start \in 1 .. EndIndex /\ place.reachedEnd \in BOOLEAN
             /\ \A i \in place.start .. place.start + count - 1 : i < EndIndex => slots[i] = Deleted
             /\ place.reachedEnd => EndIndex < place.start + count
             /\ ~ place.reachedEnd => place.start + count <= EndIndex
<1>1. EndIndex \in Nat \ {0}
  BY EndOfFacts, OfSlots
<1>2. CASE Runs(count) # {}
  <2>1. Runs(count) \in SUBSET Nat
    BY <1>1 DEF Runs
  <2>2. Min(Runs(count)) \in Runs(count)
    BY <1>2, <2>1, MinIs
  <2>3. FreeEntries(count) = [start |-> Min(Runs(count)), reachedEnd |-> FALSE]
    BY <1>2 DEF FreeEntries
  <2> DEFINE r == Min(Runs(count))
  <2>4. r \in 1 .. EndIndex - count /\ \A k \in r .. r + count - 1 : slots[k] = Deleted
    BY <2>2 DEF Runs, DeletedRun
  <2> HIDE DEF r
  <2>5. FreeEntries(count) = [start |-> r, reachedEnd |-> FALSE]
    BY <2>3 DEF r
  <2> QED
    BY <1>1, <2>4, <2>5
<1>3. CASE Runs(count) = {}
  <2> DEFINE S == {i \in 1 .. EndIndex : DeletedRun(i, EndIndex - 1)}
  <2>1. S \in SUBSET Nat
    BY <1>1
  <2>2. EndIndex \in S
    BY <1>1 DEF DeletedRun
  <2>3. Min(S) \in S
    BY <2>1, <2>2, MinIs
  <2>4. FreeEntries(count) = [start |-> Min(S), reachedEnd |-> TRUE]
    BY <1>3 DEF FreeEntries
  <2>5. DeletedRun(Min(S), EndIndex - 1) /\ Min(S) \in 1 .. EndIndex
    BY <2>3
  <2> HIDE DEF S
  <2>6. EndIndex < Min(S) + count
    <3> SUFFICES ASSUME Min(S) + count <= EndIndex PROVE FALSE
      BY <1>1, <2>5
    <3>1. Min(S) \in Runs(count)
      BY <1>1, <2>5 DEF Runs, DeletedRun
    <3> QED
      BY <1>3, <3>1
  <2> QED
    BY <1>1, <2>4, <2>5, <2>6 DEF DeletedRun
<1> QED
  BY <1>2, <1>3

(* The short name of a new entry is one that no entry has.                 *)
LEMMA SelectShortNameFacts ==
  ASSUME NEW n \in Names, FreeAliases(n) # {}
  PROVE  /\ SelectShortName(n) \in ShortNames
         /\ ~ ShortNameExists(SelectShortName(n))
         /\ IF NeedsLfn(n)
              THEN \E k \in DOMAIN Aliases[n] : SelectShortName(n) = Aliases[n][k]
              ELSE SelectShortName(n) = CanonicalShort[n]
<1>1. Aliases[n] \in Seq(ShortNames) /\ CanonicalShort[n] \in ShortNames \cup {NoName}
  BY DirectoryAssumption
<1>2. FreeAliases(n) \in SUBSET Nat
  BY <1>1 DEF FreeAliases
<1>3. Min(FreeAliases(n)) \in FreeAliases(n)
  BY <1>2, MinIs
<1>4. CASE NeedsLfn(n)
  <2>1. PICK k \in FreeAliases(n) : SelectShortName(n) = Aliases[n][k]
    BY <1>3, <1>4 DEF SelectShortName
  <2>2. k \in DOMAIN Aliases[n] /\ ~ ShortNameExists(Aliases[n][k])
    BY DEF FreeAliases
  <2>3. Aliases[n][k] \in ShortNames
    BY <1>1, <2>2, ElementOfSeq
  <2> QED
    BY <1>4, <2>1, <2>2, <2>3
<1>5. CASE ~ NeedsLfn(n)
  BY <1>1, <1>5 DEF SelectShortName, NeedsLfn
<1> QED
  BY <1>4, <1>5

(* What is left to write of an entry.                                      *)
LEMMA NamedSlotsFacts ==
  ASSUME NEW n \in Names, NEW c \in Clusters \cup {NoCluster}, NEW short \in ShortNames,
         NEW left \in Nat
  PROVE  /\ NamedSlots(n, c, short, left) \in Seq(Slot) /\ Len(NamedSlots(n, c, short, left)) = left + 1
         /\ NamedSlots(n, c, short, left)[left + 1] = Short(short, c)
         /\ \A i \in 1 .. left : NamedSlots(n, c, short, left)[i] = Lfn(n, left + 1 - i, short)
<1> DEFINE pieces == [i \in 1 .. left |-> Lfn(n, left + 1 - i, short)]
           entry == <<Short(short, c)>>
<1>1. \A i \in 1 .. left : pieces[i] = Lfn(n, left + 1 - i, short) /\ pieces[i] \in Slot
  <2> TAKE i \in 1 .. left
  <2>1. left + 1 - i \in Nat \ {0}
    OBVIOUS
  <2>2. pieces[i] = Lfn(n, left + 1 - i, short)
    OBVIOUS
  <2> QED
    BY <2>1, <2>2, SlotKinds
<1>2. pieces \in Seq(Slot) /\ Len(pieces) = left
  BY <1>1
<1>3. entry \in Seq(Slot) /\ Len(entry) = 1 /\ entry[1] = Short(short, c)
  BY SlotKinds
<1>4. NamedSlots(n, c, short, left) = pieces \o entry
  BY DEF NamedSlots
<1> HIDE DEF pieces, entry
<1>5. /\ pieces \o entry \in Seq(Slot) /\ Len(pieces \o entry) = left + 1
      /\ \A i \in 1 .. left + 1 :
           (pieces \o entry)[i] = IF i <= left THEN pieces[i] ELSE entry[i - left]
  <2>1. /\ pieces \o entry \in Seq(Slot) /\ Len(pieces \o entry) = Len(pieces) + Len(entry)
        /\ \A i \in 1 .. Len(pieces) + Len(entry) :
             (pieces \o entry)[i] = IF i <= Len(pieces) THEN pieces[i] ELSE entry[i - Len(pieces)]
    BY <1>2, <1>3, ConcatProperties, Zenon
  <2> QED
    BY <1>2, <1>3, <2>1
<1>6. \A i \in 1 .. left : i \in 1 .. left + 1 /\ i <= left
  OBVIOUS
<1>7. left + 1 \in 1 .. left + 1 /\ ~ (left + 1 <= left) /\ (left + 1) - left = 1
  OBVIOUS
<1>8. (pieces \o entry)[left + 1] = entry[1]
  BY <1>5, <1>7
<1>9. \A i \in 1 .. left : (pieces \o entry)[i] = pieces[i]
  BY <1>5, <1>6
<1> QED
  BY <1>1, <1>3, <1>4, <1>5, <1>8, <1>9

(* A run with these slots is the run of create_named_entry.                *)
LEMMA NamedSlotsIs ==
  ASSUME NEW n \in Names, NEW c \in Clusters \cup {NoCluster}, NEW short \in ShortNames,
         NEW left \in Nat, NEW q \in Seq(Slot), Len(q) = left + 1,
         q[left + 1] = Short(short, c),
         \A i \in 1 .. left : q[i] = Lfn(n, left + 1 - i, short)
  PROVE  q = NamedSlots(n, c, short, left)
<1>1. /\ NamedSlots(n, c, short, left) \in Seq(Slot) /\ Len(NamedSlots(n, c, short, left)) = left + 1
      /\ NamedSlots(n, c, short, left)[left + 1] = Short(short, c)
      /\ \A i \in 1 .. left : NamedSlots(n, c, short, left)[i] = Lfn(n, left + 1 - i, short)
  BY NamedSlotsFacts
<1>2. \A i \in 1 .. left + 1 : q[i] = NamedSlots(n, c, short, left)[i]
  BY <1>1
<1> QED
  BY <1>1, <1>2, SeqEqual

(* The call that starts to write an entry.                                 *)
LEMMA EntryStarted ==
  ASSUME slots \in Seq(Slot), NEW n \in Names, FreeAliases(n) # {},
         NEW c \in Clusters \cup {NoCluster}, call'.name = n, call'.ref = c,
         slots' = slots, phase' = "write", run' = NewSlots(n, c), at' = Place(n).start
  PROVE  /\ run' \in Seq(Slot) /\ run' # <<>> /\ run' # <<End>>
         /\ at' \in 1 .. EndIndex /\ WriteInv'
         /\ \E short \in ShortNames, count \in {0, LfnCount[n]} :
              \E left \in 0 .. count : left = count /\ Writing(short, count, left)'
<1>1. PICK count \in Nat : count = IF NeedsLfn(n) THEN LfnCount[n] ELSE 0
  BY DirectoryAssumption
<1>2. PICK short \in ShortNames :
         /\ short = SelectShortName(n) /\ ~ ShortNameExists(short)
         /\ IF NeedsLfn(n) THEN \E k \in DOMAIN Aliases[n] : short = Aliases[n][k]
            ELSE short = CanonicalShort[n]
  BY SelectShortNameFacts
<1>3. EndIndex' = EndIndex /\ Entries' = Entries /\ EndIndex \in Nat \ {0}
  BY OfSlots, EndOfFacts DEF EndIndex, Entries
<1> DEFINE named == NamedSlots(n, c, short, count)
           place == FreeEntries(count + 1)
<1>4. /\ place.start \in 1 .. EndIndex /\ place.reachedEnd \in BOOLEAN
      /\ \A i \in place.start .. place.start + count : i < EndIndex => slots[i] = Deleted
      /\ place.reachedEnd => EndIndex < place.start + count + 1
      /\ ~ place.reachedEnd => place.start + count + 1 <= EndIndex
  <2>1. count + 1 \in Nat \ {0} /\ place.start + (count + 1) - 1 = place.start + count
    BY <1>1
  <2> QED
    BY <1>1, <1>3, <2>1, FreeEntriesFacts
<1>5. /\ at' = place.start
      /\ run' = named \/ (place.reachedEnd /\ run' = Append(named, End))
  BY <1>1, <1>2 DEF NewSlots, Place
<1> HIDE DEF place
<1>6. /\ named \in Seq(Slot) /\ Len(named) = count + 1
      /\ named[count + 1] = Short(short, c)
      /\ \A i \in 1 .. count : named[i] = Lfn(n, count + 1 - i, short)
  BY NamedSlotsFacts
<1> HIDE DEF named
<1>7. /\ Append(named, End) \in Seq(Slot) /\ Len(Append(named, End)) = count + 2
      /\ Append(named, End)[count + 2] = End /\ Append(named, End)[1] # End
      /\ named[1] # End /\ named[count + 1] # End
  <2>1. \A i \in 1 .. count + 1 : named[i] # End
    <3> TAKE i \in 1 .. count + 1
    <3>1. CASE i = count + 1
      BY <1>6, <3>1, SlotKinds
    <3>2. CASE i # count + 1
      <4>1. i \in 1 .. count
        BY <3>2
      <4>2. named[i].tag = "lfn"
        BY <1>6, <4>1, SlotKinds
      <4> QED
        BY <4>2, SlotKinds
    <3> QED
      BY <3>1, <3>2
  <2>2. /\ Append(named, End) \in Seq(Slot) /\ Len(Append(named, End)) = Len(named) + 1
        /\ \A i \in 1 .. Len(named) : Append(named, End)[i] = named[i]
        /\ Append(named, End)[Len(named) + 1] = End
    BY <1>6, SlotKinds, AppendProperties
  <2>3. Len(named) + 1 = count + 2 /\ 1 \in 1 .. count + 1 /\ count + 1 \in 1 .. count + 1
    BY <1>1, <1>6
  <2> QED
    BY <1>6, <2>1, <2>2, <2>3
<1>8. run' \in Seq(Slot) /\ run' # <<>> /\ run' # <<End>>
  <2>2. run'[1] # End /\ Len(run') > 0 /\ run' \in Seq(Slot)
    <3>1. CASE run' = named
      BY <1>6, <1>7, <3>1
    <3>2. CASE run' = Append(named, End)
      BY <1>7, <3>2
    <3> QED
      BY <1>5, <3>1, <3>2
  <2> QED
    BY <2>2, SlotKinds
<1>9. /\ \A i \in at' .. at' + Len(run') - 1 : i < EndIndex => slots[i] = Deleted
      /\ run'[Len(run')] = End => EndIndex < at' + Len(run')
  <2>1. CASE run' = named
    <3>1. at' + Len(run') - 1 = place.start + count /\ run'[Len(run')] # End
      BY <1>1, <1>4, <1>3, <1>5, <1>6, <1>7, <2>1
    <3> QED
      BY <1>4, <1>5, <3>1
  <2>2. CASE place.reachedEnd /\ run' = Append(named, End)
    <3>1. at' + Len(run') = place.start + count + 2 /\ EndIndex < place.start + count + 1
      BY <1>1, <1>3, <1>4, <1>5, <1>7, <2>2
    <3>2. ASSUME NEW i \in at' .. at' + Len(run') - 1, i < EndIndex PROVE slots[i] = Deleted
      <4>1. i \in place.start .. place.start + count
        BY <1>1, <1>3, <1>4, <1>5, <3>1, <3>2
      <4> QED
        BY <1>4, <3>2, <4>1
    <3> QED
      BY <1>1, <1>3, <1>4, <3>1, <3>2
  <2> QED
    BY <1>5, <2>1, <2>2
<1>10. run' \in {named, Append(named, End)}
  BY <1>5
<1>11. ~ \E i \in Entries' : slots'[i].short = short
  BY <1>2, <1>3 DEF ShortNameExists
<1>12. Writing(short, count, count)'
  <2>1. \A k \in count + 1 .. count : FALSE
    OBVIOUS
  <2>2. count = 0 <=> ~ NeedsLfn(n)
    BY <1>1, DirectoryAssumption
  <2> QED
    BY <1>2, <1>10, <1>11, <2>1, <2>2 DEF Writing, ShortNameExists, named
<1>13. count \in {0, LfnCount[n]} /\ count \in 0 .. count
  BY <1>1
<1> QED
  BY <1>3, <1>4, <1>5, <1>8, <1>9, <1>12, <1>13 DEF WriteInv

-----------------------------------------------------------------------------
(* The calls, step by step.                                                *)
LEMMA SlotsUnchanged ==
  ASSUME slots' = slots
  PROVE  /\ EndIndex' = EndIndex /\ Entries' = Entries
         /\ NothingBehindEnd' <=> NothingBehindEnd
         /\ ShortNamesUnique' <=> ShortNamesUnique
         /\ \A c : HasEntry(c)' <=> HasEntry(c)
BY DEF EndIndex, Entries, NothingBehindEnd, ShortNamesUnique, HasEntry

(* Entries lie in front of the end and are short entries.                  *)
LEMMA EntriesFacts ==
  ASSUME slots \in Seq(Slot)
  PROVE  /\ EndIndex \in 1 .. Len(slots) + 1 /\ Len(slots) \in Nat
         /\ \A i \in Entries : /\ i \in 1 .. EndIndex - 1 /\ i \in 1 .. Len(slots)
                               /\ slots[i] \in Slot /\ slots[i].tag = "short"
                               /\ slots[i].short \in ShortNames
                               /\ slots[i].cluster \in Clusters \cup {NoCluster}
<1>1. EndIndex \in 1 .. Len(slots) + 1 /\ Len(slots) \in Nat
  BY EndOfFacts, OfSlots
<1>2. \A i \in Entries : /\ i \in 1 .. EndIndex - 1 /\ i \in 1 .. Len(slots)
                         /\ slots[i] \in Slot /\ slots[i].tag = "short"
  BY <1>1, ElementOfSeq DEF Entries
<1> QED
  BY <1>1, <1>2, SlotTags

(* Entries that no rename is about have clusters of their own.             *)
Apart ==
  \A i, j \in Entries :
    slots[i].cluster = slots[j].cluster /\ slots[i].cluster \in Clusters \ spoilt => i = j

(* Every slot is of one of the four kinds.                                 *)
LEMMA TagsOK ==
  ASSUME slots \in Seq(Slot)
  PROVE  \A i \in DOMAIN slots : slots[i].tag \in {"end", "deleted", "lfn", "short"}
<1>1. \A i \in DOMAIN slots : slots[i] \in Slot
  BY ElementOfSeq
<1> QED
  BY <1>1, SlotTags

(* A call that has returned.                                               *)
LEMMA ReturnInv ==
  ASSUME Return, (slots \in Seq(Slot))', (free \subseteq Clusters)',
         (spoilt \subseteq Clusters \cup {NoCluster})',
         NothingBehindEnd', RemovalHidesFirst', ShortNamesUnique', Apart'
  PROVE  DirInv'
<1>1. phase' = "idle" /\ call' = NoCall /\ run' = <<>> /\ at' = 0
  BY DEF Return
<1>2. call'.kind = "none" /\ call'.ref = NoCluster
  BY <1>1 DEF NoCall
<1>3. DirTypeOK'
  <2>1. (slots \in Seq(Slot) => \A i \in DOMAIN slots : slots[i].tag \in {"end", "deleted", "lfn", "short"})'
    BY TagsOK, PTL
  <2>2. Len(slots') \in Nat
    OBVIOUS
  <2> QED
    BY <1>1, <1>2, <2>1, <2>2 DEF DirTypeOK
<1>4. LocalsOK'
  BY <1>1, <1>2 DEF LocalsOK
<1>5. WriteInv' /\ SourceInv'
  BY <1>1, <1>2 DEF WriteInv, SourceInv
<1>6. RefInv'
  BY <1>1, <1>2 DEF RefInv, Apart
<1>7. run' \in Seq(Slot)
  BY <1>1, EmptySeq
<1> QED
  BY <1>3, <1>4, <1>5, <1>6, <1>7 DEF DirInv

(* A call that returns, or goes back to clean up, without a write.         *)
LEMMA ReturnErrorStep ==
  ASSUME DirInv, ReturnError, phase # "idle", slots' = slots, free' = free
  PROVE  DirInv'
<1> USE DEF DirInv
<1>1. /\ spoilt' = IF call.kind = "rename" THEN spoilt \cup {call.ref} ELSE spoilt
      /\ spoilt \subseteq spoilt' /\ (spoilt \subseteq Clusters \cup {NoCluster})'
      /\ call.kind # "rename" => spoilt' = spoilt
  BY DEF ReturnError, DirTypeOK, RefInv
<1>2. /\ NothingBehindEnd' /\ ShortNamesUnique' /\ Entries' = Entries /\ EndIndex' = EndIndex
      /\ \A c : HasEntry(c)' <=> HasEntry(c)
  BY SlotsUnchanged
<1>3. RemovalHidesFirst'
  BY <1>1, <1>2 DEF RemovalHidesFirst
<1>4. CASE Return
  <2>1. Apart'
    BY <1>1, <1>2 DEF Apart, RefInv
  <2> QED
    BY <1>1, <1>2, <1>3, <1>4, <2>1, ReturnInv DEF DirTypeOK
<1>5. CASE call.kind = "mkdir" /\ phase \in {"name", "write"} /\ phase' = "undo" /\ run' = <<>>
           /\ at' = 0 /\ UNCHANGED call
  <2>1. DirTypeOK'
    BY <1>5 DEF DirTypeOK
  <2>2. LocalsOK'
    BY <1>5 DEF LocalsOK
  <2>3. WriteInv' /\ SourceInv'
    BY <1>5 DEF WriteInv, SourceInv
  <2>4. RefInv'
    BY <1>1, <1>2, <1>5 DEF RefInv, Unpublished
  <2> QED
    BY <1>2, <1>3, <1>5, <2>1, <2>2, <2>3, <2>4, EmptySeq
<1> QED
  BY <1>4, <1>5 DEF ReturnError

(* Errors and power cuts keep DirInv: the slots stay as they are.          *)
LEMMA NoSpaceStep ==
  ASSUME DirInv, NoSpace PROVE DirInv'
BY ReturnErrorStep DEF NoSpace

LEMMA DeviceErrorStep ==
  ASSUME DirInv, DeviceError PROVE DirInv'
BY ReturnErrorStep DEF DeviceError

LEMMA PowerCutStep ==
  ASSUME DirInv, PowerCut PROVE DirInv'
<1> USE DEF DirInv
<1>1. /\ Return /\ slots' = slots /\ free' = free /\ spoilt \subseteq spoilt'
      /\ spoilt' = IF call.kind = "rename" THEN spoilt \cup {call.ref} ELSE spoilt
      /\ (spoilt \subseteq Clusters \cup {NoCluster})'
  BY DEF PowerCut, DirTypeOK, RefInv
<1>2. NothingBehindEnd' /\ ShortNamesUnique' /\ Entries' = Entries
  BY <1>1, SlotsUnchanged
<1>3. RemovalHidesFirst'
  BY <1>1, <1>2 DEF RemovalHidesFirst
<1>4. Apart'
  BY <1>1, <1>2 DEF Apart, RefInv
<1> QED
  BY <1>1, <1>2, <1>3, <1>4, ReturnInv DEF DirTypeOK

LEMMA UndoDirectoryStep ==
  ASSUME DirInv, UndoDirectory PROVE DirInv'
<1> USE DEF DirInv
<1>1. /\ Return /\ slots' = slots /\ free' = free \cup {call.ref}
      /\ spoilt' = spoilt \cup {call.ref} /\ call.kind = "mkdir" /\ call.ref \in Clusters
  BY DEF UndoDirectory, LocalsOK
<1>2. NothingBehindEnd' /\ ShortNamesUnique' /\ Entries' = Entries
  BY <1>1, SlotsUnchanged
<1>3. RemovalHidesFirst'
  BY <1>1, <1>2 DEF RemovalHidesFirst
<1>4. Apart'
  BY <1>1, <1>2 DEF Apart, RefInv
<1>5. (free \subseteq Clusters)' /\ (spoilt \subseteq Clusters \cup {NoCluster})'
  BY <1>1 DEF DirTypeOK, RefInv
<1> QED
  BY <1>1, <1>2, <1>3, <1>4, <1>5, ReturnInv

LEMMA FreeChainStep ==
  ASSUME DirInv, FreeChain PROVE DirInv'
<1> USE DEF DirInv
<1>1. /\ Return /\ slots' = slots /\ free' = free \cup {call.ref} /\ spoilt' = spoilt
      /\ phase = "free" /\ call.kind = "remove" /\ call.ref \in Clusters
  BY DEF FreeChain, LocalsOK, DirTypeOK
<1>2. NothingBehindEnd' /\ ShortNamesUnique' /\ Entries' = Entries
  BY <1>1, SlotsUnchanged
<1>3. RemovalHidesFirst'
  <2>1. HasEntry(call.ref) => call.ref \in spoilt
    BY <1>1, DirectoryAssumption DEF RefInv
  <2> QED
    BY <1>1, <1>2, <2>1 DEF RemovalHidesFirst, HasEntry
<1>4. Apart'
  BY <1>1, <1>2 DEF Apart, RefInv
<1>5. (free \subseteq Clusters)' /\ (spoilt \subseteq Clusters \cup {NoCluster})'
  BY <1>1 DEF DirTypeOK, RefInv
<1> QED
  BY <1>1, <1>2, <1>3, <1>4, <1>5, ReturnInv

(* The entry a call is about, with the slots of its long name.             *)
LEMMA FoundFacts ==
  ASSUME slots \in Seq(Slot), NEW n \in Names, Found(n) # {}
  PROVE  /\ FindEntry(n) \in Entries /\ FindEntry(n) \in 1 .. EndIndex - 1
         /\ LfnStart(FindEntry(n)) \in 1 .. FindEntry(n)
         /\ \A i \in LfnStart(FindEntry(n)) .. FindEntry(n) - 1 : slots[i].tag = "lfn"
<1>1. Entries \in SUBSET Nat
  BY EntriesFacts
<1>2. FindEntry(n) \in Entries
  <2>1. Found(n) \in SUBSET Nat
    BY <1>1 DEF Found
  <2> QED
    BY <2>1, MinIs DEF FindEntry, Found
<1> DEFINE i == FindEntry(n)
           long == {m \in Names : HasLongName(i, m)}
<1>3. i \in 1 .. EndIndex - 1 /\ i \in Nat \ {0}
  BY <1>2, EntriesFacts
<1> HIDE DEF i
<1>4. CASE long = {}
  <2>1. LfnStart(i) = i
    BY <1>4 DEF LfnStart
  <2> QED
    BY <1>2, <1>3, <2>1 DEF i
<1>5. CASE long # {}
  <2>1. PICK m \in long : LfnStart(i) = i - LfnCount[m]
    BY <1>5 DEF LfnStart
  <2>2. LfnCount[m] \in Nat \ {0} /\ LfnCount[m] < i
    BY DirectoryAssumption DEF HasLongName, LongNameBefore
  <2>3. \A k \in 1 .. LfnCount[m] : slots[i - k].tag = "lfn"
    BY SlotKinds DEF HasLongName, LongNameBefore
  <2>4. ASSUME NEW j \in LfnStart(i) .. i - 1 PROVE slots[j].tag = "lfn"
    <3>1. i - j \in 1 .. LfnCount[m] /\ i - (i - j) = j
      BY <1>3, <2>1, <2>2
    <3> QED
      BY <2>3, <3>1
  <2>5. LfnStart(i) \in 1 .. i
    BY <1>3, <2>1, <2>2
  <2> QED
    BY <1>2, <1>3, <2>4, <2>5 DEF i
<1> QED
  BY <1>4, <1>5

(* An entry is listed under a name, or is not.                             *)
LEMMA ShownType == \A i : Shown(i) \in Names \cup {NoName}
BY DEF Shown

(* The calls begin and allocate; DirInv says what they may rely on.        *)
LEMMA CreateFileStep ==
  ASSUME DirInv, NEW n \in Names, CreateFile(n) PROVE DirInv'
<1> USE DEF DirInv
<1>1. /\ phase = "idle" /\ FreeAliases(n) # {} /\ slots' = slots /\ free' = free
      /\ spoilt' = spoilt /\ phase' = "write" /\ run' = NewSlots(n, NoCluster)
      /\ at' = Place(n).start
  BY DEF CreateFile, CreateNamedEntry
<1>2. call' = [kind |-> "create", name |-> n, source |-> NoName, ref |-> NoCluster,
               start |-> 0, last |-> 0]
  BY DEF CreateFile, NoCall
<1>3. run' \in Seq(Slot) /\ run' # <<>> /\ run' # <<End>> /\ at' \in 1 .. EndIndex /\ WriteInv'
  <2>1. call'.name = n /\ call'.ref = NoCluster /\ NoCluster \in Clusters \cup {NoCluster}
    BY <1>2
  <2> QED
    BY <1>1, <2>1, EntryStarted
<1>4. NothingBehindEnd' /\ ShortNamesUnique' /\ Entries' = Entries
  BY <1>1, SlotsUnchanged
<1>5. DirTypeOK'
  <2>1. at' \in 0 .. Len(slots') + 1
    BY <1>1, <1>3, EntriesFacts
  <2>2. call'.ref = NoCluster
    BY <1>2
  <2> QED
    BY <1>1, <1>3, <2>1, <2>2 DEF DirTypeOK
<1>6. LocalsOK'
  <2>1. call' \in CallRecords
    BY <1>2 DEF CallRecords
  <2>2. call'.kind = "create" /\ call'.name = n /\ call'.ref = NoCluster
    BY <1>2
  <2> QED
    BY <1>1, <2>1, <2>2 DEF LocalsOK
<1>7. SourceInv'
  BY <1>1, <1>2 DEF SourceInv
<1>8. call = NoCall /\ call.kind = "none"
  BY <1>1 DEF LocalsOK, NoCall
<1>9. RefInv' /\ RemovalHidesFirst'
  BY <1>1, <1>2, <1>4, <1>8 DEF RefInv, RemovalHidesFirst
<1> QED
  BY <1>1, <1>3, <1>4, <1>5, <1>6, <1>7, <1>9

LEMMA CreateDirectoryStep ==
  ASSUME DirInv, NEW n \in Names, CreateDirectory(n) PROVE DirInv'
<1> USE DEF DirInv
<1>1. /\ phase = "idle" /\ FreeAliases(n) # {} /\ slots' = slots /\ free' = free
      /\ spoilt' = spoilt /\ phase' = "alloc" /\ run' = run /\ at' = at
  BY DEF CreateDirectory
<1>2. call' = [kind |-> "mkdir", name |-> n, source |-> NoName, ref |-> NoCluster,
               start |-> 0, last |-> 0]
  BY DEF CreateDirectory, NoCall
<1>3. NothingBehindEnd' /\ ShortNamesUnique' /\ Entries' = Entries
  BY <1>1, SlotsUnchanged
<1>4. DirTypeOK'
  BY <1>1, <1>2 DEF DirTypeOK
<1>5. FreeAliases(n)' = FreeAliases(n)
  BY <1>1, <1>3 DEF FreeAliases, ShortNameExists
<1>6. LocalsOK'
  <2>1. call' \in CallRecords /\ call'.kind = "mkdir" /\ call'.name = n
    BY <1>2 DEF CallRecords
  <2>2. (FreeAliases(call.name) # {})'
    BY <1>1, <1>5, <2>1
  <2> QED
    BY <1>1, <2>1, <2>2 DEF LocalsOK
<1>7. SourceInv' /\ WriteInv'
  BY <1>1, <1>2 DEF SourceInv, WriteInv
<1>8. call = NoCall /\ call.kind = "none"
  BY <1>1 DEF LocalsOK, NoCall
<1>9. RefInv' /\ RemovalHidesFirst'
  BY <1>1, <1>2, <1>3, <1>8 DEF RefInv, RemovalHidesFirst, Unpublished
<1> QED
  BY <1>1, <1>3, <1>4, <1>6, <1>7, <1>9

LEMMA RemoveStep ==
  ASSUME DirInv, NEW n \in Names, Remove(n) PROVE DirInv'
<1> USE DEF DirInv
<1> DEFINE i == FindEntry(n)
<1>1. /\ phase = "idle" /\ slots' = slots /\ free' = free /\ run' = run /\ run = <<>>
      /\ spoilt' = spoilt /\ phase' = "delete" /\ at' = i /\ Found(n) # {}
  BY DEF Remove, LocalsOK
<1>2. call' = [kind |-> "remove", name |-> NoName, source |-> Shown(i), ref |-> slots[i].cluster,
               start |-> LfnStart(i), last |-> i]
  BY DEF Remove, CallOn
<1>3. NothingBehindEnd' /\ ShortNamesUnique' /\ Entries' = Entries /\ EndIndex' = EndIndex
  BY <1>1, SlotsUnchanged
<1>4. /\ i \in Entries /\ i \in 1 .. EndIndex - 1 /\ LfnStart(i) \in 1 .. i
      /\ \A j \in LfnStart(i) .. i - 1 : slots[j].tag = "lfn"
      /\ slots[i].tag = "short" /\ slots[i].cluster \in Clusters \cup {NoCluster}
      /\ i \in 1 .. Len(slots) /\ EndIndex \in Nat /\ Len(slots) \in Nat
  BY <1>1, FoundFacts, EntriesFacts
<1> HIDE DEF i
<1>5. /\ call' \in CallRecords /\ call'.kind = "remove" /\ call'.ref = slots[i].cluster
      /\ call'.start = LfnStart(i) /\ call'.last = i
  BY <1>2, <1>4, ShownType DEF CallRecords
<1>6. DirTypeOK'
  BY <1>1, <1>4, <1>5 DEF DirTypeOK
<1>7. LocalsOK'
  BY <1>1, <1>5 DEF LocalsOK
<1>8. WriteInv'
  BY <1>1 DEF WriteInv
<1>9. SourceInv'
  BY <1>1, <1>3, <1>4, <1>5 DEF SourceInv
<1>10. call = NoCall /\ call.kind = "none"
  BY <1>1 DEF LocalsOK, NoCall
<1>11. RefInv' /\ RemovalHidesFirst'
  BY <1>1, <1>3, <1>4, <1>5, <1>10 DEF RefInv, RemovalHidesFirst
<1> QED
  BY <1>1, <1>3, <1>6, <1>7, <1>8, <1>9, <1>11

LEMMA RenameStep ==
  ASSUME DirInv, NEW n \in Names, NEW m \in Names, Rename(n, m) PROVE DirInv'
<1> USE DEF DirInv
<1> DEFINE i == FindEntry(n)
<1>1. /\ phase = "idle" /\ slots' = slots /\ free' = free /\ FreeAliases(m) # {}
      /\ run' = NewSlots(m, slots[i].cluster) /\ at' = Place(m).start
      /\ spoilt' = spoilt /\ phase' = "write" /\ Found(n) # {}
  BY DEF Rename, CreateNamedEntry
<1>2. call' = [kind |-> "rename", name |-> m, source |-> Shown(i), ref |-> slots[i].cluster,
               start |-> LfnStart(i), last |-> i]
  BY DEF Rename, CallOn
<1>3. NothingBehindEnd' /\ ShortNamesUnique' /\ Entries' = Entries /\ EndIndex' = EndIndex
  BY <1>1, SlotsUnchanged
<1>4. /\ i \in Entries /\ i \in 1 .. EndIndex - 1 /\ LfnStart(i) \in 1 .. i
      /\ \A j \in LfnStart(i) .. i - 1 : slots[j].tag = "lfn"
      /\ slots[i].tag = "short" /\ slots[i].cluster \in Clusters \cup {NoCluster}
      /\ i \in 1 .. Len(slots) /\ EndIndex \in 1 .. Len(slots) + 1 /\ Len(slots) \in Nat
  BY <1>1, FoundFacts, EntriesFacts
<1> HIDE DEF i
<1>5. /\ call' \in CallRecords /\ call'.kind = "rename" /\ call'.ref = slots[i].cluster
      /\ call'.start = LfnStart(i) /\ call'.last = i /\ call'.name = m
  BY <1>2, <1>4, ShownType DEF CallRecords
<1>6. run' \in Seq(Slot) /\ run' # <<>> /\ run' # <<End>> /\ at' \in 1 .. EndIndex /\ WriteInv'
  BY <1>1, <1>4, <1>5, EntryStarted
<1>7. DirTypeOK'
  <2>1. at' \in 0 .. Len(slots') + 1
    BY <1>1, <1>4, <1>6
  <2> QED
    BY <1>1, <1>4, <1>5, <1>6, <2>1 DEF DirTypeOK
<1>8. LocalsOK'
  BY <1>1, <1>5 DEF LocalsOK
<1>9. SourceInv'
  BY <1>1, <1>3, <1>4, <1>5 DEF SourceInv
<1>10. call = NoCall /\ call.kind = "none"
  BY <1>1 DEF LocalsOK, NoCall
<1>11. RefInv' /\ RemovalHidesFirst'
  BY <1>1, <1>3, <1>4, <1>5, <1>10 DEF RefInv, RemovalHidesFirst
<1> QED
  BY <1>1, <1>3, <1>6, <1>7, <1>8, <1>9, <1>11

LEMMA AllocateClusterStep ==
  ASSUME DirInv, AllocateCluster PROVE DirInv'
<1> USE DEF DirInv
<1>1. PICK c \in free : free' = free \ {c} /\ call' = [call EXCEPT !.ref = c]
  BY DEF AllocateCluster
<1>2. /\ phase = "alloc" /\ phase' = "dots" /\ slots' = slots /\ run' = run /\ at' = at
      /\ spoilt' = spoilt /\ call \in CallRecords /\ call.kind = "mkdir" /\ c \in Clusters
      /\ FreeAliases(call.name) # {} /\ call.name \in Names
  BY DEF AllocateCluster, LocalsOK, DirTypeOK
<1>3. /\ NothingBehindEnd' /\ ShortNamesUnique' /\ Entries' = Entries
      /\ \A d : HasEntry(d)' <=> HasEntry(d)
  BY <1>2, SlotsUnchanged
<1>4. call' \in CallRecords /\ call'.kind = "mkdir" /\ call'.name = call.name /\ call'.ref = c
  BY <1>1, <1>2 DEF CallRecords
<1>5. DirTypeOK'
  BY <1>1, <1>2, <1>4 DEF DirTypeOK
<1>6. LocalsOK'
  <2>1. (FreeAliases(call.name) # {})'
    BY <1>2, <1>3, <1>4 DEF FreeAliases, ShortNameExists
  <2> QED
    BY <1>2, <1>4, <2>1 DEF LocalsOK
<1>7. WriteInv' /\ SourceInv'
  BY <1>2, <1>4 DEF WriteInv, SourceInv
<1>8. RefInv'
  <2>1. HasEntry(c) => c \in spoilt
    BY DEF HasEntry, RemovalHidesFirst
  <2>2. \A i, j \in Entries' :
          (slots[i].cluster = slots[j].cluster /\ slots[i].cluster \in Clusters \ spoilt)' => i = j
    BY <1>2, <1>3 DEF RefInv
  <2> QED
    BY <1>1, <1>2, <1>3, <1>4, <2>1, <2>2 DEF RefInv
<1>9. RemovalHidesFirst'
  BY <1>1, <1>2, <1>3 DEF RemovalHidesFirst
<1> QED
  BY <1>2, <1>3, <1>5, <1>6, <1>7, <1>8, <1>9

LEMMA WriteDotEntriesStep ==
  ASSUME DirInv, WriteDotEntries PROVE DirInv'
<1> USE DEF DirInv
<1>1. /\ phase = "dots" /\ phase' = "name" /\ UNCHANGED <<slots, free, call, run, at, spoilt>>
      /\ call \in CallRecords /\ call.kind = "mkdir"
      /\ FreeAliases(call.name) # {} /\ call.name \in Names
  BY DEF WriteDotEntries, LocalsOK
<1>2. /\ NothingBehindEnd' /\ ShortNamesUnique' /\ Entries' = Entries
      /\ \A d : HasEntry(d)' <=> HasEntry(d)
  BY <1>1, SlotsUnchanged
<1>3. DirTypeOK'
  BY <1>1 DEF DirTypeOK
<1>4. LocalsOK'
  <2>1. (FreeAliases(call.name) # {})'
    BY <1>1, <1>2 DEF FreeAliases, ShortNameExists
  <2> QED
    BY <1>1, <2>1 DEF LocalsOK
<1>5. WriteInv' /\ SourceInv'
  BY <1>1 DEF WriteInv, SourceInv
<1>6. RefInv' /\ RemovalHidesFirst'
  BY <1>1, <1>2 DEF RefInv, Unpublished, RemovalHidesFirst
<1> QED
  BY <1>1, <1>2, <1>3, <1>4, <1>5, <1>6

LEMMA NameDirectoryStep ==
  ASSUME DirInv, NameDirectory PROVE DirInv'
<1> USE DEF DirInv
<1>1. CASE Fits(call.name)
  <2>1. /\ phase = "name" /\ phase' = "write" /\ UNCHANGED <<slots, free, call, spoilt>>
        /\ run' = NewSlots(call.name, call.ref) /\ at' = Place(call.name).start
        /\ call \in CallRecords /\ call.kind = "mkdir" /\ call.ref \in Clusters
        /\ FreeAliases(call.name) # {} /\ call.name \in Names
    BY <1>1 DEF NameDirectory, CreateNamedEntry, LocalsOK
  <2>2. /\ NothingBehindEnd' /\ ShortNamesUnique' /\ Entries' = Entries
        /\ \A d : HasEntry(d)' <=> HasEntry(d)
    BY <2>1, SlotsUnchanged
  <2>3. run' \in Seq(Slot) /\ run' # <<>> /\ run' # <<End>> /\ at' \in 1 .. EndIndex /\ WriteInv'
    BY <2>1, EntryStarted
  <2>4. DirTypeOK'
    <3>1. at' \in 0 .. Len(slots') + 1
      BY <2>1, <2>3, EntriesFacts
    <3> QED
      BY <2>1, <2>3, <3>1 DEF DirTypeOK
  <2>5. LocalsOK'
    BY <2>1 DEF LocalsOK
  <2>6. SourceInv'
    BY <2>1 DEF SourceInv
  <2>7. RefInv' /\ RemovalHidesFirst'
    BY <2>1, <2>2 DEF RefInv, Unpublished, RemovalHidesFirst
  <2> QED
    BY <2>1, <2>2, <2>3, <2>4, <2>5, <2>6, <2>7
<1>2. CASE ~ Fits(call.name)
  BY <1>2, ReturnErrorStep DEF NameDirectory, CreateNamedEntry
<1> QED
  BY <1>1, <1>2

(* A cluster added to the directory is cleared, so that the end stays      *)
(* where it is.                                                            *)
LEMMA GrowDirectoryStep ==
  ASSUME DirInv, GrowDirectory
  PROVE  /\ DirInv' /\ at = Len(slots) + 1
         /\ Len(slots) \in Nat /\ Len(slots') = Len(slots) + SlotsPerCluster
         /\ EndIndex = Len(slots) + 1 /\ EndIndex' = EndIndex /\ Entries' = Entries
         /\ \A i \in 1 .. Len(slots) : slots'[i] = slots[i]
         /\ \A short, count, left : Writing(short, count, left) => Writing(short, count, left)'
<1> USE DEF DirInv
<1>1. PICK c \in free : free' = free \ {c}
  BY DEF GrowDirectory
<1>2. /\ phase = "write" /\ at > Len(slots) /\ UNCHANGED <<phase, call, run, at, spoilt>>
      /\ slots' = slots \o [i \in 1 .. SlotsPerCluster |-> End]
  BY DEF GrowDirectory
<1>3. at = EndIndex /\ EndIndex = Len(slots) + 1 /\ Len(slots) \in Nat
  BY <1>2, EntriesFacts DEF WriteInv
<1>4. /\ slots' \in Seq(Slot) /\ Len(slots') = Len(slots) + SlotsPerCluster /\ NothingBehindEnd'
      /\ EndIndex' = EndIndex /\ Entries' = Entries
      /\ \A i \in 1 .. Len(slots) : slots'[i] = slots[i]
  <2>1. slots \in Seq(Slot) /\ EndOf(slots) = Len(slots) + 1
    BY <1>3, OfSlots
  <2> QED
    BY <1>2, <2>1, SlotsAppended, OfSlots
<1>5. SlotsPerCluster \in Nat \ {0}
  BY DirectoryAssumption
<1>6. /\ \A i \in Entries : i \in 1 .. Len(slots) /\ slots'[i] = slots[i]
      /\ \A d : HasEntry(d)' <=> HasEntry(d)
  BY <1>4, EntriesFacts DEF HasEntry
<1>7. DirTypeOK'
  <2>1. \A i \in DOMAIN slots' : slots'[i].tag \in {"end", "deleted", "lfn", "short"}
    <3>1. (slots \in Seq(Slot) => \A i \in DOMAIN slots : slots[i].tag \in {"end", "deleted", "lfn", "short"})'
      BY TagsOK, PTL
    <3> QED
      BY <1>4, <3>1
  <2>2. at' \in 0 .. Len(slots') + 1
    BY <1>2, <1>3, <1>4, <1>5
  <2> QED
    BY <1>1, <1>2, <2>1, <2>2 DEF DirTypeOK
<1>8. LocalsOK'
  BY <1>2 DEF LocalsOK
<1>9. /\ WriteInv'
      /\ \A short, count, left : Writing(short, count, left) => Writing(short, count, left)'
  <2>1. \A short : ShortNameExists(short)' <=> ShortNameExists(short)
    BY <1>4, <1>6 DEF ShortNameExists
  <2>2. DOMAIN slots = 1 .. Len(slots) /\ DOMAIN slots' = 1 .. Len(slots')
    BY <1>4
  <2>3. \A i \in DOMAIN slots : i \in DOMAIN slots' /\ slots'[i] = slots[i]
    BY <1>3, <1>4, <1>5, <2>2
  <2>4. ASSUME NEW short, NEW count, NEW left, Writing(short, count, left)
        PROVE  Writing(short, count, left)'
    BY <1>2, <2>1, <2>3, <2>4 DEF Writing
  <2>5. \A i \in at .. at + Len(run) - 1 : ~ (i < EndIndex)
    BY <1>3
  <2> QED
    BY <1>2, <1>3, <1>4, <2>4, <2>5 DEF WriteInv, Published
<1>10. SourceInv'
  BY <1>2, <1>3, <1>4, <1>6 DEF SourceInv, LocalsOK, CallRecords
<1>11. RemovalHidesFirst' /\ ShortNamesUnique'
  BY <1>1, <1>2, <1>4, <1>6 DEF RemovalHidesFirst, ShortNamesUnique
<1>12. RefInv'
  BY <1>1, <1>2, <1>4, <1>6 DEF RefInv, Unpublished
<1> QED
  BY <1>2, <1>3, <1>4, <1>7, <1>8, <1>9, <1>10, <1>11, <1>12

(* The slots that are left when the first of them has been written.        *)
LEMMA NamedSlotsRest ==
  ASSUME NEW n \in Names, NEW c \in Clusters \cup {NoCluster}, NEW short \in ShortNames,
         NEW left \in Nat
  PROVE  /\ NamedSlots(n, c, short, left) \in Seq(Slot) /\ NamedSlots(n, c, short, left) # <<>>
         /\ left > 0 => /\ Head(NamedSlots(n, c, short, left)) = Lfn(n, left, short)
                        /\ Tail(NamedSlots(n, c, short, left)) = NamedSlots(n, c, short, left - 1)
         /\ left = 0 => NamedSlots(n, c, short, left) = <<Short(short, c)>>
<1>1. PICK q \in Seq(Slot) :
        /\ q = NamedSlots(n, c, short, left) /\ Len(q) = left + 1
        /\ q[left + 1] = Short(short, c)
        /\ \A i \in 1 .. left : q[i] = Lfn(n, left + 1 - i, short)
  BY NamedSlotsFacts
<1>2. /\ q # <<>> /\ Head(q) = q[1] /\ Tail(q) \in Seq(Slot) /\ Len(Tail(q)) = left
      /\ \A i \in 1 .. left : Tail(q)[i] = q[i + 1]
  <2>1. q # <<>>
    BY <1>1
  <2>2. Tail(q) \in Seq(Slot) /\ Len(Tail(q)) = Len(q) - 1
        /\ \A i \in 1 .. Len(Tail(q)) : Tail(q)[i] = q[i + 1]
    BY <2>1, HeadTailProperties
  <2> QED
    BY <1>1, <2>1, <2>2
<1>3. CASE left > 0
  <2>1. PICK m \in Nat : left = m + 1 /\ m = left - 1
    BY <1>3
  <2>2. Head(q) = Lfn(n, left, short)
    <3>1. 1 \in 1 .. left /\ left + 1 - 1 = left
      BY <1>3
    <3> QED
      BY <1>1, <1>2, <3>1
  <2>3. Tail(q)[m + 1] = Short(short, c)
    <3>1. m + 1 \in 1 .. left /\ (m + 1) + 1 = left + 1
      BY <2>1
    <3> QED
      BY <1>1, <1>2, <3>1
  <2>4. \A i \in 1 .. m : Tail(q)[i] = Lfn(n, m + 1 - i, short)
    <3> TAKE i \in 1 .. m
    <3>1. i \in 1 .. left /\ i + 1 \in 1 .. left /\ left + 1 - (i + 1) = m + 1 - i
      BY <2>1
    <3>2. Tail(q)[i] = q[i + 1]
      BY <1>2, <3>1
    <3>3. q[i + 1] = Lfn(n, left + 1 - (i + 1), short)
      BY <1>1, <3>1
    <3> QED
      BY <3>1, <3>2, <3>3
  <2>5. Tail(q) = NamedSlots(n, c, short, m)
    <3>1. Tail(q) \in Seq(Slot) /\ Len(Tail(q)) = m + 1
      BY <1>2, <2>1
    <3> QED
      BY <2>3, <2>4, <3>1, NamedSlotsIs
  <2> QED
    BY <1>1, <1>2, <1>3, <2>1, <2>2, <2>5
<1>4. CASE left = 0
  <2>1. q[1] = Short(short, c) /\ Len(q) = 1
    BY <1>1, <1>4
  <2> QED
    BY <1>1, <1>2, <1>4, <2>1
<1> QED
  BY <1>3, <1>4

MaybeEnd(q) == {q, Append(q, End)}

(* What is left of a run after a piece of the name was written.            *)
LEMMA RestOfPieces ==
  ASSUME NEW n \in Names, NEW c \in Clusters \cup {NoCluster}, NEW short \in ShortNames,
         NEW left \in Nat \ {0}, NEW r \in MaybeEnd(NamedSlots(n, c, short, left)),
         NEW rest \in Seq(Slot), Len(rest) = Len(r) - 1,
         \A i \in 1 .. Len(rest) : rest[i] = r[i + 1]
  PROVE  /\ Len(r) > 1 /\ r[1] = Lfn(n, left, short)
         /\ rest \in MaybeEnd(NamedSlots(n, c, short, left - 1))
<1> DEFINE q == NamedSlots(n, c, short, left)
<1>1. /\ left \in Nat /\ left > 0 /\ q \in Seq(Slot) /\ q # <<>> /\ Len(q) = left + 1
      /\ Head(q) = Lfn(n, left, short) /\ Tail(q) = NamedSlots(n, c, short, left - 1)
  <2>1. left \in Nat /\ left > 0
    OBVIOUS
  <2> QED
    BY <2>1, NamedSlotsRest, NamedSlotsFacts
<1> HIDE DEF q
<1>2. End \in Slot
  BY SlotKinds
<1>3. /\ Append(q, End) \in Seq(Slot) /\ Append(q, End) # <<>> /\ Len(Append(q, End)) = Len(q) + 1
      /\ Head(Append(q, End)) = Head(q) /\ Tail(Append(q, End)) = Append(Tail(q), End)
  <2>1. /\ Append(q, End) \in Seq(Slot) /\ Append(q, End) # <<>>
        /\ Len(Append(q, End)) = Len(q) + 1
    BY <1>1, <1>2, AppendProperties
  <2>2. Head(Append(q, End)) = Head(q) /\ Tail(Append(q, End)) = Append(Tail(q), End)
    BY <1>1, HeadTailAppend
  <2> QED
    BY <2>1, <2>2
<1>4. r = q \/ r = Append(q, End)
  BY DEF q, MaybeEnd
<1>5. r \in Seq(Slot) /\ r # <<>> /\ Head(r) = Head(q) /\ Head(r) = r[1] /\ rest = Tail(r)
  <2>1. r \in Seq(Slot) /\ r # <<>> /\ Head(r) = Head(q)
    BY <1>1, <1>3, <1>4
  <2>2. /\ Tail(r) \in Seq(Slot) /\ Len(Tail(r)) = Len(r) - 1
        /\ \A i \in 1 .. Len(Tail(r)) : Tail(r)[i] = r[i + 1]
    BY <2>1, HeadTailProperties
  <2>3. rest = Tail(r)
    BY <2>2, SeqEqual
  <2>4. Head(r) = r[1]
    BY <2>1
  <2> QED
    BY <2>1, <2>3, <2>4
<1>6. Len(r) > 1
  BY <1>1, <1>3, <1>4
<1>7. Tail(r) = Tail(q) \/ Tail(r) = Append(Tail(q), End)
  BY <1>3, <1>4
<1>8. rest \in MaybeEnd(NamedSlots(n, c, short, left - 1))
  BY <1>1, <1>5, <1>7 DEF MaybeEnd
<1> QED
  BY <1>1, <1>5, <1>6, <1>8

(* What is left of it after the short entry was written.                   *)
LEMMA RestOfEntry ==
  ASSUME NEW n \in Names, NEW c \in Clusters \cup {NoCluster}, NEW short \in ShortNames,
         NEW r \in MaybeEnd(NamedSlots(n, c, short, 0))
  PROVE  /\ r[1] = Short(short, c)
         /\ Len(r) = 1 \/ (Len(r) = 2 /\ r[2] = End)
<1>1. /\ NamedSlots(n, c, short, 0) = <<Short(short, c)>> /\ Short(short, c) \in Slot
      /\ End \in Slot
  BY NamedSlotsRest, SlotKinds
<1>2. r = <<Short(short, c)>> \/ r = Append(<<Short(short, c)>>, End)
  BY <1>1 DEF MaybeEnd
<1>3. PICK q \in Seq(Slot) : q = <<Short(short, c)>> /\ Len(q) = 1 /\ q[1] = Short(short, c)
  <2>1. \A x \in Slot : <<x>> \in Seq(Slot) /\ Len(<<x>>) = 1 /\ <<x>>[1] = x
    OBVIOUS
  <2> QED
    BY <1>1, <2>1
<1>4. /\ Len(Append(q, End)) = 2 /\ Append(q, End)[1] = Short(short, c)
      /\ Append(q, End)[2] = End
  <2>1. /\ Len(Append(q, End)) = Len(q) + 1 /\ Append(q, End)[Len(q) + 1] = End
        /\ \A i \in 1 .. Len(q) : Append(q, End)[i] = q[i]
    BY <1>1, AppendProperties
  <2>2. Len(q) + 1 = 2 /\ 1 \in 1 .. Len(q)
    BY <1>3
  <2> QED
    BY <1>3, <2>1, <2>2
<1> QED
  BY <1>2, <1>3, <1>4

(* Two entries with one cluster are the two entries of a rename.           *)
OfRename ==
  \A i, j \in Entries :
    slots[i].cluster = slots[j].cluster /\ slots[i].cluster \in Clusters \ spoilt /\ i # j =>
      call.kind = "rename" /\ slots[i].cluster = call.ref /\ call.last \in {i, j}

(* A call has written the last slot of its entry.                          *)
LEMMA EntryFinished ==
  ASSUME DirInv, phase = "write", (slots \in Seq(Slot))', Len(slots') = Len(slots),
         UNCHANGED <<free, spoilt>>, EndIndex <= EndIndex', NothingBehindEnd', ShortNamesUnique',
         RemovalHidesFirst', OfRename',
         call.kind = "rename" => \A i \in call.start .. call.last : slots'[i] = slots[i],
         IF call.kind = "rename"
           THEN phase' = "delete" /\ run' = <<>> /\ at' = call.last /\ UNCHANGED call
           ELSE Return
  PROVE  DirInv'
<1> USE DEF DirInv
<1>1. CASE call.kind # "rename"
  <2>1. Return
    BY <1>1
  <2>2. call'.kind = "none"
    BY <2>1 DEF Return, NoCall
  <2>3. Apart'
    BY <2>2 DEF OfRename, Apart
  <2>4. (free \subseteq Clusters)' /\ (spoilt \subseteq Clusters \cup {NoCluster})'
    BY DEF DirTypeOK, RefInv
  <2> QED
    BY <2>1, <2>3, <2>4, ReturnInv
<1>2. CASE call.kind = "rename"
  <2>1. phase' = "delete" /\ run' = <<>> /\ at' = call.last /\ call' = call /\ call \in CallRecords
    BY <1>2 DEF LocalsOK
  <2>2. /\ 1 <= call.start /\ call.start <= call.last /\ call.last < EndIndex
        /\ \A i \in call.start .. call.last : i < call.last => slots[i].tag = "lfn"
        /\ slots[call.last].tag = "short" /\ slots[call.last].cluster = call.ref
        /\ call.start \in Nat /\ call.last \in Nat
    BY <1>2, <2>1 DEF SourceInv, CallRecords
  <2>3. EndIndex \in 1 .. Len(slots) + 1 /\ Len(slots) \in Nat
    BY EntriesFacts
  <2>4. EndIndex' \in 1 .. Len(slots') + 1
    BY EndOfFacts, OfSlots
  <2>5. DirTypeOK'
    <3>1. (slots \in Seq(Slot) => \A i \in DOMAIN slots : slots[i].tag \in {"end", "deleted", "lfn", "short"})'
      BY TagsOK, PTL
    <3>2. at' \in 0 .. Len(slots') + 1
      BY <2>1, <2>2, <2>3
    <3> QED
      BY <2>1, <3>1, <3>2 DEF DirTypeOK
  <2>6. LocalsOK'
    BY <1>2, <2>1 DEF LocalsOK
  <2>7. WriteInv'
    BY <2>1 DEF WriteInv
  <2>8. SourceInv'
    <3>1. call.last \in call.start .. call.last /\ call.last < EndIndex'
      BY <2>2, <2>3, <2>4
    <3>2. \A i \in call.last + 1 .. call.last : FALSE
      BY <2>2
    <3>3. slots'[call.last].tag = "short" /\ slots'[call.last].cluster = call.ref
      BY <1>2, <2>2, <3>1
    <3>4. \A i \in call.start .. call.last : i < call.last => slots'[i].tag = "lfn"
      BY <1>2, <2>2
    <3> QED
      BY <2>1, <2>2, <3>1, <3>2, <3>3, <3>4 DEF SourceInv
  <2>9. RefInv'
    BY <1>2, <2>1 DEF RefInv, OfRename, Unpublished
  <2> QED
    BY <2>1, <2>5, <2>6, <2>7, <2>8, <2>9, EmptySeq
<1> QED
  BY <1>1, <1>2

(* A run never begins with the end marker.                                 *)
LEMMA NamedSlotsStart ==
  ASSUME NEW n \in Names, NEW c \in Clusters \cup {NoCluster}, NEW short \in ShortNames,
         NEW left \in Nat, NEW r \in MaybeEnd(NamedSlots(n, c, short, left))
  PROVE  r[1] # End
<1>1. PICK q \in Seq(Slot) :
        /\ q = NamedSlots(n, c, short, left) /\ Len(q) = left + 1
        /\ q[left + 1] = Short(short, c)
        /\ \A i \in 1 .. left : q[i] = Lfn(n, left + 1 - i, short)
  BY NamedSlotsFacts
<1>2. q[1] # End
  <2>1. CASE left = 0
    BY <1>1, <2>1, SlotKinds
  <2>2. CASE left > 0
    <3>1. q[1] = Lfn(n, left + 1 - 1, short)
      BY <1>1, <2>2
    <3>2. End.tag = "end" /\ Lfn(n, left + 1 - 1, short).tag = "lfn"
      BY SlotKinds
    <3> QED
      BY <3>1, <3>2
  <2> QED
    BY <2>1, <2>2
<1>3. Append(q, End)[1] = q[1]
  BY <1>1, SlotKinds
<1> QED
  BY <1>1, <1>2, <1>3 DEF MaybeEnd

(* What a write of create_named_entry finds: it fills a deleted slot or    *)
(* the end.                                                                *)
LEMMA WriteSlotFacts ==
  ASSUME DirInv, WriteSlot
  PROVE  /\ phase = "write" /\ slots' = [slots EXCEPT ![at] = Head(run)]
         /\ UNCHANGED <<free, spoilt>> /\ call \in CallRecords /\ call.name \in Names
         /\ run \in Seq(Slot) /\ run # <<>> /\ Len(run) \in Nat \ {0}
         /\ at \in 1 .. Len(slots) /\ at <= EndIndex
         /\ at < EndIndex => slots[at] = Deleted
         /\ EndIndex \in 1 .. Len(slots) + 1 /\ Len(slots) \in Nat
<1> USE DEF DirInv
<1>1. /\ phase = "write" /\ at <= Len(slots) /\ slots' = [slots EXCEPT ![at] = Head(run)]
      /\ UNCHANGED <<free, spoilt>> /\ run # <<>> /\ run \in Seq(Slot)
      /\ call \in CallRecords /\ call.name \in Names
  BY DEF WriteSlot, LocalsOK, DirTypeOK
<1>2. Len(run) \in Nat \ {0}
  BY <1>1
<1>3. EndIndex \in 1 .. Len(slots) + 1 /\ Len(slots) \in Nat
  BY EntriesFacts
<1>4. /\ at \in 1 .. EndIndex
      /\ \A i \in at .. at + Len(run) - 1 : i < EndIndex => slots[i] = Deleted
  BY <1>1 DEF WriteInv
<1>5. at \in at .. at + Len(run) - 1
  BY <1>2, <1>3, <1>4
<1> QED
  BY <1>1, <1>2, <1>3, <1>4, <1>5

(* What that write does to the end and to the entries.                     *)
LEMMA SlotWrittenHere ==
  ASSUME slots \in Seq(Slot), NothingBehindEnd, at \in 1 .. Len(slots), at <= EndIndex,
         at < EndIndex => slots[at] = Deleted,
         NEW x \in Slot, x # End, slots' = [slots EXCEPT ![at] = x]
  PROVE  /\ slots' \in Seq(Slot) /\ Len(slots') = Len(slots) /\ NothingBehindEnd'
         /\ EndIndex' = IF at = EndIndex THEN at + 1 ELSE EndIndex
         /\ x.tag = "short" => Entries' = Entries \cup {at}
         /\ x.tag # "short" => Entries' = Entries
         /\ at \notin Entries
         /\ \A i \in 1 .. Len(slots) : slots'[i] = IF i = at THEN x ELSE slots[i]
<1>1. PICK q \in Seq(Slot) : q = slots
  OBVIOUS
<1>2. PICK a \in 1 .. Len(q) : a = at
  BY <1>1
<1>3. PICK r : r = slots'
  OBVIOUS
<1>4. /\ EndIndex = EndOf(q) /\ Entries = EntriesOf(q) /\ Behind(q)
      /\ EndIndex' = EndOf(r) /\ Entries' = EntriesOf(r) /\ (NothingBehindEnd' <=> Behind(r))
  BY <1>1, <1>3, OfSlots
<1>5. /\ r \in Seq(Slot) /\ Len(r) = Len(q) /\ a <= EndOf(q)
      /\ \A i \in 1 .. Len(q) : r[i] = IF i = a THEN x ELSE q[i]
  BY <1>1, <1>2, <1>3, <1>4
<1>6. a < EndOf(q) => q[a] = Deleted
  BY <1>1, <1>2, <1>4
<1>7. /\ Behind(r)
      /\ EndOf(r) = IF a = EndOf(q) THEN a + 1 ELSE EndOf(q)
      /\ EntriesOf(r) = IF x.tag = "short" THEN EntriesOf(q) \cup {a} ELSE EntriesOf(q)
      /\ a \notin EntriesOf(q)
  BY <1>4, <1>5, <1>6, SlotWritten
<1>8. /\ x.tag = "short" => EntriesOf(r) = EntriesOf(q) \cup {a}
      /\ x.tag # "short" => EntriesOf(r) = EntriesOf(q)
  BY <1>7
<1> QED
  BY <1>1, <1>2, <1>3, <1>4, <1>5, <1>7, <1>8

(* The new end marker.                                                     *)
LEMMA WriteEndStep ==
  ASSUME DirInv, WriteSlot, Published
  PROVE  /\ DirInv' /\ slots' = slots
         /\ IF call.kind = "rename" THEN phase' = "delete" /\ at' = call.last /\ UNCHANGED call
            ELSE Return
<1> USE DEF DirInv
<1>1. /\ phase = "write" /\ slots' = [slots EXCEPT ![at] = Head(run)]
      /\ UNCHANGED <<free, spoilt>> /\ run = <<End>> /\ Len(run) = 1
      /\ at \in 1 .. Len(slots) /\ at <= EndIndex
      /\ EndIndex \in 1 .. Len(slots) + 1 /\ Len(slots) \in Nat
  <2>1. run = <<End>> /\ Len(run) = 1
    BY DEF Published
  <2> QED
    BY <2>1, WriteSlotFacts
<1>2. EndIndex < at + Len(run)
  <2>1. run[Len(run)] = End
    BY <1>1
  <2> QED
    BY <1>1, <2>1 DEF WriteInv
<1>3. at = EndIndex
  BY <1>1, <1>2
<1>4. slots' = slots
  <2>1. Head(run) = End
    BY <1>1
  <2>2. at = EndOf(slots)
    BY <1>3, OfSlots
  <2> QED
    BY <1>1, <2>1, <2>2, EndWritten
<1>5. /\ NothingBehindEnd' /\ ShortNamesUnique' /\ Entries' = Entries /\ EndIndex' = EndIndex
  BY <1>4, SlotsUnchanged
<1>6. IF call.kind = "rename"
        THEN phase' = "delete" /\ run' = <<>> /\ at' = call.last /\ UNCHANGED call
        ELSE Return
  BY <1>1 DEF WriteSlot
<1>7. RemovalHidesFirst'
  BY <1>1, <1>4, <1>5 DEF RemovalHidesFirst
<1>8. OfRename'
  <2>1. OfRename
    BY DEF OfRename, RefInv
  <2>2. call.kind = "rename" => call' = call
    BY <1>6
  <2>3. call.kind # "rename" => Apart'
    BY <1>1, <1>4, <1>5, <2>1 DEF OfRename, Apart
  <2> QED
    BY <1>1, <1>4, <1>5, <2>1, <2>2, <2>3 DEF OfRename, Apart
<1> QED
  BY <1>1, <1>4, <1>5, <1>6, <1>7, <1>8, EntryFinished

(* A piece of the long name.                                               *)
LEMMA WritePieceStep ==
  ASSUME DirInv, WriteSlot, NEW short \in ShortNames, NEW count \in {0, LfnCount[call.name]},
         NEW left \in 1 .. count, Writing(short, count, left)
  PROVE  /\ DirInv' /\ Entries' = Entries
         /\ slots' = [slots EXCEPT ![at] = Lfn(call.name, left, short)]
         /\ ~ Published' /\ UNCHANGED <<phase, call>> /\ at' = at + 1
         /\ \E less \in 0 .. count : less = left - 1 /\ Writing(short, count, less)'
<1> USE DEF DirInv
<1>1. /\ phase = "write" /\ slots' = [slots EXCEPT ![at] = Head(run)]
      /\ UNCHANGED <<free, spoilt>> /\ call \in CallRecords /\ call.name \in Names
      /\ run \in Seq(Slot) /\ run # <<>> /\ Len(run) \in Nat \ {0}
      /\ at \in 1 .. Len(slots) /\ at <= EndIndex
      /\ at < EndIndex => slots[at] = Deleted
      /\ EndIndex \in 1 .. Len(slots) + 1 /\ Len(slots) \in Nat
  BY WriteSlotFacts
<1>0. /\ at \in Nat /\ EndIndex \in Nat /\ Len(slots) \in Nat /\ Len(run) \in Nat
      /\ 1 <= at /\ at <= Len(slots) /\ at <= EndIndex /\ EndIndex <= Len(slots) + 1
  BY <1>1
<1>2. /\ count \in Nat /\ left \in Nat /\ left > 0 /\ left <= count
      /\ call.ref \in Clusters \cup {NoCluster}
  <2>1. count \in Nat
    BY <1>1, DirectoryAssumption
  <2> QED
    BY <1>1, <2>1 DEF CallRecords
<1>a. PICK head, rest : head = Head(run) /\ rest = Tail(run)
  OBVIOUS
<1>b. /\ rest \in Seq(Slot) /\ Len(rest) = Len(run) - 1 /\ head = run[1]
      /\ \A i \in 1 .. Len(rest) : rest[i] = run[i + 1]
  BY <1>1, <1>a, HeadTailProperties
<1>3. /\ Len(run) > 1 /\ head = Lfn(call.name, left, short)
      /\ rest \in MaybeEnd(NamedSlots(call.name, call.ref, short, left - 1))
  <2>1. run \in MaybeEnd(NamedSlots(call.name, call.ref, short, left))
    BY DEF Writing, MaybeEnd
  <2>2. call.name \in Names
    BY <1>1
  <2> QED
    <3>1. PICK n \in Names, c \in Clusters \cup {NoCluster} : n = call.name /\ c = call.ref
      BY <1>2, <2>2
    <3>2. PICK r \in MaybeEnd(NamedSlots(n, c, short, left)) : r = run
      BY <2>1, <3>1
    <3>3. /\ rest \in Seq(Slot) /\ Len(rest) = Len(r) - 1 /\ head = r[1] /\ left \in Nat /\ left > 0
          /\ \A i \in 1 .. Len(rest) : rest[i] = r[i + 1]
      BY <1>2, <1>b, <3>2
    <3>4. Len(r) > 1 /\ r[1] = Lfn(n, left, short) /\ rest \in MaybeEnd(NamedSlots(n, c, short, left - 1))
      <4>1. left \in Nat \ {0}
        BY <3>3
      <4> QED
        BY <3>3, <4>1, RestOfPieces
    <3> QED
      BY <3>1, <3>2, <3>3, <3>4
<1>4. slots' = [slots EXCEPT ![at] = head] /\ run' = rest /\ at' = at + 1 /\ UNCHANGED <<phase, call>>
  BY <1>1, <1>3, <1>a DEF WriteSlot
<1>5. head \in Slot /\ head.tag = "lfn" /\ head # End
  BY <1>1, <1>2, <1>3, SlotKinds
<1>6. /\ slots' \in Seq(Slot) /\ Len(slots') = Len(slots) /\ NothingBehindEnd'
      /\ EndIndex' = IF at = EndIndex THEN at + 1 ELSE EndIndex
      /\ Entries' = Entries /\ at \notin Entries
      /\ \A i \in 1 .. Len(slots) : slots'[i] = IF i = at THEN head ELSE slots[i]
  BY <1>1, <1>4, <1>5, SlotWrittenHere
<1>7. /\ \A i \in Entries : i \in 1 .. Len(slots) /\ slots'[i] = slots[i]
      /\ \A d : HasEntry(d)' <=> HasEntry(d)
  BY <1>6, EntriesFacts DEF HasEntry
<1>8. run' \in Seq(Slot) /\ Len(run') = Len(run) - 1 /\ run' # <<>>
      /\ run'[Len(run')] = run[Len(run)]
  <2>2. Len(rest) \in 1 .. Len(rest) /\ Len(rest) + 1 = Len(run)
    BY <1>0, <1>3, <1>b
  <2>3. rest # <<>>
    BY <2>2
  <2> QED
    BY <1>4, <1>b, <2>2, <2>3
<1>9. DirTypeOK'
  <2>1. (slots \in Seq(Slot) => \A i \in DOMAIN slots : slots[i].tag \in {"end", "deleted", "lfn", "short"})'
    BY TagsOK, PTL
  <2>2. at' \in 0 .. Len(slots') + 1
    BY <1>1, <1>4, <1>6
  <2> QED
    BY <1>1, <1>4, <1>6, <1>8, <2>1, <2>2 DEF DirTypeOK
<1>10. LocalsOK'
  BY <1>1, <1>4 DEF LocalsOK
<1>11. WriteInv' /\ \E less \in 0 .. count : less = left - 1 /\ Writing(short, count, less)'
  <2>1. at' \in 1 .. EndIndex'
    BY <1>0, <1>4, <1>6
  <2>2. \A i \in at' .. at' + Len(run') - 1 : i < EndIndex' => slots'[i] = Deleted
    <3> SUFFICES ASSUME NEW i \in at' .. at' + Len(run') - 1, i < EndIndex'
                 PROVE  slots'[i] = Deleted
      OBVIOUS
    <3>1. at # EndIndex /\ EndIndex' = EndIndex
      BY <1>1, <1>4, <1>6
    <3>2. i \in at .. at + Len(run) - 1 /\ i \in 1 .. Len(slots) /\ i # at
      BY <1>0, <1>4, <1>8, <3>1
    <3>3. slots[i] = Deleted
      BY <1>1, <3>1, <3>2 DEF WriteInv
    <3> QED
      BY <1>6, <3>2, <3>3
  <2>3. run'[Len(run')] = End => EndIndex' < at' + Len(run')
    <3>1. SUFFICES ASSUME run'[Len(run')] = End PROVE EndIndex' < at' + Len(run')
      OBVIOUS
    <3>2. EndIndex < at + Len(run)
      BY <1>1, <1>8, <3>1 DEF WriteInv
    <3>3. Len(run) > 1 /\ at' = at + 1 /\ Len(run') = Len(run) - 1
      BY <1>3, <1>4, <1>8
    <3>4. EndIndex' = IF at = EndIndex THEN at + 1 ELSE EndIndex
      BY <1>6
    <3> QED
      BY <1>0, <3>2, <3>3, <3>4
  <2>4. PICK less \in 0 .. count : less = left - 1 /\ left = less + 1
    BY <1>2
  <2>5. \A k \in less + 1 .. count :
          at' + less - k \in DOMAIN slots' /\ slots'[at' + less - k] = Lfn(call.name, k, short)
    <3> TAKE k \in less + 1 .. count
    <3>1. at' + less - k = at + left - k
      BY <1>0, <1>2, <1>4, <2>4
    <3>2. DOMAIN slots' = 1 .. Len(slots) /\ DOMAIN slots = 1 .. Len(slots)
      BY <1>6
    <3>3. CASE k = left
      <4>1. at + left - k = at
        BY <1>0, <1>2, <3>3
      <4> QED
        BY <1>0, <1>3, <1>6, <3>1, <3>2, <3>3, <4>1
    <3>4. CASE k # left
      <4>1. k \in left + 1 .. count
        BY <1>2, <2>4, <3>4
      <4>2. at + left - k \in 1 .. Len(slots) /\ slots[at + left - k] = Lfn(call.name, k, short)
        BY <3>2, <4>1 DEF Writing
      <4>3. at + left - k # at
        BY <1>0, <1>2, <4>1
      <4> QED
        BY <1>6, <3>1, <3>2, <4>2, <4>3
    <3> QED
      BY <3>3, <3>4
  <2>6. ~ ShortNameExists(short)'
    BY <1>6, <1>7 DEF Writing, ShortNameExists
  <2>7. Writing(short, count, less)'
    BY <1>3, <1>4, <2>4, <2>5, <2>6 DEF Writing, MaybeEnd
  <2> QED
    BY <1>4, <2>1, <2>2, <2>3, <2>4, <2>7 DEF WriteInv
<1>12. SourceInv'
  <2>1. CASE call.kind = "rename"
    <3>1. /\ 1 <= call.start /\ call.start <= call.last /\ call.last < EndIndex
          /\ \A i \in call.start .. call.last : i < call.last => slots[i].tag = "lfn"
          /\ slots[call.last].tag = "short" /\ slots[call.last].cluster = call.ref
          /\ call.start \in Nat /\ call.last \in Nat
      BY <1>1, <2>1 DEF SourceInv, CallRecords
    <3>2. ASSUME NEW i \in call.start .. call.last PROVE slots'[i] = slots[i]
      <4>1. i \in 1 .. Len(slots) /\ i < EndIndex /\ slots[i].tag # "deleted"
        BY <1>1, <3>1
      <4>2. i # at
        BY <1>1, <4>1, SlotKinds
      <4> QED
        BY <1>6, <4>1, <4>2
    <3>3. call.last \in call.start .. call.last
      BY <3>1
    <3>4. \A i \in call.last + 1 .. call.last : FALSE
      BY <3>1
    <3>5. call.last < EndIndex'
      BY <1>1, <1>6, <3>1
    <3> QED
      BY <1>1, <1>4, <3>1, <3>2, <3>3, <3>4, <3>5 DEF SourceInv
  <2>2. CASE call.kind # "rename"
    BY <1>1, <1>4, <2>2 DEF SourceInv
  <2> QED
    BY <2>1, <2>2
<1>13. RemovalHidesFirst' /\ ShortNamesUnique'
  BY <1>1, <1>6, <1>7 DEF RemovalHidesFirst, ShortNamesUnique
<1>14. RefInv'
  <2>1. Unpublished /\ phase = "write"
    <3>1. run # <<End>>
      <4> SUFFICES ASSUME run = <<End>> PROVE FALSE
        OBVIOUS
      <4>1. Len(run) = 1
        OBVIOUS
      <4> QED
        BY <1>0, <1>3, <4>1
    <3> QED
      BY <1>1, <3>1 DEF Unpublished
  <2>2. /\ UNCHANGED <<free, spoilt, phase, call>> /\ Entries' = Entries
        /\ \A i \in Entries : slots'[i] = slots[i]
        /\ \A d : HasEntry(d)' <=> HasEntry(d)
    BY <1>1, <1>4, <1>6, <1>7
  <2>3. \A i, j \in Entries' :
          ~ (slots'[i].cluster = slots'[j].cluster /\ slots'[i].cluster \in Clusters \ spoilt' /\ i # j)
    BY <2>1, <2>2 DEF RefInv
  <2>4. call'.kind # "remove" /\ spoilt' = spoilt /\ spoilt \subseteq Clusters \cup {NoCluster}
    BY <1>1, <2>2 DEF LocalsOK, RefInv
  <2>5. (call.kind = "rename" => call.ref \notin free \ spoilt)'
        /\ (call.kind = "mkdir" /\ phase # "alloc" => call.ref \notin free)'
        /\ (call.kind = "mkdir" /\ Unpublished /\ HasEntry(call.ref) => call.ref \in spoilt)'
    BY <2>1, <2>2 DEF RefInv
  <2> QED
    BY <2>3, <2>4, <2>5 DEF RefInv
<1>15. ~ Published'
  <2>1. PICK m \in Nat : m = left - 1
    BY <1>2
  <2>2. rest[1] # End
    BY <1>1, <1>2, <1>3, <2>1, NamedSlotsStart
  <2>3. rest # <<End>>
    BY <2>2
  <2> QED
    BY <1>4, <2>3 DEF Published
<1> QED
  BY <1>3, <1>4, <1>6, <1>8, <1>9, <1>10, <1>11, <1>12, <1>13, <1>14, <1>15

(* The short entry: the new entry is visible.                              *)
LEMMA WriteEntryStep ==
  ASSUME DirInv, WriteSlot, NEW short \in ShortNames, NEW count, Writing(short, count, 0),
         ~ Published
  PROVE  /\ DirInv' /\ Entries' = Entries \cup {at} /\ at \notin Entries
         /\ slots'[at] = Short(short, call.ref)
         /\ slots' = [slots EXCEPT ![at] = Short(short, call.ref)]
         /\ Unpublished /\ ~ Unpublished' /\ phase' # "alloc"
         /\ call.kind = "rename" => call' = call
         /\ UNCHANGED call \/ Return
         /\ \/ call.kind # "rename" /\ Return
            \/ call.kind = "rename" /\ phase' = "delete" /\ at' = call.last
            \/ Published' /\ UNCHANGED call
<1> USE DEF DirInv
<1>1. /\ phase = "write" /\ slots' = [slots EXCEPT ![at] = Head(run)]
      /\ UNCHANGED <<free, spoilt>> /\ call \in CallRecords /\ call.name \in Names
      /\ run \in Seq(Slot) /\ run # <<>> /\ Len(run) \in Nat \ {0}
      /\ at \in 1 .. Len(slots) /\ at <= EndIndex
      /\ at < EndIndex => slots[at] = Deleted
      /\ EndIndex \in 1 .. Len(slots) + 1 /\ Len(slots) \in Nat
  BY WriteSlotFacts
<1>0. /\ at \in Nat /\ EndIndex \in Nat /\ Len(slots) \in Nat /\ Len(run) \in Nat /\ Len(run) >= 1
      /\ 1 <= at /\ at <= Len(slots) /\ at <= EndIndex /\ EndIndex <= Len(slots) + 1
  BY <1>1
<1>2. call.ref \in Clusters \cup {NoCluster}
  BY <1>1 DEF CallRecords
<1>a. PICK head, rest : head = Head(run) /\ rest = Tail(run)
  OBVIOUS
<1>3. /\ head = Short(short, call.ref)
      /\ Len(run) = 1 \/ (Len(run) = 2 /\ run[2] = End)
  <2>1. run \in MaybeEnd(NamedSlots(call.name, call.ref, short, 0))
    BY DEF Writing, MaybeEnd
  <2>2. /\ run[1] = Short(short, call.ref)
        /\ Len(run) = 1 \/ (Len(run) = 2 /\ run[2] = End)
    BY <1>1, <1>2, <2>1, RestOfEntry
  <2>3. head = run[1]
    BY <1>1, <1>a
  <2> QED
    BY <2>2, <2>3
<1>4. /\ head \in Slot /\ head.tag = "short" /\ head.short = short /\ head.cluster = call.ref
      /\ head # End
  BY <1>2, <1>3, SlotKinds
<1>5. /\ slots' \in Seq(Slot) /\ Len(slots') = Len(slots) /\ NothingBehindEnd'
      /\ EndIndex' = IF at = EndIndex THEN at + 1 ELSE EndIndex
      /\ Entries' = Entries \cup {at} /\ at \notin Entries
      /\ \A i \in 1 .. Len(slots) : slots'[i] = IF i = at THEN head ELSE slots[i]
  BY <1>1, <1>4, <1>a, SlotWrittenHere
<1>6. \A i \in Entries : i \in 1 .. Len(slots) /\ i # at /\ slots'[i] = slots[i]
  BY <1>5, EntriesFacts
<1>7. slots'[at] = head
  BY <1>1, <1>5
<1>8. ShortNamesUnique'
  <2>1. \A i \in Entries : slots[i].short # short
    BY DEF Writing, ShortNameExists
  <2> QED
    BY <1>4, <1>5, <1>6, <1>7, <2>1 DEF ShortNamesUnique
<1>9. RemovalHidesFirst'
  <2>1. call.ref \notin free \ spoilt
    <3>1. CASE call.kind = "create"
      BY <3>1, DirectoryAssumption DEF LocalsOK, DirTypeOK
    <3>2. CASE call.kind = "mkdir"
      BY <1>1, <3>2 DEF RefInv
    <3>3. CASE call.kind = "rename"
      BY <3>3 DEF RefInv
    <3> QED
      BY <1>1, <3>1, <3>2, <3>3 DEF LocalsOK
  <2> QED
    BY <1>1, <1>4, <1>5, <1>6, <1>7, <2>1 DEF RemovalHidesFirst
<1>10. Unpublished
  BY <1>1 DEF Unpublished, Published
<1>11. \A i \in Entries : slots[i].cluster = call.ref /\ call.ref \in Clusters \ spoilt =>
          call.kind = "rename" /\ i = call.last
  <2> SUFFICES ASSUME NEW i \in Entries, slots[i].cluster = call.ref, call.ref \in Clusters \ spoilt
               PROVE  call.kind = "rename" /\ i = call.last
    OBVIOUS
  <2>1. CASE call.kind = "create"
    BY <2>1, DirectoryAssumption DEF LocalsOK
  <2>2. CASE call.kind = "mkdir"
    BY <1>10, <2>2 DEF RefInv, HasEntry
  <2>3. CASE call.kind = "rename"
    <3>1. /\ call.last \in 1 .. EndIndex - 1 /\ slots[call.last].tag = "short"
          /\ slots[call.last].cluster = call.ref
      BY <1>0, <1>1, <2>3 DEF SourceInv, CallRecords
    <3>2. call.last \in Entries
      BY <3>1 DEF Entries
    <3> QED
      BY <1>10, <2>3, <3>1, <3>2 DEF RefInv
  <2> QED
    BY <1>1, <2>1, <2>2, <2>3 DEF LocalsOK
<1>12. \A i, j \in Entries' :
         slots'[i].cluster = slots'[j].cluster /\ slots'[i].cluster \in Clusters \ spoilt /\ i # j =>
           call.kind = "rename" /\ slots'[i].cluster = call.ref /\ call.last \in {i, j}
  <2> SUFFICES ASSUME NEW i \in Entries', NEW j \in Entries', i # j,
                      slots'[i].cluster = slots'[j].cluster, slots'[i].cluster \in Clusters \ spoilt
               PROVE  call.kind = "rename" /\ slots'[i].cluster = call.ref /\ call.last \in {i, j}
    OBVIOUS
  <2>1. CASE i \in Entries /\ j \in Entries
    BY <1>6, <1>10, <2>1 DEF RefInv
  <2>2. CASE i = at /\ j \in Entries
    BY <1>4, <1>6, <1>7, <1>11, <2>2
  <2>3. CASE j = at /\ i \in Entries
    BY <1>4, <1>6, <1>7, <1>11, <2>3
  <2> QED
    BY <1>5, <2>1, <2>2, <2>3
<1>13. call.kind = "rename" =>
         /\ 1 <= call.start /\ call.start <= call.last /\ call.last < EndIndex
         /\ \A i \in call.start .. call.last : i < call.last => slots[i].tag = "lfn"
         /\ slots[call.last].tag = "short" /\ slots[call.last].cluster = call.ref
         /\ call.start \in Nat /\ call.last \in Nat
         /\ \A i \in call.start .. call.last : slots'[i] = slots[i]
  <2> SUFFICES ASSUME call.kind = "rename"
               PROVE  /\ 1 <= call.start /\ call.start <= call.last /\ call.last < EndIndex
                      /\ \A i \in call.start .. call.last : i < call.last => slots[i].tag = "lfn"
                      /\ slots[call.last].tag = "short" /\ slots[call.last].cluster = call.ref
                      /\ call.start \in Nat /\ call.last \in Nat
                      /\ \A i \in call.start .. call.last : slots'[i] = slots[i]
    OBVIOUS
  <2>1. /\ 1 <= call.start /\ call.start <= call.last /\ call.last < EndIndex
        /\ \A i \in call.start .. call.last : i < call.last => slots[i].tag = "lfn"
        /\ slots[call.last].tag = "short" /\ slots[call.last].cluster = call.ref
        /\ call.start \in Nat /\ call.last \in Nat
    BY <1>1 DEF SourceInv, CallRecords
  <2>2. ASSUME NEW i \in call.start .. call.last PROVE slots'[i] = slots[i]
    <3>1. i \in 1 .. Len(slots) /\ i < EndIndex /\ slots[i].tag # "deleted"
      BY <1>0, <2>1
    <3>2. i # at
      BY <1>0, <1>1, <3>1, SlotKinds
    <3> QED
      BY <1>5, <3>1, <3>2
  <2> QED
    BY <2>1, <2>2
<1>14. EndIndex <= EndIndex'
  BY <1>0, <1>5
<1>15. CASE Len(run) = 1
  <2>1. IF call.kind = "rename"
          THEN phase' = "delete" /\ run' = <<>> /\ at' = call.last /\ UNCHANGED call
          ELSE Return
    BY <1>15 DEF WriteSlot
  <2>2. OfRename'
    <3>1. CASE call.kind = "rename"
      BY <1>1, <1>12, <2>1, <3>1 DEF OfRename
    <3>2. CASE call.kind # "rename"
      BY <1>1, <1>12, <3>2 DEF OfRename
    <3> QED
      BY <3>1, <3>2
  <2>3. DirInv'
    BY <1>1, <1>5, <1>8, <1>9, <1>13, <1>14, <2>1, <2>2, EntryFinished
  <2>4. ~ Unpublished' /\ phase' # "alloc"
    BY <2>1 DEF Unpublished, Return
  <2> QED
    BY <1>1, <1>3, <1>5, <1>7, <1>10, <1>a, <2>1, <2>3, <2>4
<1>16. CASE Len(run) = 2 /\ run[2] = End
  <2>0. rest = <<End>>
    <3>1. /\ rest \in Seq(Slot) /\ Len(rest) = Len(run) - 1
          /\ \A i \in 1 .. Len(rest) : rest[i] = run[i + 1]
      BY <1>1, <1>a, HeadTailProperties
    <3>2. Len(rest) = 1
      BY <1>16, <3>1
    <3>3. rest[1] = End
      BY <1>16, <3>1, <3>2
    <3> QED
      BY <3>1, <3>2, <3>3
  <2>1. run' = <<End>> /\ at' = at + 1 /\ UNCHANGED <<phase, call>>
    <3>1. Len(run) > 1
      BY <1>16
    <3>2. run' = Tail(run) /\ at' = at + 1 /\ UNCHANGED <<phase, call>>
      BY <3>1 DEF WriteSlot
    <3> QED
      BY <1>a, <2>0, <3>2
  <2>2. run' \in Seq(Slot) /\ run' # <<>> /\ Len(run') = 1 /\ run'[1] = End
    BY <2>1, SlotKinds
  <2>3. DirTypeOK'
    <3>1. (slots \in Seq(Slot) => \A i \in DOMAIN slots : slots[i].tag \in {"end", "deleted", "lfn", "short"})'
      BY TagsOK, PTL
    <3>2. at' \in 0 .. Len(slots') + 1
      BY <1>0, <1>5, <2>1
    <3> QED
      BY <1>1, <1>5, <2>1, <2>2, <3>1, <3>2 DEF DirTypeOK
  <2>4. LocalsOK'
    BY <1>1, <2>1 DEF LocalsOK
  <2>5. WriteInv'
    <3>1. EndIndex < at + Len(run) /\ Len(run) = 2
      BY <1>1, <1>16 DEF WriteInv
    <3>2. at' = EndIndex' /\ at' \in 1 .. EndIndex' /\ EndIndex' < at' + 1 /\ at' + 1 - 1 = at'
      BY <1>0, <1>5, <2>1, <3>1
    <3>3. \A i \in at' .. at' : ~ (i < EndIndex')
      BY <3>2
    <3> QED
      BY <1>1, <2>1, <2>2, <3>2, <3>3 DEF WriteInv, Published
  <2>6. SourceInv'
    <3>1. CASE call.kind = "rename"
      <4>1. call.last \in call.start .. call.last /\ call.last < EndIndex'
        BY <1>0, <1>5, <1>13, <3>1
      <4>2. \A i \in call.last + 1 .. call.last : FALSE
        BY <1>13, <3>1
      <4> QED
        BY <1>1, <1>13, <2>1, <3>1, <4>1, <4>2 DEF SourceInv
    <3>2. CASE call.kind # "rename"
      BY <1>1, <2>1, <3>2 DEF SourceInv
    <3> QED
      BY <3>1, <3>2
  <2>7. RefInv'
    <3>1. ~ Unpublished' /\ call'.kind # "remove"
      BY <1>1, <2>1 DEF Unpublished, LocalsOK
    <3>2. \A i, j \in Entries' :
            slots'[i].cluster = slots'[j].cluster /\ slots'[i].cluster \in Clusters \ spoilt' /\ i # j =>
              /\ call'.kind = "rename" /\ ~ Unpublished'
              /\ slots'[i].cluster = call'.ref /\ call'.last \in {i, j}
      BY <1>1, <1>12, <2>1, <3>1
    <3>3. /\ (spoilt \subseteq Clusters \cup {NoCluster})'
          /\ (call.kind = "rename" => call.ref \notin free \ spoilt)'
          /\ (call.kind = "mkdir" /\ phase # "alloc" => call.ref \notin free)'
      BY <1>1, <2>1 DEF RefInv
    <3> QED
      BY <3>1, <3>2, <3>3 DEF RefInv
  <2>8. ~ Unpublished' /\ phase' # "alloc" /\ Published'
    BY <1>1, <2>1 DEF Unpublished, Published
  <2>9. DirInv'
    BY <1>3, <1>5, <1>7, <1>8, <1>9, <2>2, <2>3, <2>4, <2>5, <2>6, <2>7
  <2> QED
    BY <1>1, <1>3, <1>5, <1>7, <1>10, <1>a, <2>1, <2>8, <2>9
<1> QED
  BY <1>3, <1>15, <1>16

(* The three kinds of slots a run consists of, together.                   *)
LEMMA WriteSlotStep ==
  ASSUME DirInv, WriteSlot PROVE DirInv'
<1>1. CASE Published
  BY <1>1, WriteEndStep
<1>2. CASE ~ Published
  <2>1. phase = "write"
    BY DEF WriteSlot
  <2>2. PICK short \in ShortNames, count \in {0, LfnCount[call.name]} :
           \E left \in 0 .. count : Writing(short, count, left)
    BY <1>2, <2>1 DEF DirInv, WriteInv
  <2>3. PICK left \in 0 .. count : Writing(short, count, left)
    BY <2>2
  <2>4. CASE left = 0
    <3>1. Writing(short, count, 0)
      BY <2>3, <2>4
    <3> QED
      BY <1>2, <3>1, WriteEntryStep
  <2>5. CASE left # 0
    <3>1. count \in Nat
      <4>1. call.name \in Names
        BY WriteSlotFacts
      <4> QED
        BY <4>1, DirectoryAssumption
    <3>2. left \in 1 .. count
      BY <2>5, <3>1
    <3> QED
      BY <2>3, <3>2, WritePieceStep
  <2> QED
    BY <2>4, <2>5
<1> QED
  BY <1>1, <1>2

(* delete_found_entry stays in front of the end and removes one slot.      *)
LEMMA DeleteSlotFacts ==
  ASSUME DirInv, DeleteSlot
  PROVE  /\ phase = "delete" /\ UNCHANGED <<free, spoilt>> /\ call \in CallRecords
         /\ call.start \in Nat /\ call.last \in Nat /\ at \in call.start .. call.last
         /\ 1 <= call.start /\ call.last < EndIndex
         /\ EndIndex \in 1 .. Len(slots) + 1 /\ Len(slots) \in Nat
         /\ slots' \in Seq(Slot) /\ Len(slots') = Len(slots) /\ NothingBehindEnd'
         /\ EndIndex' = EndIndex /\ Entries' = Entries \ {at}
         /\ \A i \in 1 .. Len(slots) : slots'[i] = IF i = at THEN Deleted ELSE slots[i]
         /\ call.last \notin Entries'
<1> USE DEF DirInv
<1>1. /\ phase = "delete" /\ UNCHANGED <<free, spoilt>> /\ call \in CallRecords
      /\ slots' = [slots EXCEPT ![at] = Deleted]
  BY DEF DeleteSlot, LocalsOK
<1>2. call.start \in Nat /\ call.last \in Nat
  BY <1>1 DEF CallRecords
<1>3. /\ 1 <= call.start /\ call.last < EndIndex /\ at \in call.start .. call.last
      /\ \A i \in at + 1 .. call.last : slots[i] = Deleted
  BY <1>1 DEF SourceInv
<1>4. EndIndex \in 1 .. Len(slots) + 1 /\ Len(slots) \in Nat
  BY EntriesFacts
<1>5. PICK q \in Seq(Slot) : q = slots
  OBVIOUS
<1>6. at \in 1 .. Len(slots) /\ at \in 1 .. EndIndex - 1
  BY <1>2, <1>3, <1>4
<1>7. PICK a \in 1 .. EndOf(q) - 1 : a = at
  BY <1>5, <1>6, OfSlots
<1>8. PICK r : r = slots'
  OBVIOUS
<1>9. /\ r \in Seq(Slot) /\ Len(r) = Len(q)
      /\ \A i \in 1 .. Len(q) : r[i] = IF i = a THEN Deleted ELSE q[i]
  BY <1>1, <1>5, <1>6, <1>7, <1>8, SlotKinds
<1>10. Behind(q)
  BY <1>5, OfSlots
<1>11. Behind(r) /\ EndOf(r) = EndOf(q) /\ EntriesOf(r) = EntriesOf(q) \ {a}
  BY <1>9, <1>10, SlotDeleted
<1>12. /\ NothingBehindEnd' /\ EndIndex' = EndIndex /\ Entries' = Entries \ {at}
  BY <1>5, <1>7, <1>8, <1>11, OfSlots
<1>13. call.last \notin Entries'
  <2>1. CASE at = call.last
    BY <1>12, <2>1
  <2>2. CASE at # call.last
    <3>1. call.last \in at + 1 .. call.last
      BY <1>2, <1>3, <2>2
    <3>2. slots[call.last].tag # "short"
      BY <1>3, <3>1, SlotKinds
    <3> QED
      BY <1>12, <3>2 DEF Entries
  <2> QED
    BY <2>1, <2>2
<1> QED
  BY <1>1, <1>2, <1>3, <1>4, <1>5, <1>7, <1>8, <1>9, <1>12, <1>13

(* Deleting keeps DirInv: the short entry goes first or the pieces have    *)
(* none.                                                                   *)
LEMMA DeleteSlotStep ==
  ASSUME DirInv, DeleteSlot PROVE DirInv'
<1> USE DEF DirInv
<1>1. /\ phase = "delete" /\ UNCHANGED <<free, spoilt>> /\ call \in CallRecords
      /\ call.start \in Nat /\ call.last \in Nat /\ at \in call.start .. call.last
      /\ 1 <= call.start /\ call.last < EndIndex
      /\ EndIndex \in 1 .. Len(slots) + 1 /\ Len(slots) \in Nat
      /\ slots' \in Seq(Slot) /\ Len(slots') = Len(slots) /\ NothingBehindEnd'
      /\ EndIndex' = EndIndex /\ Entries' = Entries \ {at}
      /\ \A i \in 1 .. Len(slots) : slots'[i] = IF i = at THEN Deleted ELSE slots[i]
      /\ call.last \notin Entries'
  BY DeleteSlotFacts
<1>2. \A i \in Entries' : i \in Entries /\ i # at /\ slots'[i] = slots[i]
  BY <1>1, EntriesFacts
<1>3. ShortNamesUnique' /\ RemovalHidesFirst'
  <2>1. ShortNamesUnique'
    BY <1>1, <1>2 DEF ShortNamesUnique
  <2>2. RemovalHidesFirst'
    BY <1>1, <1>2 DEF RemovalHidesFirst
  <2> QED
    BY <2>1, <2>2
<1>4. /\ \A i \in call.start .. at : i < call.last => slots[i].tag = "lfn"
      /\ \A i \in at + 1 .. call.last : slots[i] = Deleted
      /\ at = call.last => slots[call.last].tag = "short" /\ slots[call.last].cluster = call.ref
  BY <1>1 DEF SourceInv
<1>5. ASSUME call.kind = "remove", NEW i \in Entries', slots'[i].cluster = call.ref
      PROVE  call.ref \in spoilt \cup {NoCluster}
  <2>1. i \in Entries /\ slots[i].cluster = call.ref /\ i # call.last
    BY <1>1, <1>2, <1>5
  <2>2. CASE at = call.last
    <3>1. call.last \in 1 .. EndIndex - 1
      BY <1>1
    <3>2. call.last \in Entries
      BY <1>4, <2>2, <3>1 DEF Entries
    <3>3. call.ref \in Clusters \cup {NoCluster}
      BY <1>1 DEF CallRecords
    <3> QED
      BY <1>4, <1>5, <2>1, <2>2, <3>2, <3>3 DEF RefInv
  <2>3. CASE at # call.last
    <3>1. at < call.last
      BY <1>1, <2>3
    <3> QED
      BY <1>5, <2>1, <3>1 DEF RefInv, HasEntry
  <2> QED
    BY <2>2, <2>3
<1>6. Apart'
  <2> SUFFICES ASSUME NEW i \in Entries', NEW j \in Entries', slots'[i].cluster = slots'[j].cluster,
                      slots'[i].cluster \in Clusters \ spoilt', i # j
               PROVE  FALSE
    BY DEF Apart
  <2>1. /\ i \in Entries /\ j \in Entries /\ slots[i].cluster = slots[j].cluster
        /\ slots[i].cluster \in Clusters \ spoilt
    BY <1>1, <1>2
  <2>2. call.last \in {i, j}
    BY <2>1 DEF RefInv
  <2> QED
    BY <1>1, <2>2
<1>7. (free \subseteq Clusters)' /\ (spoilt \subseteq Clusters \cup {NoCluster})'
  BY <1>1 DEF DirTypeOK, RefInv
<1>8. (\A i \in DOMAIN slots : slots[i].tag \in {"end", "deleted", "lfn", "short"})'
  <2>1. (slots \in Seq(Slot) => \A i \in DOMAIN slots : slots[i].tag \in {"end", "deleted", "lfn", "short"})'
    BY TagsOK, PTL
  <2> QED
    BY <1>1, <2>1
<1>9. run = <<>>
  BY <1>1 DEF DirTypeOK
<1>10. CASE at > call.start
  <2>1. at' = at - 1 /\ UNCHANGED <<phase, call, run>>
    BY <1>10 DEF DeleteSlot
  <2>2. DirTypeOK'
    <3>1. at' \in 0 .. Len(slots') + 1
      BY <1>1, <1>10, <2>1
    <3> QED
      BY <1>1, <1>7, <1>8, <1>9, <2>1, <3>1 DEF DirTypeOK
  <2>3. LocalsOK'
    BY <1>1, <2>1 DEF LocalsOK
  <2>4. WriteInv'
    BY <1>1, <2>1 DEF WriteInv
  <2>5. SourceInv'
    <3>1. at' \in call.start .. call.last /\ at' # call.last /\ call.start <= call.last
      BY <1>1, <1>10, <2>1
    <3>2. ASSUME NEW i \in call.start .. at', i < call.last PROVE slots'[i].tag = "lfn"
      <4>1. i \in call.start .. at /\ i # at /\ i \in 1 .. Len(slots)
        BY <1>1, <2>1
      <4> QED
        BY <1>1, <1>4, <3>2, <4>1
    <3>3. ASSUME NEW i \in at' + 1 .. call.last PROVE slots'[i] = Deleted
      <4>1. i \in at .. call.last /\ i \in 1 .. Len(slots)
        BY <1>1, <2>1
      <4>2. i = at \/ i \in at + 1 .. call.last
        BY <1>1, <4>1
      <4> QED
        BY <1>1, <1>4, <4>1, <4>2
    <3> QED
      BY <1>1, <2>1, <3>1, <3>2, <3>3 DEF SourceInv
  <2>6. RefInv'
    <3>1. ~ Unpublished'
      BY <1>1, <2>1 DEF Unpublished
    <3> QED
      BY <1>1, <1>2, <1>5, <1>6, <1>7, <2>1, <3>1 DEF RefInv, Apart, HasEntry
  <2> QED
    BY <1>1, <1>3, <2>1, <2>2, <2>3, <2>4, <2>5, <2>6
<1>11. CASE ~ (at > call.start) /\ call.kind = "remove" /\ call.ref # NoCluster
  <2>1. phase' = "free" /\ at' = 0 /\ UNCHANGED <<call, run>>
    BY <1>11 DEF DeleteSlot
  <2>2. DirTypeOK'
    <3>1. at' \in 0 .. Len(slots') + 1
      BY <1>1, <2>1
    <3> QED
      BY <1>1, <1>7, <1>8, <1>9, <2>1, <3>1 DEF DirTypeOK
  <2>3. LocalsOK'
    BY <1>1, <1>11, <2>1 DEF LocalsOK
  <2>4. WriteInv' /\ SourceInv'
    BY <1>11, <2>1 DEF WriteInv, SourceInv
  <2>5. RefInv'
    BY <1>1, <1>5, <1>6, <1>7, <1>11, <2>1 DEF RefInv, Apart, HasEntry
  <2> QED
    BY <1>1, <1>3, <2>1, <2>2, <2>3, <2>4, <2>5
<1>12. CASE ~ (at > call.start) /\ ~ (call.kind = "remove" /\ call.ref # NoCluster)
  <2>1. Return
    BY <1>12 DEF DeleteSlot
  <2> QED
    BY <1>1, <1>3, <1>6, <1>7, <2>1, ReturnInv
<1> QED
  BY <1>10, <1>11, <1>12

-----------------------------------------------------------------------------
(* DirInv holds at the start and is kept by every step.                    *)
LEMMA DirInitInv ==
  ASSUME DirInit PROVE DirInv
<1>1. InitialSlots \in Nat
  BY DirectoryAssumption
<1>2. /\ slots \in Seq(Slot) /\ Len(slots) = InitialSlots
      /\ \A i \in 1 .. InitialSlots : slots[i] = End
  BY <1>1, SlotKinds DEF DirInit
<1>3. /\ free = Clusters /\ phase = "idle" /\ call = NoCall /\ run = <<>> /\ at = 0 /\ spoilt = {}
  BY DEF DirInit
<1>4. Entries = {} /\ NothingBehindEnd
  <2>1. EndIndex \in 1 .. Len(slots) + 1 /\ Len(slots) \in Nat
    BY <1>2, EntriesFacts
  <2> QED
    BY <1>1, <1>2, <2>1, SlotKinds DEF Entries, NothingBehindEnd
<1>5. call.kind = "none" /\ call.ref = NoCluster
  BY <1>3 DEF NoCall
<1>6. DirTypeOK
  <2>1. \A i \in DOMAIN slots : slots[i].tag \in {"end", "deleted", "lfn", "short"}
    BY <1>2, TagsOK
  <2>2. 0 \in 0 .. Len(slots) + 1
    BY <1>1, <1>2
  <2> QED
    BY <1>3, <1>5, <2>1, <2>2 DEF DirTypeOK
<1>7. LocalsOK /\ WriteInv /\ SourceInv
  BY <1>3, <1>5 DEF LocalsOK, WriteInv, SourceInv
<1>8. RefInv /\ RemovalHidesFirst /\ ShortNamesUnique
  BY <1>3, <1>4, <1>5 DEF RefInv, RemovalHidesFirst, ShortNamesUnique
<1> QED
  BY <1>2, <1>3, <1>4, <1>6, <1>7, <1>8, EmptySeq DEF DirInv

(* Every step keeps DirInv.                                                *)
LEMMA DirNextInv ==
  ASSUME DirInv, [DirNext]_dirVars PROVE DirInv'
<1>1. CASE UNCHANGED dirVars
  <2>1. UNCHANGED <<slots, free, phase, call, run, at, spoilt>>
    BY <1>1 DEF dirVars
  <2>2. /\ EndIndex' = EndIndex /\ Entries' = Entries /\ (NothingBehindEnd' <=> NothingBehindEnd)
        /\ (ShortNamesUnique' <=> ShortNamesUnique) /\ \A c : HasEntry(c)' <=> HasEntry(c)
    BY <2>1, SlotsUnchanged
  <2>3. /\ \A short : ShortNameExists(short)' <=> ShortNameExists(short)
        /\ \A n : FreeAliases(n)' = FreeAliases(n)
    BY <2>1, <2>2 DEF ShortNameExists, FreeAliases
  <2>4. DirTypeOK' /\ LocalsOK'
    BY <2>1, <2>3 DEF DirInv, DirTypeOK, LocalsOK
  <2>5. WriteInv'
    BY <2>1, <2>2, <2>3 DEF DirInv, WriteInv, Published, Writing
  <2>6. SourceInv' /\ RefInv' /\ RemovalHidesFirst'
    BY <2>1, <2>2 DEF DirInv, SourceInv, RefInv, RemovalHidesFirst, Unpublished
  <2> QED
    BY <2>1, <2>2, <2>4, <2>5, <2>6 DEF DirInv
<1>2. CASE DirCall
  BY <1>2, CreateFileStep, CreateDirectoryStep, RemoveStep, RenameStep DEF DirCall
<1>3. CASE DirStep
  BY <1>3, AllocateClusterStep, WriteDotEntriesStep, NameDirectoryStep, GrowDirectoryStep,
     NoSpaceStep, WriteSlotStep, UndoDirectoryStep, DeleteSlotStep, FreeChainStep DEF DirStep
<1> QED
  BY <1>1, <1>2, <1>3, DeviceErrorStep, PowerCutStep DEF DirNext

(* The inductive invariant: what every running call has left to write and  *)
(* to delete agrees with the slots, whatever the characters of a name give *)
(* for a short name, aliases and a checksum.                               *)
THEOREM DirectoryInvariant == DirSpec => []DirInv
BY DirInitInv, DirNextInv, PTL DEF DirSpec

(* Type correctness of a directory and of the call that runs in it.        *)
THEOREM DirectoryTypes == DirSpec => []DirTypeOK
<1>1. DirInv => DirTypeOK
  BY DEF DirInv
<1> QED
  BY <1>1, DirectoryInvariant, PTL

(* The end marker is the last thing in a directory: no write or deletion,  *)
(* in whatever order and wherever it is interrupted, leaves behind it an   *)
(* entry that a later one could bring back.                                *)
THEOREM NothingIsBehindTheEnd == DirSpec => []NothingBehindEnd
<1>1. DirInv => NothingBehindEnd
  BY DEF DirInv
<1> QED
  BY <1>1, DirectoryInvariant, PTL

(* A visible entry leads to clusters in use: remove_file and               *)
(* remove_directory delete the entry before they free its chain, except    *)
(* for the clusters of interrupted renames and failed create_directory     *)
(* calls.                                                                  *)
THEOREM RemovalHidesTheEntryFirst == DirSpec => []RemovalHidesFirst
<1>1. DirInv => RemovalHidesFirst
  BY DEF DirInv
<1> QED
  BY <1>1, DirectoryInvariant, PTL

(* Two entries never have one short name: select_short_name takes a name   *)
(* that no entry has, and nothing changes between its scan and the write   *)
(* of the short entry.                                                     *)
THEOREM ShortNamesAreUnique == DirSpec => []ShortNamesUnique
<1>1. DirInv => ShortNamesUnique
  BY DEF DirInv
<1> QED
  BY <1>1, DirectoryInvariant, PTL

-----------------------------------------------------------------------------
(* The names of the entries of a directory with the slots q, as a listing  *)
(* shows them.                                                             *)
LongIn(q, i, n) ==
  /\ LfnCount[n] < i
  /\ \A k \in 1 .. LfnCount[n] : q[i - k] = Lfn(n, k, q[i].short)
ShowsIn(q, i, n) ==
  \/ LongIn(q, i, n)
  \/ q[i].short = CanonicalShort[n] /\ \A m \in Names : ~ LongIn(q, i, m)
ShownIn(q, i) ==
  IF \E n \in Names : ShowsIn(q, i, n) THEN CHOOSE n \in Names : ShowsIn(q, i, n) ELSE NoName
Listed(q) == {[name |-> ShownIn(q, i), ref |-> q[i].cluster] : i \in EntriesOf(q)}

(* Every entry has a name, and no two have the same.                       *)
NamedWell(q) ==
  /\ q \in Seq(Slot)
  /\ \A i \in EntriesOf(q) : \E n \in Names : ShowsIn(q, i, n)
  /\ \A i, j \in EntriesOf(q) : \A n \in Names : ShowsIn(q, i, n) /\ ShowsIn(q, j, n) => i = j

(* The definitions of Directory in terms of its slots, before and after a  *)
(* step.                                                                   *)
LEMMA OfNames ==
  /\ \A i, n : /\ HasLongName(i, n) <=> LongIn(slots, i, n)
               /\ Shows(i, n) <=> ShowsIn(slots, i, n)
               /\ HasLongName(i, n)' <=> LongIn(slots', i, n)
               /\ Shows(i, n)' <=> ShowsIn(slots', i, n)
  /\ \A i : Shown(i) = ShownIn(slots, i) /\ Shown(i)' = ShownIn(slots', i)
<1>1. \A i, n : /\ HasLongName(i, n) <=> LongIn(slots, i, n)
                /\ HasLongName(i, n)' <=> LongIn(slots', i, n)
  BY DEF HasLongName, LongNameBefore, LongIn
<1>2. \A i, n : Shows(i, n) <=> ShowsIn(slots, i, n)
  BY DEF Shows, ShowsIn, HasLongName, LongNameBefore, LongIn
<1>3. \A i, n : Shows(i, n)' <=> ShowsIn(slots', i, n)
  BY DEF Shows, ShowsIn, HasLongName, LongNameBefore, LongIn
<1>4. \A i : Shown(i) = ShownIn(slots, i)
  BY Zenon DEF Shown, ShownIn, Shows, ShowsIn, HasLongName, LongNameBefore, LongIn
<1>5. \A i : Shown(i)' = ShownIn(slots', i)
  BY Zenon DEF Shown, ShownIn, Shows, ShowsIn, HasLongName, LongNameBefore, LongIn
<1> QED
  BY <1>1, <1>2, <1>3, <1>4, <1>5

(* The slots of a long name are pieces, and belong to one name.            *)
LEMMA LongNameFacts ==
  ASSUME NEW q, NEW i \in 1 .. Len(q), NEW n \in Names, LongIn(q, i, n)
  PROVE  /\ LfnCount[n] \in Nat \ {0} /\ i - 1 \in Nat /\ i - 1 >= 1 /\ i \in Nat
         /\ q[i - 1].tag = "lfn" /\ q[i - 1].name = n /\ q[i - 1].sum = Checksum[q[i].short]
         /\ \A k \in 1 .. LfnCount[n] : q[i - k].tag = "lfn"
<1>1. LfnCount[n] \in Nat \ {0}
  BY DirectoryAssumption
<1>2. PICK count \in Nat \ {0} : count = LfnCount[n]
  BY <1>1
<1>3. count < i /\ \A k \in 1 .. count : q[i - k] = Lfn(n, k, q[i].short)
  BY <1>2 DEF LongIn
<1>4. 1 \in 1 .. count
  BY <1>2
<1>5. q[i - 1] = Lfn(n, 1, q[i].short)
  BY <1>3, <1>4
<1>6. \A k, s : Lfn(n, k, s).tag = "lfn" /\ Lfn(n, k, s).name = n /\ Lfn(n, k, s).sum = Checksum[s]
  BY DEF Lfn
<1>7. i \in Nat /\ i - 1 \in Nat /\ i - 1 >= 1
  BY <1>2, <1>3
<1> QED
  BY <1>2, <1>3, <1>5, <1>6, <1>7

(* An entry is listed under one name at most.                              *)
LEMMA OneName ==
  ASSUME NEW q \in Seq(Slot), NEW i \in 1 .. Len(q), q[i].tag = "short",
         NEW n \in Names, ShowsIn(q, i, n)
  PROVE  (\A m \in Names : ShowsIn(q, i, m) => m = n) /\ ShownIn(q, i) = n
<1>1. q[i].short \in ShortNames /\ q[i].short # NoName
  BY SlotTags, DirectoryAssumption
<1>2. \A m, o \in Names : LongIn(q, i, m) /\ LongIn(q, i, o) => m = o
  BY LongNameFacts
<1>3. \A m, o \in Names : q[i].short = CanonicalShort[m] /\ q[i].short = CanonicalShort[o] => m = o
  BY <1>1, DirectoryAssumption
<1>4. \A m \in Names : ShowsIn(q, i, m) => m = n
  BY <1>2, <1>3 DEF ShowsIn
<1>5. ShownIn(q, i) \in Names /\ ShowsIn(q, i, ShownIn(q, i))
  <2>1. \E m \in Names : ShowsIn(q, i, m)
    OBVIOUS
  <2>2. ShownIn(q, i) = CHOOSE m \in Names : ShowsIn(q, i, m)
    BY <2>1 DEF ShownIn
  <2> QED
    BY <2>1, <2>2
<1> QED
  BY <1>4, <1>5

(* A long name stays while the pieces right before its entry stay.         *)
LEMMA LongKept ==
  ASSUME NEW q \in Seq(Slot), NEW r \in Seq(Slot), NEW i \in 1 .. Len(q), r[i] = q[i],
         \A j \in 1 .. i - 1 : (\A k \in j .. i - 1 : q[k].tag = "lfn") => r[j] = q[j],
         NEW n \in Names, LongIn(q, i, n)
  PROVE  LongIn(r, i, n)
<1>1. PICK count \in Nat \ {0} : count = LfnCount[n]
  BY DirectoryAssumption
<1>2. /\ count < i /\ i \in Nat
      /\ \A k \in 1 .. count : q[i - k] = Lfn(n, k, q[i].short) /\ q[i - k].tag = "lfn"
  BY <1>1, LongNameFacts DEF LongIn
<1>3. ASSUME NEW k \in 1 .. count PROVE r[i - k] = q[i - k]
  <2>1. i - k \in 1 .. i - 1
    BY <1>1, <1>2
  <2>2. ASSUME NEW l \in i - k .. i - 1 PROVE q[l].tag = "lfn"
    <3>1. PICK m \in Nat : m = i
      BY <1>2
    <3>2. l \in Nat /\ m - k <= l /\ l <= m - 1
      BY <1>1, <1>2, <3>1
    <3>3. m - l \in 1 .. count /\ m - (m - l) = l
      BY <1>1, <3>2
    <3>4. q[m - (m - l)].tag = "lfn"
      BY <1>2, <3>1, <3>3
    <3> QED
      BY <3>3, <3>4
  <2> QED
    BY <2>1, <2>2
<1> QED
  BY <1>1, <1>2, <1>3 DEF LongIn

(* Only slot a changes, and between it and the entry i there is, before    *)
(* and after, a slot that holds no piece.                                  *)
Separate(q, r, i, a) ==
  /\ i \in 1 .. Len(q) /\ i \in 1 .. Len(r) /\ a \in Nat /\ a # i
  /\ \A j \in 1 .. i : j # a => r[j] = q[j]
  /\ a < i => /\ \E k \in a .. i - 1 : q[k].tag # "lfn"
              /\ \E k \in a .. i - 1 : r[k].tag # "lfn"

(* Then the entry keeps its long name or stays without one.                *)
LEMMA NameKept ==
  ASSUME NEW q \in Seq(Slot), NEW r \in Seq(Slot), NEW i, NEW a, Separate(q, r, i, a)
  PROVE  r[i] = q[i] /\ \A n \in Names : LongIn(r, i, n) <=> LongIn(q, i, n)
<1> USE DEF Separate
<1>1. r[i] = q[i] /\ i \in Nat
  OBVIOUS
<1>2. ASSUME NEW j \in 1 .. i - 1, \A k \in j .. i - 1 : q[k].tag = "lfn" PROVE r[j] = q[j]
  BY <1>2
<1>3. ASSUME NEW j \in 1 .. i - 1, \A k \in j .. i - 1 : r[k].tag = "lfn" PROVE q[j] = r[j]
  BY <1>3
<1>4. \A n \in Names : LongIn(q, i, n) => LongIn(r, i, n)
  BY <1>1, <1>2, LongKept
<1>5. \A n \in Names : LongIn(r, i, n) => LongIn(q, i, n)
  BY <1>1, <1>3, LongKept
<1> QED
  BY <1>1, <1>4, <1>5

-----------------------------------------------------------------------------
(* The slots change, and the entries that stay keep their names.  Either   *)
(* entries are only taken away, or one is added under a name no entry had. *)
Keeps(q, r) ==
  \A i \in EntriesOf(r) \cap EntriesOf(q) :
    r[i] = q[i] /\ \A n \in Names : LongIn(r, i, n) <=> LongIn(q, i, n)

(* Entries are short entries before the end.                               *)
LEMMA EntriesIn ==
  ASSUME NEW q \in Seq(Slot)
  PROVE  \A i \in EntriesOf(q) : i \in 1 .. Len(q) /\ q[i].tag = "short"
BY EndOfFacts DEF EntriesOf

(* An entry that stays is found and shown under the same name.             *)
LEMMA SameNames ==
  ASSUME NEW q, NamedWell(q), NEW r \in Seq(Slot), Keeps(q, r),
         NEW i \in EntriesOf(r) \cap EntriesOf(q)
  PROVE  /\ \A n \in Names : ShowsIn(r, i, n) <=> ShowsIn(q, i, n)
         /\ ShownIn(r, i) = ShownIn(q, i) /\ r[i].cluster = q[i].cluster
         /\ ShownIn(q, i) \in Names /\ ShowsIn(q, i, ShownIn(q, i))
<1>1. q \in Seq(Slot)
  BY DEF NamedWell
<1>2. PICK n \in Names : ShowsIn(q, i, n)
  BY DEF NamedWell
<1>3. r[i] = q[i] /\ \A m \in Names : ShowsIn(r, i, m) <=> ShowsIn(q, i, m)
  BY DEF Keeps, ShowsIn
<1>4. i \in 1 .. Len(q) /\ q[i].tag = "short" /\ i \in 1 .. Len(r) /\ r[i].tag = "short"
  BY <1>1, EntriesIn
<1>5. ShownIn(q, i) = n
  BY <1>1, <1>2, <1>4, OneName
<1>6. ShownIn(r, i) = n
  BY <1>2, <1>3, <1>4, OneName
<1> QED
  BY <1>2, <1>3, <1>5, <1>6

(* Entries are taken away at most: the listing loses exactly theirs.       *)
LEMMA NamesWhenTaken ==
  ASSUME NEW q, NamedWell(q), NEW r \in Seq(Slot), Keeps(q, r),
         EntriesOf(r) \subseteq EntriesOf(q)
  PROVE  /\ NamedWell(r)
         /\ \A i \in EntriesOf(r), n \in Names : ShowsIn(r, i, n) <=> ShowsIn(q, i, n)
         /\ Listed(r) = {[name |-> ShownIn(q, i), ref |-> q[i].cluster] : i \in EntriesOf(r)}
<1>1. \A i \in EntriesOf(r) :
        /\ \A n \in Names : ShowsIn(r, i, n) <=> ShowsIn(q, i, n)
        /\ ShownIn(r, i) = ShownIn(q, i) /\ r[i].cluster = q[i].cluster
  BY SameNames
<1>2. NamedWell(r)
  <2>1. \A i \in EntriesOf(r) : \E n \in Names : ShowsIn(r, i, n)
    BY <1>1 DEF NamedWell
  <2>2. \A n \in Names : \A i, j \in EntriesOf(r) : ShowsIn(r, i, n) /\ ShowsIn(r, j, n) => i = j
    BY <1>1 DEF NamedWell
  <2> QED
    BY <2>1, <2>2 DEF NamedWell
<1>3. Listed(r) = {[name |-> ShownIn(q, i), ref |-> q[i].cluster] : i \in EntriesOf(r)}
  BY <1>1 DEF Listed
<1> QED
  BY <1>1, <1>2, <1>3

(* An entry is added under a name that no entry had.                       *)
LEMMA NamesWhenAdded ==
  ASSUME NEW q, NamedWell(q), NEW r \in Seq(Slot), Keeps(q, r),
         NEW a, EntriesOf(r) = EntriesOf(q) \cup {a}, NEW n \in Names, ShowsIn(r, a, n),
         \A i \in EntriesOf(q) : ~ ShowsIn(q, i, n)
  PROVE  /\ NamedWell(r)
         /\ \A i \in EntriesOf(q), m \in Names : ShowsIn(r, i, m) <=> ShowsIn(q, i, m)
         /\ Listed(r) = Listed(q) \cup {[name |-> n, ref |-> r[a].cluster]}
<1>1. \A i \in EntriesOf(q) :
        /\ \A m \in Names : ShowsIn(r, i, m) <=> ShowsIn(q, i, m)
        /\ ShownIn(r, i) = ShownIn(q, i) /\ r[i].cluster = q[i].cluster
  BY SameNames
<1>2. a \in 1 .. Len(r) /\ r[a].tag = "short"
  BY EntriesIn
<1>3. ShownIn(r, a) = n /\ \A m \in Names : ShowsIn(r, a, m) => m = n
  BY <1>2, OneName
<1>4. NamedWell(r)
  <2>1. \A i \in EntriesOf(r) : \E m \in Names : ShowsIn(r, i, m)
    BY <1>1 DEF NamedWell
  <2>2. ASSUME NEW m \in Names, NEW i \in EntriesOf(r), NEW j \in EntriesOf(r),
               ShowsIn(r, i, m), ShowsIn(r, j, m)
        PROVE  i = j
    <3>1. CASE i = a \/ j = a
      BY <1>1, <1>3, <2>2, <3>1
    <3>2. CASE i \in EntriesOf(q) /\ j \in EntriesOf(q)
      BY <1>1, <2>2, <3>2 DEF NamedWell
    <3> QED
      BY <3>1, <3>2
  <2> QED
    BY <2>1, <2>2 DEF NamedWell
<1>5. Listed(r) = Listed(q) \cup {[name |-> n, ref |-> r[a].cluster]}
  BY <1>1, <1>3 DEF Listed
<1> QED
  BY <1>1, <1>4, <1>5

(* What is in a listing.                                                   *)
LEMMA InListing ==
  ASSUME NEW q, NamedWell(q)
  PROVE  /\ \A e \in Listed(q) : \E i \in EntriesOf(q) :
              e.name \in Names /\ ShowsIn(q, i, e.name) /\ e.ref = q[i].cluster
         /\ \A i \in EntriesOf(q), n \in Names :
              ShowsIn(q, i, n) => ShownIn(q, i) = n /\ [name |-> n, ref |-> q[i].cluster] \in Listed(q)
<1>1. q \in Seq(Slot)
  BY DEF NamedWell
<1>2. \A i \in EntriesOf(q), n \in Names : ShowsIn(q, i, n) => ShownIn(q, i) = n
  BY <1>1, EntriesIn, OneName
<1>3. \A i \in EntriesOf(q) : ShownIn(q, i) \in Names /\ ShowsIn(q, i, ShownIn(q, i))
  BY <1>2 DEF NamedWell
<1> QED
  BY <1>2, <1>3 DEF Listed

-----------------------------------------------------------------------------
(* The entries of the map are the listing, before and after a step.        *)
LEMMA OfListing ==
  /\ {[name |-> Shown(i), ref |-> slots[i].cluster] : i \in Entries} = Listed(slots)
  /\ {[name |-> Shown(i)', ref |-> slots'[i].cluster] : i \in Entries'} = Listed(slots')
BY OfNames, OfSlots DEF Listed

(* EntriesNamed in terms of the slots, before and after a step.            *)
LEMMA OfEntriesNamed ==
  ASSUME slots \in Seq(Slot)
  PROVE  EntriesNamed <=> NamedWell(slots)
<1>1. DOMAIN slots = 1 .. Len(slots)
  OBVIOUS
<1> QED
  BY <1>1, OfNames, OfSlots DEF EntriesNamed, ListedOnce, NamedWell

(* EntriesNamed said of the slots after a step.                            *)
LEMMA OfEntriesNamedNext ==
  ASSUME (slots \in Seq(Slot))'
  PROVE  EntriesNamed' <=> NamedWell(slots')
<1>1. DOMAIN slots' = 1 .. Len(slots')
  OBVIOUS
<1> QED
  BY <1>1, OfNames, OfSlots DEF EntriesNamed, ListedOnce, NamedWell

(* A step that leaves the slots alone.                                     *)
LEMMA NamesSame ==
  ASSUME slots' = slots
  PROVE  /\ Listed(slots') = Listed(slots) /\ Entries' = Entries
         /\ EntriesNamed => EntriesNamed'
         /\ \A i, n : Shows(i, n)' <=> Shows(i, n)
<1>1. /\ Entries' = Entries /\ \A i, n : Shows(i, n)' <=> Shows(i, n)
  BY SlotsUnchanged, OfNames
<1>2. Listed(slots') = Listed(slots)
  OBVIOUS
<1>3. EntriesNamed => EntriesNamed'
  BY <1>1 DEF EntriesNamed, ListedOnce
<1> QED
  BY <1>1, <1>2, <1>3

(* A lookup finds the entry that is listed under the name.                 *)
LEMMA FoundShows ==
  ASSUME slots \in Seq(Slot), NEW n \in Names, NEW i \in Entries, Shows(i, n)
  PROVE  i \in Found(n)
<1>1. slots[i].tag = "short" /\ i \in 1 .. Len(slots)
  BY EntriesFacts
<1>2. slots[i].short \in ShortNames /\ slots[i].short # NoName
  BY <1>1, SlotTags, DirectoryAssumption
<1>3. slots[i].short = CanonicalShort[n] => n \in Answers[slots[i].short]
  BY <1>2, DirectoryAssumption
<1> QED
  BY <1>3 DEF Found, Matches, Shows

(* InListing for the slots as they are.                                    *)
LEMMA InListingNow ==
  ASSUME slots \in Seq(Slot), EntriesNamed
  PROVE  /\ \A e \in Listed(slots) : \E i \in Entries :
              e.name \in Names /\ Shows(i, e.name) /\ e.ref = slots[i].cluster
         /\ \A i \in Entries, n \in Names : Shows(i, n) =>
              Shown(i) = n /\ [name |-> n, ref |-> slots[i].cluster] \in Listed(slots)
<1>1. NamedWell(slots)
  BY OfEntriesNamed
<1> QED
  BY <1>1, InListing, OfNames, OfSlots

-----------------------------------------------------------------------------
(* The steps.  Each keeps the names of the entries, and is a step of the   *)
(* map or leaves it as it is.                                              *)
MapStep == [Map!MapNext]_(Map!mapVars)

(* A step that changes neither the listing nor the call, or only ends the  *)
(* call.                                                                   *)
LEMMA StepOfMap ==
  /\ Listed(slots') = Listed(slots) /\ call' = call => MapStep
  /\ Listed(slots') = Listed(slots) /\ call # NoCall /\ call' = NoCall => MapStep
BY OfListing DEF MapStep, Map!MapNext, Map!mapVars, Map!Return

(* No call runs.                                                           *)
LEMMA KindOfCall ==
  ASSUME call = NoCall PROVE call.kind = "none" /\ call.name = NoName
BY DEF NoCall

(* A call that returns and one that fails.                                 *)
LEMMA ReturnNames ==
  ASSUME Return, slots' = slots, EntriesNamed, call # NoCall PROVE NamesInv' /\ MapStep
<1>1. call' = NoCall /\ phase' = "idle" /\ call'.kind = "none"
  BY DEF Return, NoCall
<1>2. CallNamed'
  BY <1>1 DEF CallNamed, Unnamed, Unpublished, HoldsSource
<1> QED
  BY <1>1, <1>2, NamesSame, StepOfMap DEF NamesInv

(* A call that returns an error changes no slot, and no entry of the map.  *)
LEMMA ReturnErrorNames ==
  ASSUME ReturnError, slots' = slots, EntriesNamed, call # NoCall PROVE NamesInv' /\ MapStep
<1>1. CASE Return
  BY <1>1, ReturnNames
<1>2. CASE call.kind = "mkdir" /\ phase' = "undo" /\ UNCHANGED call
  <2>1. CallNamed'
    BY <1>2 DEF CallNamed, Unnamed, Unpublished, HoldsSource
  <2> QED
    BY <1>2, <2>1, NamesSame, StepOfMap DEF NamesInv
<1> QED
  BY <1>1, <1>2 DEF ReturnError

(* A call that begins, by the listing it found.                            *)
LEMMA BeginOfMap ==
  ASSUME call = NoCall, call' # NoCall, slots' = slots,
         call'.kind \in {"create", "mkdir", "rename"} =>
           \A e \in Listed(slots) : e.name # call'.name,
         call'.kind \in {"remove", "rename"} =>
           [name |-> call'.source, ref |-> call'.ref] \in Listed(slots)
  PROVE  MapStep
BY OfListing DEF MapStep, Map!MapNext, Map!mapVars, Map!Begin, Map!Named

(* The name is free, or there is an entry of the name.                     *)
LEMMA NothingOfName ==
  ASSUME slots \in Seq(Slot), EntriesNamed, NEW n \in Names, Found(n) = {}
  PROVE  /\ \A e \in Listed(slots) : e.name # n
         /\ \A i \in Entries : ~ Shows(i, n)
<1>1. \A i \in Entries : ~ Shows(i, n)
  BY FoundShows
<1> QED
  BY <1>1, InListingNow

(* find_entry finds an entry that the map has, under the name it is listed *)
(* under.                                                                  *)
LEMMA EntryOfName ==
  ASSUME slots \in Seq(Slot), EntriesNamed, NEW n \in Names, Found(n) # {}
  PROVE  \E s \in Names :
           /\ s = Shown(FindEntry(n))
           /\ FindEntry(n) \in Entries /\ Shows(FindEntry(n), s)
           /\ [name |-> s, ref |-> slots[FindEntry(n)].cluster] \in Listed(slots)
<1>1. Found(n) \in SUBSET Nat
  BY EntriesFacts DEF Found
<1>2. FindEntry(n) \in Found(n)
  BY <1>1, MinIs DEF FindEntry
<1>3. FindEntry(n) \in Entries
  BY <1>2 DEF Found
<1>4. PICK s \in Names : Shows(FindEntry(n), s)
  BY <1>3 DEF EntriesNamed
<1> QED
  BY <1>3, <1>4, InListingNow

(* The calls begin.                                                        *)
LEMMA CreateFileNames ==
  ASSUME DirInv, NamesInv, NEW n \in Names, CreateFile(n)
  PROVE  NamesInv' /\ MapStep
<1>1. /\ call = NoCall /\ slots' = slots /\ phase' = "write" /\ Found(n) = {}
      /\ slots \in Seq(Slot) /\ EntriesNamed
  BY DEF CreateFile, CreateNamedEntry, DirInv, LocalsOK, NamesInv
<1>2. call' = [kind |-> "create", name |-> n, source |-> NoName, ref |-> NoCluster,
               start |-> 0, last |-> 0]
  BY DEF CreateFile, NoCall
<1>3. call'.kind = "create" /\ call'.name = n /\ call' # NoCall
  BY <1>2 DEF NoCall
<1>4. (\A e \in Listed(slots) : e.name # n) /\ \A i \in Entries : ~ Shows(i, n)
  BY <1>1, NothingOfName
<1>5. CallNamed'
  BY <1>1, <1>3, <1>4, NamesSame DEF CallNamed, HoldsSource
<1> QED
  BY <1>1, <1>3, <1>4, <1>5, NamesSame, BeginOfMap DEF NamesInv

(* The other calls that begin are steps of the map, too.                   *)
LEMMA CreateDirectoryNames ==
  ASSUME DirInv, NamesInv, NEW n \in Names, CreateDirectory(n)
  PROVE  NamesInv' /\ MapStep
<1>1. /\ call = NoCall /\ slots' = slots /\ phase' = "alloc" /\ Found(n) = {}
      /\ slots \in Seq(Slot) /\ EntriesNamed
  BY DEF CreateDirectory, DirInv, LocalsOK, NamesInv
<1>2. call' = [kind |-> "mkdir", name |-> n, source |-> NoName, ref |-> NoCluster,
               start |-> 0, last |-> 0]
  BY DEF CreateDirectory, NoCall
<1>3. call'.kind = "mkdir" /\ call'.name = n /\ call' # NoCall
  BY <1>2 DEF NoCall
<1>4. (\A e \in Listed(slots) : e.name # n) /\ \A i \in Entries : ~ Shows(i, n)
  BY <1>1, NothingOfName
<1>5. CallNamed'
  BY <1>1, <1>3, <1>4, NamesSame DEF CallNamed, HoldsSource
<1> QED
  BY <1>1, <1>3, <1>4, <1>5, NamesSame, BeginOfMap DEF NamesInv

LEMMA RemoveNames ==
  ASSUME DirInv, NamesInv, NEW n \in Names, Remove(n)
  PROVE  NamesInv' /\ MapStep
<1>0. PICK i : i = FindEntry(n)
  OBVIOUS
<1>1. /\ call = NoCall /\ slots' = slots /\ phase' = "delete" /\ at' = i /\ Found(n) # {}
      /\ slots \in Seq(Slot) /\ EntriesNamed
  BY <1>0 DEF Remove, DirInv, LocalsOK, NamesInv
<1>3. PICK s \in Names : /\ s = Shown(i) /\ i \in Entries /\ Shows(i, s)
                        /\ [name |-> s, ref |-> slots[i].cluster] \in Listed(slots)
  BY <1>0, <1>1, EntryOfName
<1>2. call' = [kind |-> "remove", name |-> NoName, source |-> s, ref |-> slots[i].cluster,
               start |-> LfnStart(i), last |-> i]
  BY <1>0, <1>3 DEF Remove, CallOn
<1>4. /\ call'.kind = "remove" /\ call'.source = s /\ call'.last = i
      /\ call'.ref = slots[i].cluster /\ call' # NoCall
  BY <1>2 DEF NoCall
<1>5. CallNamed'
  <2>1. ~ Unnamed'
    BY <1>1 DEF Unnamed, Unpublished
  <2>2. Shows(i, s)' /\ i \in Entries'
    BY <1>1, <1>3, NamesSame
  <2>3. (call.source \in Names /\ call.last \in Entries /\ Shows(call.last, call.source))'
    BY <1>4, <2>2 DEF Shows, HasLongName, LongNameBefore
  <2> QED
    BY <1>4, <2>1, <2>3 DEF CallNamed
<1> QED
  BY <1>1, <1>3, <1>4, <1>5, NamesSame, BeginOfMap DEF NamesInv

LEMMA RenameNames ==
  ASSUME DirInv, NamesInv, NEW n \in Names, NEW m \in Names, Rename(n, m)
  PROVE  NamesInv' /\ MapStep
<1>0. PICK i : i = FindEntry(n)
  OBVIOUS
<1>1. /\ call = NoCall /\ slots' = slots /\ phase' = "write" /\ Found(n) # {} /\ Found(m) = {}
      /\ slots \in Seq(Slot) /\ EntriesNamed /\ FreeAliases(m) # {}
      /\ run' = NewSlots(m, slots[i].cluster) /\ at' = Place(m).start
  BY <1>0 DEF Rename, CreateNamedEntry, DirInv, LocalsOK, NamesInv
<1>3. PICK s \in Names : /\ s = Shown(i) /\ i \in Entries /\ Shows(i, s)
                        /\ [name |-> s, ref |-> slots[i].cluster] \in Listed(slots)
  BY <1>0, <1>1, EntryOfName
<1>2. call' = [kind |-> "rename", name |-> m, source |-> s, ref |-> slots[i].cluster,
               start |-> LfnStart(i), last |-> i]
  BY <1>0, <1>3 DEF Rename, CallOn
<1>4. slots[i].cluster \in Clusters \cup {NoCluster}
  BY <1>1, <1>3, EntriesFacts
<1>5. /\ call'.kind = "rename" /\ call'.source = s /\ call'.last = i /\ call'.name = m
      /\ call'.ref = slots[i].cluster /\ call' # NoCall
  BY <1>2 DEF NoCall
<1>6. (\A e \in Listed(slots) : e.name # m) /\ \A j \in Entries : ~ Shows(j, m)
  BY <1>1, NothingOfName
<1>7. ~ Published'
  <2>1. run' # <<End>>
    BY <1>1, <1>4, <1>5, EntryStarted
  <2> QED
    BY <2>1 DEF Published
<1>8. CallNamed'
  <2>1. Shows(i, s)' /\ i \in Entries' /\ \A j \in Entries' : ~ Shows(j, m)'
    BY <1>1, <1>3, <1>6, NamesSame
  <2>2. (call.source \in Names /\ call.last \in Entries /\ Shows(call.last, call.source))'
    BY <1>5, <2>1 DEF Shows, HasLongName, LongNameBefore
  <2>3. (\A j \in Entries : ~ Shows(j, call.name))'
    BY <1>5, <2>1 DEF Shows, HasLongName, LongNameBefore
  <2> QED
    BY <1>1, <1>7, <2>2, <2>3 DEF CallNamed
<1> QED
  BY <1>1, <1>3, <1>5, <1>6, <1>8, NamesSame, BeginOfMap DEF NamesInv

(* create_directory before its first write in this directory.              *)
LEMMA AllocateClusterNames ==
  ASSUME DirInv, NamesInv, AllocateCluster PROVE NamesInv' /\ MapStep
<1>1. PICK c \in free : call' = [call EXCEPT !.ref = c]
  BY DEF AllocateCluster
<1>2. /\ phase = "alloc" /\ phase' = "dots" /\ slots' = slots /\ call \in CallRecords
      /\ call.kind = "mkdir" /\ c \in Clusters /\ EntriesNamed /\ CallNamed
  BY DEF AllocateCluster, DirInv, LocalsOK, DirTypeOK, NamesInv
<1>3. call'.kind = "mkdir" /\ call'.name = call.name /\ call # NoCall
  BY <1>1, <1>2, KindOfCall DEF CallRecords
<1>4. CallNamed'
  <2>1. PICK n : n = call.name
    OBVIOUS
  <2>2. \A i \in Entries' : ~ Shows(i, n)'
    BY <1>2, <2>1, NamesSame DEF CallNamed, Unnamed
  <2>3. (\A i \in Entries : ~ Shows(i, call.name))'
    BY <1>3, <2>1, <2>2 DEF Shows, HasLongName, LongNameBefore
  <2> QED
    BY <1>2, <1>3, <2>3 DEF CallNamed, HoldsSource
<1>5. MapStep
  BY <1>1, <1>2, <1>3, NamesSame, OfListing DEF MapStep, Map!MapNext, Map!mapVars, Map!Choose
<1> QED
  BY <1>2, <1>4, <1>5, NamesSame DEF NamesInv

(* Nothing of the new cluster is visible before its entry.                 *)
LEMMA DotsAndNameNames ==
  ASSUME DirInv, NamesInv, WriteDotEntries \/ NameDirectory PROVE NamesInv' /\ MapStep
<1>1. /\ phase \in {"dots", "name"} /\ slots' = slots /\ call.kind = "mkdir"
      /\ EntriesNamed /\ CallNamed /\ call # NoCall
  BY KindOfCall DEF WriteDotEntries, NameDirectory, DirInv, LocalsOK, NamesInv
<1>2. CASE call' = call /\ phase' \in {"name", "write"}
  <2>1. \A i \in Entries : ~ Shows(i, call.name)
    BY <1>1 DEF CallNamed, Unnamed, Unpublished
  <2>2. (\A i \in Entries : ~ Shows(i, call.name))'
    BY <1>1, <1>2, <2>1, NamesSame DEF Shows, HasLongName, LongNameBefore
  <2>3. CallNamed'
    BY <1>1, <1>2, <2>2 DEF CallNamed, HoldsSource
  <2> QED
    BY <1>1, <1>2, <2>3, NamesSame, StepOfMap DEF NamesInv
<1>3. CASE ReturnError
  BY <1>1, <1>3, ReturnErrorNames
<1> QED
  BY <1>2, <1>3 DEF WriteDotEntries, NameDirectory, CreateNamedEntry

(* The call goes on, and its entries are as they were.                     *)
LEMMA CallGoesOn ==
  ASSUME CallNamed, call' = call, phase' = phase, phase = "write", Entries' = Entries,
         Published' => Published \/ call.kind # "rename",
         Unnamed' => Unnamed,
         \A i \in Entries : slots'[i] = slots[i] /\
           \A n \in Names : Shows(i, n)' <=> Shows(i, n),
         call.name \in Names
  PROVE  CallNamed'
<1>1. PICK n, m, l : n = call.name /\ m = call.source /\ l = call.last
  OBVIOUS
<1>a. \A i : Shows(i, call.name)' <=> Shows(i, n)'
  BY <1>1 DEF Shows, HasLongName, LongNameBefore
<1>b. \A i : Shows(i, call.name) <=> Shows(i, n)
  BY <1>1
<1>3. /\ Shows(call.last, call.source)' <=> Shows(l, m)'
      /\ Shows(call.last, call.source) <=> Shows(l, m)
  BY <1>1 DEF Shows, HasLongName, LongNameBefore
<1>4. (Unnamed => \A i \in Entries : ~ Shows(i, call.name))'
  BY <1>1, <1>a, <1>b DEF CallNamed
<1>5. (HoldsSource => /\ call.source \in Names /\ call.last \in Entries
                     /\ Shows(call.last, call.source))'
  BY <1>1, <1>3 DEF CallNamed, HoldsSource
<1>6. (call.kind = "rename" /\ (Published \/ phase = "delete") =>
         \E i \in Entries \ {call.last} :
           Shows(i, call.name) /\ slots[i].cluster = call.ref)'
  BY <1>1, <1>a, <1>b DEF CallNamed
<1> QED
  BY <1>4, <1>5, <1>6 DEF CallNamed

(* The slots change but no entry comes or goes.                            *)
LEMMA EntriesStay ==
  ASSUME slots \in Seq(Slot), EntriesNamed, slots' \in Seq(Slot),
         Keeps(slots, slots'), Entries' = Entries
  PROVE  /\ EntriesNamed' /\ Listed(slots') = Listed(slots)
         /\ \A i \in Entries : slots'[i] = slots[i] /\
              \A n \in Names : Shows(i, n)' <=> Shows(i, n)
<1>1. NamedWell(slots) /\ EntriesOf(slots') = EntriesOf(slots)
  BY OfEntriesNamed, OfSlots
<1>2. /\ NamedWell(slots')
      /\ \A i \in EntriesOf(slots'), n \in Names : ShowsIn(slots', i, n) <=> ShowsIn(slots, i, n)
      /\ Listed(slots') =
           {[name |-> ShownIn(slots, i), ref |-> slots[i].cluster] : i \in EntriesOf(slots')}
  BY <1>1, NamesWhenTaken
<1>3. Listed(slots') = Listed(slots)
  BY <1>1, <1>2 DEF Listed
<1>4. EntriesNamed'
  BY <1>2, OfEntriesNamedNext
<1>5. \A i \in Entries : slots'[i] = slots[i] /\
        \A n \in Names : Shows(i, n)' <=> Shows(i, n)
  BY <1>1, <1>2, OfNames, OfSlots, Zenon DEF Keeps
<1> QED
  BY <1>3, <1>4, <1>5

(* A cluster of end markers is appended.                                   *)
LEMMA GrowDirectoryNames ==
  ASSUME DirInv, NamesInv, GrowDirectory PROVE NamesInv' /\ MapStep
<1>1. /\ phase = "write" /\ at > Len(slots) /\ UNCHANGED <<phase, call, run, at>>
      /\ slots' = slots \o [i \in 1 .. SlotsPerCluster |-> End]
      /\ slots \in Seq(Slot) /\ EntriesNamed /\ CallNamed /\ call \in CallRecords
      /\ call.name \in Names /\ call # NoCall
  BY KindOfCall DEF GrowDirectory, DirInv, NamesInv, LocalsOK
<1>2. EndIndex = Len(slots) + 1
  BY <1>1, EntriesFacts DEF DirInv, WriteInv
<1>3. PICK q, r : q \in Seq(Slot) /\ q = slots /\ r = slots'
  BY <1>1
<1>4. /\ r \in Seq(Slot) /\ Len(r) = Len(q) + SlotsPerCluster /\ Behind(r)
      /\ EndOf(r) = EndOf(q) /\ EntriesOf(r) = EntriesOf(q)
      /\ \A i \in 1 .. Len(q) : r[i] = q[i]
      /\ EndOf(q) = Len(q) + 1
  BY <1>1, <1>2, <1>3, OfSlots, SlotsAppended
<1>7. Keeps(q, r)
  <2> SUFFICES ASSUME NEW i \in EntriesOf(q)
               PROVE  r[i] = q[i] /\ \A n \in Names : LongIn(r, i, n) <=> LongIn(q, i, n)
    BY DEF Keeps
  <2>1. i \in 1 .. Len(q) /\ i \in 1 .. Len(r) /\ \A j \in 1 .. i : r[j] = q[j]
    BY <1>3, <1>4, EntriesIn, DirectoryAssumption
  <2>2. PICK a \in Nat : a = i + 1
    BY <2>1
  <2>3. Separate(q, r, i, a)
    BY <2>1, <2>2 DEF Separate
  <2> QED
    BY <1>3, <1>4, <2>3, NameKept
<1>8. /\ EntriesNamed' /\ Listed(slots') = Listed(slots) /\ Entries' = Entries
      /\ \A i \in Entries : slots'[i] = slots[i] /\
           \A n \in Names : Shows(i, n)' <=> Shows(i, n)
  BY <1>1, <1>3, <1>4, <1>7, OfSlots, EntriesStay
<1>9. (Published' <=> Published) /\ (Unnamed' <=> Unnamed)
  BY <1>1 DEF Published, Unnamed, Unpublished
<1>10. CallNamed'
  BY <1>1, <1>8, <1>9, CallGoesOn
<1> QED
  BY <1>1, <1>8, <1>10, StepOfMap DEF NamesInv

(* A slot is written where no entry has a piece of its name, and behind a  *)
(* piece there is room for more, so that no entry gets one.                *)
LEMMA WrittenKeeps ==
  ASSUME NEW q \in Seq(Slot), NEW r \in Seq(Slot), NEW a \in 1 .. Len(q), a <= EndOf(q),
         a < EndOf(q) => q[a] = Deleted, NEW x \in Slot, r = [q EXCEPT ![a] = x],
         x.tag = "lfn" /\ a + 1 < EndOf(q) => q[a + 1] = Deleted
  PROVE  Keeps(q, r)
<1>1. Len(r) = Len(q) /\ \A i \in 1 .. Len(q) : r[i] = IF i = a THEN x ELSE q[i]
  OBVIOUS
<1>2. q[a].tag # "lfn" /\ q[a].tag # "short"
  <2>1. CASE a < EndOf(q)
    BY <2>1, SlotKinds
  <2>2. CASE a = EndOf(q)
    BY <2>2, EndOfFacts, SlotKinds
  <2> QED
    BY <2>1, <2>2, EndOfFacts
<1> SUFFICES ASSUME NEW i \in EntriesOf(q)
             PROVE  r[i] = q[i] /\ \A n \in Names : LongIn(r, i, n) <=> LongIn(q, i, n)
  BY DEF Keeps
<1>3. i \in 1 .. Len(q) /\ q[i].tag = "short" /\ i < EndOf(q) /\ EndOf(q) \in Nat
  BY EntriesIn, EndOfFacts DEF EntriesOf
<1>4. i # a /\ \A j \in 1 .. i : j # a => r[j] = q[j]
  BY <1>1, <1>2, <1>3
<1>5. ASSUME a < i
      PROVE  /\ \E k \in a .. i - 1 : q[k].tag # "lfn"
             /\ \E k \in a .. i - 1 : r[k].tag # "lfn"
  <2>1. a \in a .. i - 1
    BY <1>3, <1>5
  <2>2. CASE x.tag # "lfn"
    BY <1>1, <1>2, <2>1, <2>2
  <2>3. CASE x.tag = "lfn"
    <3>1. a + 1 < EndOf(q) /\ q[a + 1].tag = "deleted"
      BY <1>3, <1>5, <2>3, SlotKinds
    <3>2. a + 1 # i
      BY <1>3, <3>1
    <3>3. a + 1 \in a .. i - 1 /\ a + 1 \in 1 .. Len(q) /\ a + 1 # a
      BY <1>3, <1>5, <3>2
    <3>4. r[a + 1].tag # "lfn"
      BY <1>1, <3>1, <3>3
    <3> QED
      BY <1>2, <2>1, <3>3, <3>4
  <2> QED
    BY <2>2, <2>3
<1>6. Separate(q, r, i, a)
  BY <1>1, <1>3, <1>4, <1>5 DEF Separate
<1> QED
  BY <1>6, NameKept

(* A piece of the long name changes no entry and no listing.               *)
LEMMA WritePieceNames ==
  ASSUME DirInv, NamesInv, WriteSlot, ~ Published, NEW short \in ShortNames,
         NEW count \in {0, LfnCount[call.name]}, NEW left \in 1 .. count,
         Writing(short, count, left)
  PROVE  NamesInv' /\ MapStep
<1>1. /\ DirInv' /\ Entries' = Entries /\ slots' = [slots EXCEPT ![at] = Lfn(call.name, left, short)]
      /\ ~ Published' /\ UNCHANGED <<phase, call>>
  BY WritePieceStep
<1>2. /\ phase = "write" /\ call \in CallRecords /\ call.name \in Names
      /\ at \in 1 .. Len(slots) /\ at <= EndIndex
      /\ at < EndIndex => slots[at] = Deleted
  BY WriteSlotFacts
<1>3. /\ slots \in Seq(Slot) /\ slots' \in Seq(Slot) /\ EntriesNamed /\ CallNamed /\ call # NoCall
  BY <1>1, <1>2, KindOfCall DEF DirInv, NamesInv, CallRecords
<1>4. count # 0 /\ left \in Nat \ {0}
  <2>1. count \in Nat
    BY <1>2, DirectoryAssumption
  <2> QED
    BY <2>1
<1>5. at + 1 < EndIndex => slots[at + 1] = Deleted
  <2>1. run \in {NamedSlots(call.name, call.ref, short, left),
                 Append(NamedSlots(call.name, call.ref, short, left), End)}
    BY DEF Writing
  <2>2. call.ref \in Clusters \cup {NoCluster}
    BY <1>2 DEF CallRecords
  <2>3. Len(run) >= 2 /\ Len(run) \in Nat
    <3>1. PICK s : s = NamedSlots(call.name, call.ref, short, left)
      OBVIOUS
    <3>2. s \in Seq(Slot) /\ Len(s) = left + 1
      <4>1. PICK n \in Names, c \in Clusters \cup {NoCluster}, k \in Nat :
              n = call.name /\ c = call.ref /\ k = left
        BY <1>2, <1>4, <2>2
      <4>2. /\ NamedSlots(n, c, short, k) \in Seq(Slot)
            /\ Len(NamedSlots(n, c, short, k)) = k + 1
        BY NamedSlotsFacts
      <4> QED
        BY <3>1, <4>1, <4>2
    <3>3. Len(Append(s, End)) = left + 2
      BY <1>4, <3>2
    <3> QED
      BY <1>4, <2>1, <3>1, <3>2, <3>3
  <2>4. at + 1 \in at .. at + Len(run) - 1
    BY <1>2, <2>3
  <2> QED
    BY <1>2, <2>4 DEF DirInv, WriteInv
<1>6. PICK x \in Slot : x = Lfn(call.name, left, short)
  BY <1>2, <1>4, SlotKinds
<1>7. Keeps(slots, slots')
  <2>3. PICK q, r, a : q = slots /\ r = slots' /\ a = at
    OBVIOUS
  <2>4. /\ q \in Seq(Slot) /\ r \in Seq(Slot) /\ a \in 1 .. Len(q)
        /\ a <= EndOf(q)
        /\ a < EndOf(q) => q[a] = Deleted
        /\ a + 1 < EndOf(q) => q[a + 1] = Deleted
    BY <1>2, <1>3, <1>5, <2>3, OfSlots
  <2>5. r = [q EXCEPT ![a] = x]
    BY <1>1, <1>6, <2>3
  <2>6. Keeps(q, r)
    BY <2>4, <2>5, WrittenKeeps
  <2> QED
    BY <2>3, <2>6
<1>8. /\ EntriesNamed' /\ Listed(slots') = Listed(slots)
      /\ \A i \in Entries : slots'[i] = slots[i] /\
           \A n \in Names : Shows(i, n)' <=> Shows(i, n)
  BY <1>1, <1>3, <1>7, EntriesStay
<1>9. Unnamed
  BY <1>2 DEF Unnamed, Unpublished, Published
<1>10. CallNamed'
  BY <1>1, <1>2, <1>3, <1>8, <1>9, CallGoesOn
<1> QED
  BY <1>1, <1>3, <1>8, <1>10, StepOfMap DEF NamesInv

(* The short entry: the name is published.                                 *)
LEMMA WriteEntryNames ==
  ASSUME NoAdoption, DirInv, NamesInv, WriteSlot, ~ Published, NEW short \in ShortNames,
         NEW count \in {0, LfnCount[call.name]}, Writing(short, count, 0)
  PROVE  NamesInv' /\ MapStep
<1>1. /\ DirInv' /\ Entries' = Entries \cup {at} /\ at \notin Entries
      /\ slots' = [slots EXCEPT ![at] = Short(short, call.ref)]
      /\ Unpublished /\ ~ Unpublished' /\ phase' # "alloc"
      /\ call.kind = "rename" => call' = call
      /\ UNCHANGED call \/ Return
  BY WriteEntryStep
<1>2. /\ phase = "write" /\ call \in CallRecords /\ call.name \in Names
      /\ at \in 1 .. Len(slots) /\ at <= EndIndex
      /\ at < EndIndex => slots[at] = Deleted
      /\ Len(slots) \in Nat
  BY WriteSlotFacts
<1>3. /\ slots \in Seq(Slot) /\ slots' \in Seq(Slot) /\ EntriesNamed /\ CallNamed /\ call # NoCall
      /\ call.kind \in {"create", "mkdir", "rename"}
  BY <1>1, <1>2, KindOfCall DEF DirInv, NamesInv, LocalsOK, CallRecords
<1>4. PICK n, c, q, r, a : n = call.name /\ c = call.ref /\ q = slots /\ r = slots' /\ a = at
  OBVIOUS
<1>5. /\ n \in Names /\ c \in Clusters \cup {NoCluster} /\ q \in Seq(Slot) /\ r \in Seq(Slot)
      /\ a \in 1 .. Len(q) /\ a <= EndOf(q)
      /\ a < EndOf(q) => q[a] = Deleted
      /\ NamedWell(q) /\ Len(q) \in Nat
  BY <1>2, <1>3, <1>4, OfSlots, OfEntriesNamed DEF CallRecords, NamedWell
<1>6. PICK x \in Slot : /\ x = Short(short, c) /\ x.tag = "short" /\ x.short = short
                        /\ x.cluster = c /\ x.tag # "lfn"
  BY <1>5, SlotKinds
<1>7. r = [q EXCEPT ![a] = x]
  BY <1>1, <1>4, <1>6
<1>8. Keeps(q, r)
  BY <1>5, <1>6, <1>7, WrittenKeeps
<1>9. /\ r[a] = x /\ \A i \in 1 .. Len(q) : i # a => r[i] = q[i]
  BY <1>5, <1>7
<1>10. ShowsIn(r, a, n)
  <2>1. CASE count = 0
    <3>1. Head(run) = x
      <4>1. slots' = [slots EXCEPT ![at] = Head(run)]
        BY DEF WriteSlot
      <4> QED
        BY <1>1, <1>2, <1>3, <1>4, <1>6, <4>1
    <3>2. \A o \in Names : LongNameBefore(at, short, o) => o = call.name
      BY <1>2, <1>6, <3>1 DEF NoAdoption
    <3>3. \A o \in Names : LongIn(r, a, o) => o = n
      <4> SUFFICES ASSUME NEW o \in Names, LongIn(r, a, o) PROVE o = n
        OBVIOUS
      <4>1. PICK m \in Nat \ {0} : m = LfnCount[o]
        BY DirectoryAssumption
      <4>2. m < a /\ \A k \in 1 .. m : r[a - k] = Lfn(o, k, short)
        BY <1>6, <1>9, <4>1 DEF LongIn
      <4>3. \A k \in 1 .. m : a - k \in 1 .. Len(q) /\ a - k # a
        BY <1>5, <4>2
      <4>4. \A k \in 1 .. m : slots[at - k] = Lfn(o, k, short)
        BY <1>4, <1>9, <4>2, <4>3
      <4> QED
        BY <1>4, <3>2, <4>1, <4>2, <4>4 DEF LongNameBefore
    <3>4. r[a].short = CanonicalShort[n]
      BY <1>4, <1>6, <1>9, <2>1 DEF Writing
    <3> QED
      BY <3>3, <3>4 DEF ShowsIn
  <2>2. CASE count # 0
    <3>1. PICK m \in Nat \ {0} : m = count /\ m = LfnCount[n]
      BY <1>4, <1>5, <2>2, DirectoryAssumption
    <3>3. \A k \in 1 .. m : a - k \in 1 .. Len(q) /\ q[a - k] = Lfn(n, k, short)
      <4>1. DOMAIN slots = 1 .. Len(slots)
        BY <1>3
      <4>2. \A k \in 0 + 1 .. m : a + 0 - k \in DOMAIN slots /\ slots[a + 0 - k] = Lfn(n, k, short)
        BY <1>4, <3>1 DEF Writing
      <4>3. \A k \in 1 .. m : k \in 0 + 1 .. m /\ a + 0 - k = a - k
        BY <1>5, <3>1
      <4> QED
        BY <1>4, <4>1, <4>2, <4>3
    <3>4. m < a
      <4>1. m \in 1 .. m
        BY <3>1
      <4>2. a - m \in 1 .. Len(q)
        BY <3>3, <4>1
      <4> QED
        BY <1>5, <3>1, <4>2
    <3>5. \A k \in 1 .. m : a - k # a
      BY <1>5, <3>1
    <3>6. \A k \in 1 .. m : r[a - k] = Lfn(n, k, short)
      BY <1>9, <3>3, <3>5
    <3>7. LongIn(r, a, n)
      BY <1>6, <1>9, <3>1, <3>4, <3>6 DEF LongIn
    <3> QED
      BY <3>7 DEF ShowsIn
  <2> QED
    BY <2>1, <2>2
<1>11. \A i \in EntriesOf(q) : ~ ShowsIn(q, i, n)
  <2>1. \A i \in Entries : ~ Shows(i, call.name)
    BY <1>1, <1>3 DEF CallNamed, Unnamed
  <2> QED
    BY <1>4, <2>1, OfNames, OfSlots
<1>12. EntriesOf(r) = EntriesOf(q) \cup {a}
  BY <1>1, <1>4, OfSlots
<1>13. /\ NamedWell(r)
       /\ \A i \in EntriesOf(q), m \in Names : ShowsIn(r, i, m) <=> ShowsIn(q, i, m)
       /\ Listed(r) = Listed(q) \cup {[name |-> n, ref |-> r[a].cluster]}
  <2>1. NamedWell(q) /\ r \in Seq(Slot) /\ n \in Names /\ Keeps(q, r)
    BY <1>5, <1>8
  <2> QED
    BY <1>10, <1>11, <1>12, <2>1, NamesWhenAdded
<1>14. EntriesNamed'
  BY <1>3, <1>4, <1>13, OfEntriesNamedNext
<1>15. \A e \in Listed(q) : e.name # n
  BY <1>5, <1>11, InListing
<1>16. MapStep
  <2>1. Listed(slots') = Listed(slots) \cup {[name |-> call.name, ref |-> call.ref]}
    BY <1>4, <1>6, <1>9, <1>13
  <2>2. call' \in {call, NoCall}
    BY <1>1 DEF Return
  <2>3. {e \in Listed(slots) : e.name = call.name} = {}
    BY <1>4, <1>15
  <2> QED
    BY <1>3, <2>1, <2>2, <2>3, OfListing
      DEF MapStep, Map!MapNext, Map!mapVars, Map!Publish, Map!Named
<1>17. CallNamed'
  <2>1. ~ Unnamed'
    BY <1>1 DEF Unnamed
  <2>2. CASE Return
    <3>1. call'.kind = "none" /\ phase' = "idle"
      BY <2>2 DEF Return, NoCall
    <3> QED
      BY <2>1, <3>1 DEF CallNamed, HoldsSource
  <2>3. CASE call' = call /\ call.kind # "rename"
    <3>1. phase' # "delete"
      BY <1>1, <1>2, <1>3, <2>3 DEF DirInv, LocalsOK
    <3> QED
      BY <2>1, <2>3, <3>1 DEF CallNamed, HoldsSource
  <2>4. CASE call' = call /\ call.kind = "rename"
    <3>1. PICK m, l : m = call.source /\ l = call.last
      OBVIOUS
    <3>2. m \in Names /\ l \in Entries /\ Shows(l, m)
      <4>1. call.source \in Names /\ call.last \in Entries /\ Shows(call.last, call.source)
        BY <1>2, <1>3, <2>4 DEF CallNamed, HoldsSource
      <4> QED
        BY <3>1, <4>1 DEF Shows, HasLongName, LongNameBefore
    <3>3. Shows(l, m)' /\ l \in Entries' /\ l # a
      BY <1>1, <1>4, <1>13, <3>2, OfNames, OfSlots
    <3>4. (HoldsSource => /\ call.source \in Names /\ call.last \in Entries
                         /\ Shows(call.last, call.source))'
      BY <2>4, <3>1, <3>2, <3>3 DEF Shows, HasLongName, LongNameBefore
    <3>5. a \in Entries' /\ Shows(a, n)' /\ slots'[a].cluster = c
      BY <1>1, <1>4, <1>6, <1>9, <1>10, OfNames
    <3>6. (\E i \in Entries \ {call.last} : Shows(i, call.name) /\ slots[i].cluster = call.ref)'
      BY <1>4, <2>4, <3>1, <3>3, <3>5 DEF Shows, HasLongName, LongNameBefore
    <3> QED
      BY <2>1, <3>4, <3>6 DEF CallNamed
  <2> QED
    BY <1>1, <2>2, <2>3, <2>4
<1> QED
  BY <1>14, <1>16, <1>17 DEF NamesInv

(* The new end marker.                                                     *)
LEMMA WriteEndNames ==
  ASSUME DirInv, NamesInv, WriteSlot, Published PROVE NamesInv' /\ MapStep
<1>1. slots' = slots /\ phase = "write" /\ run = <<End>> /\ call # NoCall
  BY WriteEndStep, KindOfCall DEF WriteSlot, Published, DirInv, LocalsOK
<1>2. EntriesNamed /\ CallNamed
  BY DEF NamesInv
<1>3. Len(run) = 1
  BY <1>1
<1>4. CASE call.kind # "rename"
  BY <1>1, <1>2, <1>3, <1>4, ReturnNames DEF WriteSlot
<1>5. CASE call.kind = "rename"
  <2>1. phase' = "delete" /\ run' = <<>> /\ at' = call.last /\ call' = call
    BY <1>3, <1>5 DEF WriteSlot
  <2>2. ~ Unnamed'
    BY <2>1 DEF Unnamed, Unpublished
  <2>3. PICK n, m, l : n = call.name /\ m = call.source /\ l = call.last
    OBVIOUS
  <2>4. /\ m \in Names /\ l \in Entries /\ Shows(l, m)
        /\ \E i \in Entries \ {l} : Shows(i, n) /\ slots[i].cluster = call.ref
    <3>1. /\ call.source \in Names /\ call.last \in Entries /\ Shows(call.last, call.source)
          /\ \E i \in Entries \ {call.last} : Shows(i, call.name) /\ slots[i].cluster = call.ref
      BY <1>1, <1>2, <1>5 DEF CallNamed, HoldsSource
    <3> QED
      BY <2>3, <3>1 DEF Shows, HasLongName, LongNameBefore
  <2>5. /\ l \in Entries' /\ Shows(l, m)'
        /\ \E i \in Entries' \ {l} : Shows(i, n)' /\ slots'[i].cluster = call.ref
    BY <1>1, <2>4, NamesSame
  <2>6. /\ (HoldsSource => /\ call.source \in Names /\ call.last \in Entries
                            /\ Shows(call.last, call.source))'
        /\ (\E i \in Entries \ {call.last} : Shows(i, call.name) /\ slots[i].cluster = call.ref)'
    BY <2>1, <2>3, <2>4, <2>5 DEF Shows, HasLongName, LongNameBefore
  <2>7. CallNamed'
    BY <2>2, <2>6 DEF CallNamed
  <2> QED
    BY <1>1, <1>2, <2>1, <2>7, NamesSame, StepOfMap DEF NamesInv
<1> QED
  BY <1>4, <1>5

(* A slot of the removed or renamed entry: no other entry has its piece    *)
(* there, and with the short entry exactly its name goes.                  *)
LEMMA DeleteSlotNames ==
  ASSUME DirInv, NamesInv, DeleteSlot PROVE NamesInv' /\ MapStep
<1>1. /\ phase = "delete" /\ call \in CallRecords
      /\ call.start \in Nat /\ call.last \in Nat /\ at \in call.start .. call.last
      /\ 1 <= call.start /\ call.last < EndIndex
      /\ EndIndex \in 1 .. Len(slots) + 1 /\ Len(slots) \in Nat
      /\ slots' \in Seq(Slot) /\ Len(slots') = Len(slots)
      /\ Entries' = Entries \ {at}
      /\ \A i \in 1 .. Len(slots) : slots'[i] = IF i = at THEN Deleted ELSE slots[i]
  BY DeleteSlotFacts
<1>2. /\ slots \in Seq(Slot) /\ EntriesNamed /\ CallNamed /\ call # NoCall
      /\ call.kind \in {"remove", "rename"}
  BY <1>1, KindOfCall DEF DirInv, NamesInv, LocalsOK
<1>3. /\ \A i \in at + 1 .. call.last : slots[i] = Deleted
      /\ at = call.last => slots[call.last].tag = "short" /\ slots[call.last].cluster = call.ref
      /\ at < call.last => slots[at].tag = "lfn"
  BY <1>1 DEF DirInv, SourceInv
<1>4. PICK q, r, a, l : q = slots /\ r = slots' /\ a = at /\ l = call.last
  OBVIOUS
<1>5. /\ q \in Seq(Slot) /\ r \in Seq(Slot) /\ a \in Nat /\ l \in Nat /\ a <= l /\ 1 <= a
      /\ a \in 1 .. Len(q) /\ Len(q) \in Nat /\ Len(r) = Len(q)
      /\ EntriesOf(r) = EntriesOf(q) \ {a}
      /\ \A i \in 1 .. Len(q) : r[i] = IF i = a THEN Deleted ELSE q[i]
      /\ \A i \in a + 1 .. l : q[i].tag = "deleted"
      /\ NamedWell(q)
  BY <1>1, <1>2, <1>3, <1>4, OfSlots, OfEntriesNamed, SlotKinds DEF NamedWell
<1>6. a = l \/ (a < l /\ q[a].tag = "lfn")
  BY <1>3, <1>4, <1>5
<1>8. Keeps(q, r)
  <2> SUFFICES ASSUME NEW i \in EntriesOf(q), i # a
               PROVE  r[i] = q[i] /\ \A n \in Names : LongIn(r, i, n) <=> LongIn(q, i, n)
    BY <1>5 DEF Keeps
  <2>1. i \in 1 .. Len(q) /\ q[i].tag = "short"
    BY <1>5, EntriesIn
  <2>2. \A j \in 1 .. i : j # a => r[j] = q[j]
    BY <1>5, <2>1
  <2>3. ASSUME a < i
        PROVE  /\ \E k \in a .. i - 1 : q[k].tag # "lfn"
               /\ \E k \in a .. i - 1 : r[k].tag # "lfn"
    <3>1. a \in a .. i - 1 /\ r[a].tag # "lfn"
      BY <1>5, <2>1, <2>3, SlotKinds
    <3>2. CASE a = l
      <4>1. q[a].tag # "lfn"
        BY <1>3, <1>4, <3>2
      <4> QED
        BY <3>1, <4>1
    <3>3. CASE a < l
      <4>1. l \in a + 1 .. l
        BY <1>5, <3>3
      <4>2. i \notin a + 1 .. l
        BY <1>5, <2>1
      <4>3. l \in a .. i - 1
        BY <1>5, <2>1, <2>3, <3>3, <4>2
      <4>4. q[l].tag # "lfn"
        BY <1>5, <4>1
      <4> QED
        BY <3>1, <4>3, <4>4
    <3> QED
      BY <1>6, <3>2, <3>3
  <2>4. i \in 1 .. Len(r)
    BY <1>5, <2>1
  <2>5. Separate(q, r, i, a)
    BY <1>5, <2>1, <2>2, <2>3, <2>4 DEF Separate
  <2> QED
    BY <1>5, <2>5, NameKept
<1>9. /\ NamedWell(r)
      /\ \A i \in EntriesOf(r), n \in Names : ShowsIn(r, i, n) <=> ShowsIn(q, i, n)
      /\ Listed(r) = {[name |-> ShownIn(q, i), ref |-> q[i].cluster] : i \in EntriesOf(r)}
  BY <1>5, <1>8, NamesWhenTaken
<1>10. EntriesNamed'
  BY <1>1, <1>4, <1>9, OfEntriesNamedNext
<1>11. UNCHANGED call \/ call' = NoCall
  BY DEF DeleteSlot, Return
<1>12. ASSUME a < l PROVE MapStep
  <2>1. a \notin EntriesOf(q)
    BY <1>5, <1>6, <1>12, EntriesIn
  <2>2. Listed(r) = Listed(q)
    BY <1>5, <1>9, <2>1 DEF Listed
  <2>3. MapStep
    BY <1>2, <1>4, <1>11, <2>2, StepOfMap
  <2> QED
    BY <2>3
<1>13. ASSUME call.kind = "rename"
       PROVE  \E i \in EntriesOf(q) \ {l} : ShowsIn(q, i, call.name) /\ q[i].cluster = call.ref
  BY <1>1, <1>2, <1>4, <1>13, OfNames, OfSlots DEF CallNamed
<1>14. ASSUME a = l PROVE MapStep
  <2>1. PICK n, c : n = call.source /\ c = call.ref
    OBVIOUS
  <2>2. n \in Names /\ l \in EntriesOf(q) /\ ShowsIn(q, l, n) /\ q[l].cluster = c
    BY <1>1, <1>2, <1>3, <1>4, <1>14, <2>1, OfNames, OfSlots DEF CallNamed, HoldsSource
  <2>3. ASSUME NEW i \in EntriesOf(q) PROVE ShownIn(q, i) = n <=> i = l
    <3>1. PICK m \in Names : ShowsIn(q, i, m)
      BY <1>5 DEF NamedWell
    <3>2. ShownIn(q, i) = m
      BY <1>5, <3>1, InListing
    <3>3. ShownIn(q, l) = n
      BY <1>5, <2>2, InListing
    <3> QED
      BY <1>5, <2>2, <3>1, <3>2, <3>3 DEF NamedWell
  <2>4. \A i \in EntriesOf(q) :
          [name |-> ShownIn(q, i), ref |-> q[i].cluster] = [name |-> n, ref |-> c] <=> i = l
    <3> TAKE i \in EntriesOf(q)
    <3>1. PICK s, d : s = ShownIn(q, i) /\ d = q[i].cluster
      OBVIOUS
    <3>2. [name |-> s, ref |-> d] = [name |-> n, ref |-> c] <=> s = n /\ d = c
      OBVIOUS
    <3> QED
      BY <2>2, <2>3, <3>1, <3>2
  <2>5. Listed(r) = Listed(q) \ {[name |-> n, ref |-> c]}
    BY <1>5, <1>9, <1>14, <2>4 DEF Listed
  <2>6. call.kind = "rename" => [name |-> call.name, ref |-> call.ref] \in Listed(q)
    <3>1. call.kind = "rename" => call.name \in Names
      BY DEF DirInv, LocalsOK
    <3> QED
      BY <1>5, <1>13, <3>1, InListing
  <2>7. MapStep
    <3>1. Listed(slots') = Listed(slots) \ {[name |-> call.source, ref |-> call.ref]}
      BY <1>4, <2>1, <2>5
    <3>2. call' \in {call, NoCall}
      BY <1>11
    <3>3. call.kind = "rename" => [name |-> call.name, ref |-> call.ref] \in Listed(slots)
      BY <1>4, <2>6
    <3> QED
      BY <1>2, <3>1, <3>2, <3>3, OfListing DEF MapStep, Map!MapNext, Map!mapVars, Map!Delete
  <2> QED
    BY <2>7
<1>15. CallNamed'
  <2>1. CASE call' = NoCall /\ phase' = "idle"
    <3>1. call'.kind = "none"
      BY <2>1 DEF NoCall
    <3> QED
      BY <2>1, <3>1 DEF CallNamed, HoldsSource, Unnamed, Unpublished
  <2>2. CASE call' = call /\ phase' = "free" /\ call.kind = "remove"
    BY <2>2 DEF CallNamed, HoldsSource, Unnamed, Unpublished
  <2>3. CASE call' = call /\ phase' = "delete" /\ at' = at - 1
    <3>1. ~ Unnamed' /\ ~ HoldsSource'
      BY <1>1, <2>3 DEF HoldsSource, Unnamed, Unpublished
    <3>2. ASSUME call.kind = "rename"
          PROVE  (\E i \in Entries \ {call.last} : Shows(i, call.name) /\ slots[i].cluster = call.ref)'
      <4>1. PICK i \in EntriesOf(q) \ {l} : ShowsIn(q, i, call.name) /\ q[i].cluster = call.ref
        BY <1>13, <3>2
      <4>2. PICK n : n = call.name
        OBVIOUS
      <4>3. n \in Names
        BY <3>2, <4>2 DEF DirInv, LocalsOK
      <4>4. i # a
        BY <1>5, <1>6, <4>1, EntriesIn
      <4>5. i \in EntriesOf(r) /\ ShowsIn(r, i, n) /\ r[i].cluster = q[i].cluster
        BY <1>5, <1>8, <1>9, <4>1, <4>2, <4>3, <4>4 DEF Keeps
      <4>6. i \in Entries' /\ Shows(i, n)' /\ slots'[i].cluster = call'.ref
        BY <1>4, <2>3, <4>1, <4>5, OfNames, OfSlots
      <4> QED
        BY <1>4, <2>3, <4>1, <4>2, <4>6 DEF Shows, HasLongName, LongNameBefore
    <3> QED
      BY <2>3, <3>1, <3>2 DEF CallNamed
  <2> QED
    BY <1>1, <2>1, <2>2, <2>3 DEF DeleteSlot, Return
<1> QED
  BY <1>6, <1>10, <1>12, <1>14, <1>15 DEF NamesInv

-----------------------------------------------------------------------------
(* NamesInv holds at the start and is kept by every step, and every step   *)
(* is one of the map.                                                      *)
LEMMA NamesInitially ==
  ASSUME DirInit PROVE NamesInv /\ Map!MapInit
<1>1. DirInv
  BY DirInitInv
<1>2. Entries = {} /\ \A i \in DOMAIN slots : slots[i].tag # "lfn"
  <2>1. \A i \in DOMAIN slots : slots[i].tag = "end"
    BY SlotKinds DEF DirInit
  <2>2. \A i \in Entries : i \in DOMAIN slots /\ slots[i].tag = "short"
    BY <1>1, EntriesFacts DEF DirInv
  <2> QED
    BY <2>1, <2>2
<1>3. phase = "idle" /\ call = NoCall /\ call.kind = "none"
  BY DEF DirInit, NoCall
<1>4. EntriesNamed /\ CallNamed
  BY <1>2, <1>3 DEF EntriesNamed, ListedOnce, CallNamed, HoldsSource, Unnamed, Unpublished
<1> QED
  BY <1>2, <1>3, <1>4 DEF NamesInv, Map!MapInit

(* The writes of a run: the map changes with the short entry alone.        *)
LEMMA WriteSlotNames ==
  ASSUME NoAdoption, DirInv, NamesInv, WriteSlot PROVE NamesInv' /\ MapStep
<1>1. CASE Published
  BY <1>1, WriteEndNames
<1>2. CASE ~ Published
  <2>1. phase = "write" /\ call.name \in Names
    BY WriteSlotFacts
  <2>2. PICK short \in ShortNames, count \in {0, LfnCount[call.name]} :
           \E left \in 0 .. count : Writing(short, count, left)
    BY <1>2, <2>1 DEF DirInv, WriteInv
  <2>3. PICK left \in 0 .. count : Writing(short, count, left)
    BY <2>2
  <2>4. count \in Nat
    BY <2>1, DirectoryAssumption
  <2>5. CASE left = 0
    <3>1. Writing(short, count, 0)
      BY <2>3, <2>5
    <3> QED
      BY <1>2, <3>1, WriteEntryNames
  <2>6. CASE left # 0
    <3>1. left \in 1 .. count
      BY <2>4, <2>6
    <3> QED
      BY <1>2, <2>3, <3>1, WritePieceNames
  <2> QED
    BY <2>5, <2>6
<1> QED
  BY <1>1, <1>2

(* Errors and power cuts leave the map alone.                              *)
LEMMA InterruptedNames ==
  ASSUME DirInv, NamesInv, NoSpace \/ DeviceError \/ PowerCut \/ UndoDirectory \/ FreeChain
  PROVE  NamesInv' /\ MapStep
<1>1. slots' = slots /\ EntriesNamed /\ call # NoCall
  BY KindOfCall DEF NoSpace, DeviceError, PowerCut, UndoDirectory, FreeChain, DirInv, LocalsOK,
    NamesInv, CallRecords
<1>2. CASE ReturnError
  BY <1>1, <1>2, ReturnErrorNames
<1>3. CASE Return
  BY <1>1, <1>3, ReturnNames
<1> QED
  BY <1>2, <1>3 DEF NoSpace, DeviceError, PowerCut, UndoDirectory, FreeChain

(* Every step keeps NamesInv and is one of the map or changes nothing of   *)
(* it.                                                                     *)
LEMMA NamesStep ==
  ASSUME NoAdoption, DirInv, NamesInv, [DirNext]_dirVars PROVE NamesInv' /\ MapStep
<1>1. CASE UNCHANGED dirVars
  <2>1. slots' = slots /\ call' = call /\ phase' = phase /\ run' = run /\ at' = at
    BY <1>1 DEF dirVars
  <2>2. NamesInv'
    BY <2>1, SlotsUnchanged DEF NamesInv, EntriesNamed, ListedOnce, CallNamed, HoldsSource, Unnamed,
      Unpublished, Published, Shows, HasLongName, LongNameBefore
  <2> QED
    BY <2>1, <2>2, StepOfMap
<1>2. CASE DirCall
  BY <1>2, CreateFileNames, CreateDirectoryNames, RemoveNames, RenameNames DEF DirCall
<1>3. CASE DirStep
  BY <1>3, AllocateClusterNames, DotsAndNameNames, GrowDirectoryNames, WriteSlotNames,
    DeleteSlotNames, InterruptedNames DEF DirStep
<1> QED
  BY <1>1, <1>2, <1>3, InterruptedNames DEF DirNext

(* Whatever interrupts the calls, as long as no entry adopts the pieces of *)
(* another: each entry has one name of its own, and a renamed one is there *)
(* under its new name before the old one goes.                             *)
THEOREM NamesInvariant == DirSpec /\ []NoAdoption => []NamesInv
<1>1. DirInit => NamesInv
  BY NamesInitially
<1>2. NoAdoption /\ DirInv /\ NamesInv /\ [DirNext]_dirVars => NamesInv'
  BY NamesStep
<1> QED
  BY <1>1, <1>2, DirectoryInvariant, PTL DEF DirSpec

(* A listing changes by whole entries, and only by those a call is about,  *)
(* as long as no entry adopts the pieces of another: the slots, written    *)
(* and deleted one by one, implement DirectoryMap.                         *)
THEOREM MapIsRefined == DirSpec /\ []NoAdoption => MapRefined
<1>1. DirInit => Map!MapInit
  BY NamesInitially
<1>2. NoAdoption /\ DirInv /\ NamesInv /\ [DirNext]_dirVars => [Map!MapNext]_(Map!mapVars)
  BY NamesStep DEF MapStep
<1> QED
  BY <1>1, <1>2, NamesInvariant, DirectoryInvariant, PTL DEF DirSpec, MapRefined, Map!MapSpec

(* Two entries are never listed under one name, as long as no entry adopts *)
(* the pieces of another.                                                  *)
THEOREM NamesAreListedOnce == DirSpec /\ []NoAdoption => []ListedOnce
<1>1. NamesInv => ListedOnce
  BY DEF NamesInv, EntriesNamed
<1> QED
  BY <1>1, NamesInvariant, PTL

-----------------------------------------------------------------------------
(* The pieces of long names in a directory with the slots q, and what they *)
(* belong to.                                                              *)
BelongsIn(q, i) ==
  \E j \in EntriesOf(q), n \in Names : LongIn(q, j, n) /\ i < j /\ j - LfnCount[n] <= i
OwnedIn(q, places) ==
  \A i \in 1 .. EndOf(q) - 1 : q[i].tag = "lfn" => BelongsIn(q, i) \/ i \in places
InUseIn(q) == {i \in EntriesOf(q) : q[i].cluster # NoCluster}

(* The definitions of Directory in terms of its slots.                     *)
LEMMA OfPieces ==
  /\ \A i : (Belongs(i) <=> BelongsIn(slots, i)) /\ (Belongs(i)' <=> BelongsIn(slots', i))
  /\ \A P : (Owned(P) <=> OwnedIn(slots, P)) /\ (Owned(P)' <=> OwnedIn(slots', P))
  /\ InUseByEntries = InUseIn(slots) /\ InUseByEntries' = InUseIn(slots')
<1>1. \A i : Belongs(i) <=> BelongsIn(slots, i)
  BY OfSlots, OfNames DEF Belongs, BelongsIn
<1>2. \A i : Belongs(i)' <=> BelongsIn(slots', i)
  BY OfSlots, OfNames DEF Belongs, BelongsIn
<1>3. \A P : Owned(P) <=> OwnedIn(slots, P)
  BY <1>1, OfSlots DEF Owned, OwnedIn
<1>4. \A P : Owned(P)' <=> OwnedIn(slots', P)
  BY <1>2, OfSlots DEF Owned, OwnedIn
<1>5. InUseByEntries = InUseIn(slots) /\ InUseByEntries' = InUseIn(slots')
  BY OfSlots DEF InUseByEntries, InUseIn
<1> QED
  BY <1>1, <1>2, <1>3, <1>4, <1>5

(* A slot is written: the pieces that were there stay where they belong.   *)
LEMMA OwnedWhenWritten ==
  ASSUME NEW q \in Seq(Slot), Behind(q), NEW a \in 1 .. Len(q), a <= EndOf(q),
         a < EndOf(q) => q[a] = Deleted, NEW x \in Slot, x # End,
         NEW r \in Seq(Slot), Len(r) = Len(q),
         \A i \in 1 .. Len(q) : r[i] = IF i = a THEN x ELSE q[i],
         NEW P, NEW R, OwnedIn(q, P), P \subseteq R, x.tag = "lfn" => a \in R
  PROVE  OwnedIn(r, R)
<1>1. Len(r) = Len(q) /\ \A i \in 1 .. Len(q) : r[i] = IF i = a THEN x ELSE q[i]
  OBVIOUS
<1>2. /\ EndOf(r) = IF a = EndOf(q) THEN a + 1 ELSE EndOf(q)
      /\ EntriesOf(q) \subseteq EntriesOf(r)
  <2>1. /\ Behind(r)
        /\ EndOf(r) = IF a = EndOf(q) THEN a + 1 ELSE EndOf(q)
        /\ EntriesOf(r) = IF x.tag = "short" THEN EntriesOf(q) \cup {a} ELSE EntriesOf(q)
        /\ a \notin EntriesOf(q)
    BY <1>1, SlotWritten
  <2> QED
    BY <2>1
<1>3. q[a].tag # "lfn" /\ q[a].tag # "short"
  <2>1. CASE a < EndOf(q)
    BY <2>1, SlotKinds
  <2>2. CASE a = EndOf(q)
    BY <2>2, EndOfFacts, SlotKinds
  <2> QED
    BY <2>1, <2>2, EndOfFacts
<1>4. ASSUME NEW j \in EntriesOf(q), NEW n \in Names, LongIn(q, j, n) PROVE LongIn(r, j, n)
  <2>1. j \in 1 .. Len(q) /\ q[j].tag = "short"
    BY EntriesIn
  <2>2. r[j] = q[j]
    BY <1>1, <1>3, <2>1
  <2>3. ASSUME NEW i \in 1 .. j - 1, \A k \in i .. j - 1 : q[k].tag = "lfn" PROVE r[i] = q[i]
    <3>1. i \in i .. j - 1 /\ i \in 1 .. Len(q)
      BY <2>1
    <3> QED
      BY <1>1, <1>3, <2>3, <3>1
  <2> QED
    BY <1>4, <2>1, <2>2, <2>3, LongKept
<1> SUFFICES ASSUME NEW i \in 1 .. EndOf(r) - 1, r[i].tag = "lfn" PROVE BelongsIn(r, i) \/ i \in R
  BY DEF OwnedIn
<1>5. CASE i = a
  BY <1>1, <1>5
<1>6. CASE i # a
  <2>1. i \in 1 .. EndOf(q) - 1 /\ i \in 1 .. Len(q)
    BY <1>2, <1>6, EndOfFacts
  <2>2. BelongsIn(q, i) \/ i \in P
    BY <1>1, <1>6, <2>1 DEF OwnedIn
  <2> QED
    BY <1>2, <1>4, <2>2 DEF BelongsIn
<1> QED
  BY <1>5, <1>6

(* The short entry behind the pieces of its long name.                     *)
LEMMA OwnedWhenNamed ==
  ASSUME NEW r \in Seq(Slot), NEW a \in EntriesOf(r), NEW n \in Names, LongIn(r, a, n),
         OwnedIn(r, a - LfnCount[n] .. a - 1)
  PROVE  OwnedIn(r, {})
<1>1. LfnCount[n] \in Nat /\ a \in Nat
  BY DirectoryAssumption, EntriesIn
<1>2. ASSUME NEW i \in a - LfnCount[n] .. a - 1 PROVE BelongsIn(r, i)
  BY <1>1 DEF BelongsIn
<1> QED
  BY <1>2 DEF OwnedIn

(* A cluster of end markers is appended.                                   *)
LEMMA OwnedWhenGrown ==
  ASSUME NEW q \in Seq(Slot), NEW r \in Seq(Slot), EndOf(r) = EndOf(q), EntriesOf(r) = EntriesOf(q),
         \A i \in 1 .. Len(q) : r[i] = q[i], NEW P, OwnedIn(q, P)
  PROVE  OwnedIn(r, P)
<1>1. ASSUME NEW j \in EntriesOf(q), NEW n \in Names, LongIn(q, j, n) PROVE LongIn(r, j, n)
  <2>1. j \in 1 .. Len(q) /\ \A i \in 1 .. j - 1 : i \in 1 .. Len(q)
    BY EntriesIn
  <2> QED
    BY <1>1, <2>1, LongKept
<1> SUFFICES ASSUME NEW i \in 1 .. EndOf(q) - 1, q[i].tag = "lfn" PROVE BelongsIn(r, i) \/ i \in P
  BY EndOfFacts DEF OwnedIn
<1>2. BelongsIn(q, i) \/ i \in P
  BY DEF OwnedIn
<1> QED
  BY <1>1, <1>2 DEF BelongsIn

(* A slot of an entry is deleted, the short entry first: the pieces that   *)
(* are left of it are the rest of its slots.                               *)
LEMMA OwnedWhenDeleted ==
  ASSUME NEW q \in Seq(Slot), Behind(q), NEW first \in Nat \ {0}, NEW last \in Nat,
         last < EndOf(q), NEW a \in first .. last,
         NEW r \in Seq(Slot), Len(r) = Len(q),
         \A i \in 1 .. Len(q) : r[i] = IF i = a THEN Deleted ELSE q[i],
         a < last => q[a].tag = "lfn", \A i \in a + 1 .. last : q[i] = Deleted,
         a = last => /\ q[last].tag = "short"
                     /\ \A n \in Names : LongIn(q, last, n) => first <= last - LfnCount[n],
         OwnedIn(q, IF a < last THEN first .. a ELSE {})
  PROVE  OwnedIn(r, first .. a - 1)
<1>1. /\ EndOf(q) \in 1 .. Len(q) + 1 /\ Len(q) \in Nat /\ a \in 1 .. EndOf(q) - 1
      /\ a \in 1 .. Len(q) /\ a \in Nat
  BY EndOfFacts
<1>2. EndOf(r) = EndOf(q) /\ EntriesOf(r) = EntriesOf(q) \ {a}
  BY <1>1, SlotDeleted
<1>3. ASSUME NEW j \in EntriesOf(r), NEW n \in Names, LongIn(q, j, n) PROVE LongIn(r, j, n)
  <2>1. j \in 1 .. Len(q) /\ q[j].tag = "short" /\ j # a
    BY <1>2, EntriesIn
  <2>2. ASSUME NEW i \in 1 .. j - 1, \A k \in i .. j - 1 : q[k].tag = "lfn" PROVE r[i] = q[i]
    <3>1. i \in 1 .. Len(q) /\ i \in i .. j - 1
      BY <2>1
    <3>2. i # a
      <4> SUFFICES ASSUME i = a PROVE FALSE
        OBVIOUS
      <4>1. a < last
        BY <2>2, <3>1, SlotKinds
      <4>2. a + 1 \in a + 1 .. last /\ q[a + 1].tag = "deleted"
        BY <1>1, <4>1, SlotKinds
      <4>3. a + 1 = j \/ a + 1 \in i .. j - 1
        BY <1>1, <2>1
      <4> QED
        BY <2>1, <2>2, <4>2, <4>3
    <3> QED
      BY <3>1, <3>2
  <2> QED
    BY <1>3, <2>1, <2>2, LongKept
<1> SUFFICES ASSUME NEW i \in 1 .. EndOf(r) - 1, r[i].tag = "lfn"
             PROVE  BelongsIn(r, i) \/ i \in first .. a - 1
  BY DEF OwnedIn
<1>4. i \in 1 .. EndOf(q) - 1 /\ i \in 1 .. Len(q) /\ i # a /\ q[i].tag = "lfn"
  BY <1>1, <1>2, SlotKinds
<1>5. BelongsIn(q, i) \/ (a < last /\ i \in first .. a)
  BY <1>4 DEF OwnedIn
<1>6. CASE a < last /\ i \in first .. a
  BY <1>1, <1>4, <1>6
<1>7. CASE BelongsIn(q, i)
  <2>1. PICK j \in EntriesOf(q), n \in Names : LongIn(q, j, n) /\ i < j /\ j - LfnCount[n] <= i
    BY <1>7 DEF BelongsIn
  <2>2. CASE j # a
    BY <1>2, <1>3, <2>1, <2>2 DEF BelongsIn
  <2>3. CASE j = a
    <3>1. a = last
      BY <2>3, EntriesIn
    <3>2. first <= last - LfnCount[n] /\ LfnCount[n] \in Nat
      BY <2>1, <2>3, <3>1, DirectoryAssumption
    <3> QED
      BY <1>1, <1>4, <2>1, <2>3, <3>1, <3>2
  <2> QED
    BY <2>2, <2>3
<1> QED
  BY <1>5, <1>6, <1>7
(* What WrittenPieces, OtherPieces and SourcePieces say, before and after  *)
(* a step.                                                                 *)
LEMMA OfPiecesInv ==
  /\ WrittenPieces <=>
       (phase = "write" /\ ~ Published =>
          \E short \in ShortNames, count \in {0, LfnCount[call.name]} :
            \E left \in 0 .. count :
              Writing(short, count, left) /\ OwnedIn(slots, at + left - count .. at - 1))
  /\ WrittenPieces' <=>
       (phase' = "write" /\ ~ Published' =>
          \E short \in ShortNames, count \in {0, LfnCount[call'.name]} :
            \E left \in 0 .. count :
              Writing(short, count, left)' /\ OwnedIn(slots', at' + left - count .. at' - 1))
  /\ OtherPieces <=>
       (~ (phase = "write" /\ ~ Published) =>
          OwnedIn(slots, IF phase = "delete" /\ SourceGone THEN call.start .. at ELSE {}))
  /\ OtherPieces' <=>
       (~ (phase' = "write" /\ ~ Published') =>
          OwnedIn(slots', IF phase' = "delete" /\ SourceGone' THEN call'.start .. at' ELSE {}))
  /\ SourcePieces <=>
       (HoldsSource => \A n \in Names :
          LongIn(slots, call.last, n) => call.start <= call.last - LfnCount[n])
  /\ SourcePieces' <=>
       (HoldsSource' => \A n \in Names :
          LongIn(slots', call'.last, n) => call'.start <= call'.last - LfnCount[n])
<1>1. WrittenPieces <=>
       (phase = "write" /\ ~ Published =>
          \E short \in ShortNames, count \in {0, LfnCount[call.name]} :
            \E left \in 0 .. count :
              Writing(short, count, left) /\ OwnedIn(slots, at + left - count .. at - 1))
  BY OfPieces, OfSlots DEF WrittenPieces, Owned, OwnedIn
<1>2. WrittenPieces' <=>
       (phase' = "write" /\ ~ Published' =>
          \E short \in ShortNames, count \in {0, LfnCount[call'.name]} :
            \E left \in 0 .. count :
              Writing(short, count, left)' /\ OwnedIn(slots', at' + left - count .. at' - 1))
  BY OfPieces, OfSlots DEF WrittenPieces, Owned, OwnedIn
<1>3. OtherPieces <=>
       (~ (phase = "write" /\ ~ Published) =>
          OwnedIn(slots, IF phase = "delete" /\ SourceGone THEN call.start .. at ELSE {}))
  BY OfPieces, OfSlots DEF OtherPieces, Owned, OwnedIn
<1>4. OtherPieces' <=>
       (~ (phase' = "write" /\ ~ Published') =>
          OwnedIn(slots', IF phase' = "delete" /\ SourceGone' THEN call'.start .. at' ELSE {}))
  BY OfPieces, OfSlots DEF OtherPieces, Owned, OwnedIn
<1>5. SourcePieces <=>
       (HoldsSource => \A n \in Names :
          LongIn(slots, call.last, n) => call.start <= call.last - LfnCount[n])
  BY DEF SourcePieces, HasLongName, LongNameBefore, LongIn
<1>6. SourcePieces' <=>
       (HoldsSource' => \A n \in Names :
          LongIn(slots', call'.last, n) => call'.start <= call'.last - LfnCount[n])
  BY DEF SourcePieces, HasLongName, LongNameBefore, LongIn
<1> QED
  BY <1>1, <1>2, <1>3, <1>4, <1>5, <1>6

-----------------------------------------------------------------------------
(* The clusters in use and the entries that have one are finitely many.    *)
LEMMA InUseFinite ==
  ASSUME NEW q \in Seq(Slot)
  PROVE  IsFiniteSet(InUseIn(q)) /\ Cardinality(InUseIn(q)) \in Nat
<1>1. InUseIn(q) \in SUBSET (1 .. Len(q)) /\ Len(q) \in Int /\ 1 \in Int
  BY EntriesIn DEF InUseIn
<1>2. IsFiniteSet(1 .. Len(q))
  BY <1>1, FS_Interval
<1>3. IsFiniteSet(InUseIn(q))
  BY <1>1, <1>2, FS_Subset
<1> QED
  BY <1>3, FS_CardinalityType

(* An entry more is a cluster more, if it has one.                         *)
LEMMA InUseAdded ==
  ASSUME NEW q \in Seq(Slot), NEW r, NEW a, a \notin EntriesOf(q),
         EntriesOf(r) = EntriesOf(q) \cup {a}, \A i \in EntriesOf(q) : r[i] = q[i]
  PROVE  Cardinality(InUseIn(r)) =
           Cardinality(InUseIn(q)) + (IF r[a].cluster # NoCluster THEN 1 ELSE 0)
<1>1. IsFiniteSet(InUseIn(q)) /\ Cardinality(InUseIn(q)) \in Nat /\ a \notin InUseIn(q)
  BY InUseFinite DEF InUseIn
<1>2. CASE r[a].cluster # NoCluster
  <2>1. InUseIn(r) = InUseIn(q) \cup {a}
    BY <1>2 DEF InUseIn
  <2>2. Cardinality(InUseIn(q) \cup {a}) = Cardinality(InUseIn(q)) + 1
    BY <1>1, FS_AddElement
  <2> QED
    BY <1>2, <2>1, <2>2
<1>3. CASE r[a].cluster = NoCluster
  <2>1. InUseIn(r) = InUseIn(q)
    BY <1>3 DEF InUseIn
  <2> QED
    BY <1>1, <1>3, <2>1
<1> QED
  BY <1>2, <1>3

(* The clusters in use depend on the entries alone.                        *)
LEMMA InUseSame ==
  ASSUME NEW q, NEW r, EntriesOf(r) = EntriesOf(q), \A i \in EntriesOf(q) : r[i] = q[i]
  PROVE  InUseIn(r) = InUseIn(q)
BY DEF InUseIn

(* A free cluster is taken: one more is in use.                            *)
LEMMA ClusterTaken ==
  ASSUME NEW f \in SUBSET Clusters, NEW c \in f
  PROVE  /\ Cardinality(Clusters \ f) \in Nat
         /\ Cardinality(Clusters \ (f \ {c})) = Cardinality(Clusters \ f) + 1
<1>1. IsFiniteSet(Clusters) /\ (Clusters \ f) \in SUBSET Clusters
  BY DirectoryAssumption
<1>2. IsFiniteSet(Clusters \ f)
  BY <1>1, FS_Subset
<1>3. Clusters \ (f \ {c}) = (Clusters \ f) \cup {c} /\ c \notin Clusters \ f
  OBVIOUS
<1>4. Cardinality((Clusters \ f) \cup {c}) = Cardinality(Clusters \ f) + 1
  BY <1>2, <1>3, FS_AddElement
<1> QED
  BY <1>2, <1>3, <1>4, FS_CardinalityType

(* The directory has one cluster more.                                     *)
LEMMA OneClusterMore ==
  ASSUME NEW x \in Int
  PROVE  /\ x \div SlotsPerCluster \in Int
         /\ (x + SlotsPerCluster) \div SlotsPerCluster = x \div SlotsPerCluster + 1
<1>1. PICK s \in Nat \ {0} : s = SlotsPerCluster
  BY DirectoryAssumption
<1>2. PICK d \in Int : d = x \div s /\ s * d <= x /\ x < s * d + s
  BY <1>1
<1>3. PICK e \in Int : e = (x + s) \div s /\ s * e <= x + s /\ x + s < s * e + s
  BY <1>1
<1>4. e = d + 1
  <2>1. CASE e <= d
    <3>1. s * e <= s * d
      BY <2>1
    <3> QED
      BY <1>2, <1>3, <3>1
  <2>2. CASE e >= d + 2
    <3>1. s * e >= s * d + 2 * s
      BY <2>2
    <3> QED
      BY <1>2, <1>3, <3>1
  <2> QED
    BY <2>1, <2>2
<1> QED
  BY <1>1, <1>2, <1>3, <1>4

-----------------------------------------------------------------------------
(* The steps.                                                              *)
NotFailed == DirInv /\ LostInv /\ ~ failed

(* What holds before a step, where no call has failed.                     *)
LEMMA BeforeStep ==
  ASSUME NotFailed
  PROVE  /\ DirInv /\ phase # "undo" /\ spoilt = {} /\ slots \in Seq(Slot) /\ Behind(slots)
         /\ WrittenPieces /\ OtherPieces /\ SourcePieces
         /\ call.kind = "remove" => call.ref \notin free
         /\ Cardinality(Clusters \ free) + Twice = Grown + Cardinality(InUseIn(slots)) + Pending
         /\ Cardinality(Clusters \ free) \in Nat /\ Cardinality(InUseIn(slots)) \in Nat
         /\ Grown \in Int /\ Len(slots) \in Nat /\ free \in SUBSET Clusters
<1>1. DirInv /\ phase # "undo" /\ PiecesInv /\ ClustersInv
  BY DEF NotFailed, LostInv
<1>2. slots \in Seq(Slot) /\ free \in SUBSET Clusters /\ Behind(slots)
  BY <1>1, OfSlots DEF DirInv, DirTypeOK
<1>3. Cardinality(Clusters \ free) \in Nat
  <2>1. IsFiniteSet(Clusters) /\ (Clusters \ free) \in SUBSET Clusters
    BY <1>2, DirectoryAssumption
  <2> QED
    BY <2>1, FS_Subset, FS_CardinalityType
<1>4. Cardinality(InUseIn(slots)) \in Nat
  BY <1>2, InUseFinite
<1>5. Len(slots) \in Nat /\ Grown \in Int
  <2>1. Len(slots) \in Nat
    BY <1>2
  <2>2. Len(slots) - InitialSlots \in Int
    BY <2>1, DirectoryAssumption
  <2> QED
    BY <2>1, <2>2, OneClusterMore DEF Grown
<1> QED
  BY <1>1, <1>2, <1>3, <1>4, <1>5, OfPieces DEF PiecesInv, ClustersInv

(* What is to be shown of a step.                                          *)
LEMMA AfterStep ==
  ASSUME phase' # "undo", spoilt' = {}, WrittenPieces', OtherPieces', SourcePieces',
         call'.kind = "remove" => call'.ref \notin free',
         Cardinality(Clusters \ free') + Twice' =
           Grown' + Cardinality(InUseIn(slots')) + Pending'
  PROVE  LostInv'
BY OfPieces DEF LostInv, PiecesInv, ClustersInv

(* Between calls every piece has its entry.                                *)
LEMMA OwnedBetween ==
  ASSUME NotFailed, phase \in {"idle", "alloc", "dots", "name"}
  PROVE  OwnedIn(slots, {})
BY BeforeStep, OfPiecesInv

(* An entry is started.                                                    *)
LEMMA PiecesStarted ==
  ASSUME slots \in Seq(Slot), OwnedIn(slots, {}), NEW n \in Names, FreeAliases(n) # {},
         NEW c \in Clusters \cup {NoCluster}, call'.name = n, call'.ref = c,
         slots' = slots, phase' = "write", run' = NewSlots(n, c), at' = Place(n).start
  PROVE  ~ Published' /\ WrittenPieces' /\ OtherPieces'
<1>1. /\ run' # <<End>> /\ at' \in 1 .. EndIndex
      /\ \E short \in ShortNames, count \in {0, LfnCount[n]} :
           \E left \in 0 .. count : left = count /\ Writing(short, count, left)'
  BY EntryStarted
<1>2. ~ Published'
  BY <1>1 DEF Published
<1>3. PICK short \in ShortNames, count \in {0, LfnCount[n]} :
        \E left \in 0 .. count : left = count /\ Writing(short, count, left)'
  BY <1>1
<1>4. PICK left \in 0 .. count : left = count /\ Writing(short, count, left)'
  BY <1>3
<1>5. OwnedIn(slots', at' + left - count .. at' - 1)
  <2>1. PICK a \in Nat : a = at'
    BY <1>1
  <2>2. count \in Nat
    BY DirectoryAssumption
  <2>3. a + left - count .. a - 1 = {}
    BY <1>4, <2>1, <2>2
  <2> QED
    BY <2>1, <2>3
<1>6. WrittenPieces'
  BY <1>3, <1>4, <1>5, OfPiecesInv
<1>7. OtherPieces'
  BY <1>2, OfPiecesInv
<1> QED
  BY <1>2, <1>6, <1>7

(* Calls that begin, and the steps that touch no slot, keep LostInv.       *)
LEMMA CreateFileKeeps ==
  ASSUME NotFailed, NEW n \in Names, CreateFile(n) PROVE LostInv'
<1>1. /\ phase = "idle" /\ FreeAliases(n) # {} /\ UNCHANGED <<slots, free, spoilt>>
      /\ phase' = "write" /\ run' = NewSlots(n, NoCluster) /\ at' = Place(n).start
      /\ call' = [NoCall EXCEPT !.kind = "create", !.name = n]
  BY DEF CreateFile, CreateNamedEntry
<1>2. /\ call'.kind = "create" /\ call'.name = n /\ call'.ref = NoCluster
      /\ call = NoCall /\ call.ref = NoCluster
  BY <1>1, BeforeStep DEF NoCall, DirInv, LocalsOK
<1>3. OwnedIn(slots, {}) /\ slots \in Seq(Slot) /\ NoCluster \in Clusters \cup {NoCluster}
  BY <1>1, OwnedBetween, BeforeStep
<1>4. ~ Published' /\ WrittenPieces' /\ OtherPieces'
  BY <1>1, <1>2, <1>3, PiecesStarted
<1>5. SourcePieces'
  BY <1>1, <1>2 DEF SourcePieces, HoldsSource
<1>6. Twice = 0 /\ Pending = 0 /\ Twice' = 0 /\ Pending' = 0 /\ Grown' = Grown
  BY <1>1, <1>2 DEF Twice, Pending, Grown
<1> QED
  BY <1>1, <1>2, <1>4, <1>5, <1>6, BeforeStep, AfterStep

LEMMA CreateDirectoryKeeps ==
  ASSUME NotFailed, NEW n \in Names, CreateDirectory(n) PROVE LostInv'
<1>1. /\ phase = "idle" /\ UNCHANGED <<slots, free, spoilt>> /\ phase' = "alloc"
      /\ call' = [NoCall EXCEPT !.kind = "mkdir", !.name = n]
  BY DEF CreateDirectory
<1>2. /\ call'.kind = "mkdir" /\ call'.ref = NoCluster /\ call = NoCall /\ call.ref = NoCluster
  BY <1>1, BeforeStep DEF NoCall, DirInv, LocalsOK
<1>3. OwnedIn(slots, {})
  BY <1>1, OwnedBetween
<1>4. WrittenPieces' /\ OtherPieces' /\ SourcePieces'
  BY <1>1, <1>2, <1>3, OfPiecesInv DEF HoldsSource
<1>5. Twice = 0 /\ Pending = 0 /\ Twice' = 0 /\ Pending' = 0 /\ Grown' = Grown
  BY <1>1, <1>2 DEF Twice, Pending, Grown
<1> QED
  BY <1>1, <1>2, <1>4, <1>5, BeforeStep, AfterStep

(* The pieces of a found entry.                                            *)
LEMMA LfnStartIs ==
  ASSUME slots \in Seq(Slot), NEW i \in Entries, NEW n \in Names, LongIn(slots, i, n)
  PROVE  LfnStart(i) = i - LfnCount[n]
<1>1. i \in 1 .. Len(slots)
  BY EntriesFacts
<1>2. \A m \in Names : LongIn(slots, i, m) => m = n
  BY <1>1, LongNameFacts
<1>3. {m \in Names : HasLongName(i, m)} = {n}
  BY <1>2, OfNames
<1> QED
  BY <1>3 DEF LfnStart

LEMMA RemoveKeeps ==
  ASSUME NotFailed, NEW n \in Names, Remove(n) PROVE LostInv'
<1>1. /\ phase = "idle" /\ UNCHANGED <<slots, free, spoilt>> /\ phase' = "delete"
      /\ Found(n) # {} /\ call' = CallOn(n, "remove", NoName) /\ at' = FindEntry(n)
  BY DEF Remove
<1>2. PICK i : i = FindEntry(n)
  OBVIOUS
<1>3. slots \in Seq(Slot) /\ OwnedIn(slots, {}) /\ RemovalHidesFirst /\ spoilt = {}
  BY <1>1, OwnedBetween, BeforeStep DEF DirInv
<1>4. i \in Entries /\ i \in 1 .. EndIndex - 1
  BY <1>1, <1>2, <1>3, FoundFacts
<1>5. /\ call'.kind = "remove" /\ call'.ref = slots[i].cluster
      /\ call'.start = LfnStart(i) /\ call'.last = i /\ at' = i
      /\ call = NoCall /\ call.ref = NoCluster
  BY <1>1, <1>2, BeforeStep DEF CallOn, NoCall, DirInv, LocalsOK
<1>6. call'.ref \notin free'
  BY <1>1, <1>3, <1>4, <1>5 DEF RemovalHidesFirst
<1>7. ~ SourceGone'
  BY <1>1, <1>4, <1>5 DEF SourceGone
<1>8. WrittenPieces' /\ OtherPieces'
  BY <1>1, <1>3, <1>7, OfPiecesInv
<1>9. SourcePieces'
  <2>1. ASSUME NEW m \in Names, LongIn(slots, i, m) PROVE LfnStart(i) <= i - LfnCount[m]
    <3>1. LfnStart(i) = i - LfnCount[m]
      BY <1>3, <1>4, <2>1, LfnStartIs
    <3>2. i \in Nat /\ LfnCount[m] \in Nat
      BY <1>4, DirectoryAssumption
    <3> QED
      BY <3>1, <3>2
  <2> QED
    BY <1>1, <1>5, <2>1, OfPiecesInv
<1>10. Twice = 0 /\ Pending = 0 /\ Twice' = 0 /\ Pending' = 0 /\ Grown' = Grown
  BY <1>1, <1>5, <1>7 DEF Twice, Pending, Grown
<1> QED
  BY <1>1, <1>6, <1>8, <1>9, <1>10, BeforeStep, AfterStep

LEMMA RenameKeeps ==
  ASSUME NotFailed, NEW n \in Names, NEW m \in Names, Rename(n, m) PROVE LostInv'
<1>1. PICK i : i = FindEntry(n)
  OBVIOUS
<1>2. /\ phase = "idle" /\ UNCHANGED <<slots, free, spoilt>> /\ phase' = "write"
      /\ Found(n) # {} /\ FreeAliases(m) # {} /\ call' = CallOn(n, "rename", m)
      /\ run' = NewSlots(m, slots[i].cluster) /\ at' = Place(m).start
  BY <1>1 DEF Rename, CreateNamedEntry
<1>3. slots \in Seq(Slot) /\ OwnedIn(slots, {})
  BY <1>2, OwnedBetween, BeforeStep
<1>4. /\ i \in Entries /\ i \in 1 .. EndIndex - 1
      /\ slots[i].cluster \in Clusters \cup {NoCluster}
  BY <1>1, <1>2, <1>3, FoundFacts, EntriesFacts
<1>5. /\ call'.kind = "rename" /\ call'.name = m /\ call'.ref = slots[i].cluster
      /\ call'.start = LfnStart(i) /\ call'.last = i
      /\ call = NoCall /\ call.ref = NoCluster
  BY <1>1, <1>2, BeforeStep DEF CallOn, NoCall, DirInv, LocalsOK
<1>6. ~ Published' /\ WrittenPieces' /\ OtherPieces'
  BY <1>2, <1>3, <1>4, <1>5, PiecesStarted
<1>7. SourcePieces'
  <2>1. ASSUME NEW o \in Names, LongIn(slots, i, o) PROVE LfnStart(i) <= i - LfnCount[o]
    <3>1. LfnStart(i) = i - LfnCount[o]
      BY <1>3, <1>4, <2>1, LfnStartIs
    <3>2. i \in Nat /\ LfnCount[o] \in Nat
      BY <1>4, DirectoryAssumption
    <3> QED
      BY <3>1, <3>2
  <2> QED
    BY <1>2, <1>5, <2>1, OfPiecesInv
<1>8. Twice = 0 /\ Pending = 0 /\ Twice' = 0 /\ Pending' = 0 /\ Grown' = Grown
  BY <1>2, <1>5, <1>6 DEF Twice, Pending, Grown
<1> QED
  BY <1>2, <1>5, <1>6, <1>7, <1>8, BeforeStep, AfterStep

LEMMA AllocateClusterKeeps ==
  ASSUME NotFailed, AllocateCluster PROVE LostInv'
<1>1. PICK c \in free : free' = free \ {c} /\ call' = [call EXCEPT !.ref = c]
  BY DEF AllocateCluster
<1>2. /\ phase = "alloc" /\ phase' = "dots" /\ UNCHANGED <<slots, spoilt>>
      /\ call.kind = "mkdir" /\ call \in CallRecords /\ c \in Clusters /\ c # NoCluster
  BY BeforeStep, DirectoryAssumption DEF AllocateCluster, DirInv, LocalsOK
<1>3. call'.kind = "mkdir" /\ call'.ref = c
  BY <1>1, <1>2 DEF CallRecords
<1>4. WrittenPieces' /\ OtherPieces' /\ SourcePieces'
  BY <1>2, <1>3, OwnedBetween, OfPiecesInv DEF HoldsSource
<1>5. Twice = 0 /\ Pending = 0 /\ Twice' = 0 /\ Pending' = 1 /\ Grown' = Grown
  BY <1>2, <1>3 DEF Twice, Pending, Grown, Unpublished
<1>6. Cardinality(Clusters \ free') = Cardinality(Clusters \ free) + 1
  BY <1>1, BeforeStep, ClusterTaken
<1> QED
  BY <1>2, <1>3, <1>4, <1>5, <1>6, BeforeStep, AfterStep

LEMMA WriteDotEntriesKeeps ==
  ASSUME NotFailed, WriteDotEntries PROVE LostInv'
<1>1. /\ phase = "dots" /\ phase' = "name" /\ UNCHANGED <<slots, free, call, spoilt>>
      /\ call.kind = "mkdir"
  BY BeforeStep DEF WriteDotEntries, DirInv, LocalsOK
<1>2. WrittenPieces' /\ OtherPieces' /\ SourcePieces'
  BY <1>1, OwnedBetween, OfPiecesInv DEF HoldsSource
<1>3. Twice = 0 /\ Twice' = 0 /\ Pending' = Pending /\ Grown' = Grown
  BY <1>1 DEF Twice, Pending, Grown, Unpublished
<1> QED
  BY <1>1, <1>2, <1>3, BeforeStep, AfterStep

LEMMA NameDirectoryKeeps ==
  ASSUME NotFailed, NameDirectory PROVE LostInv'
<1>1. CASE Fits(call.name)
  <2>1. /\ phase = "name" /\ phase' = "write" /\ UNCHANGED <<slots, free, call, spoilt>>
        /\ run' = NewSlots(call.name, call.ref) /\ at' = Place(call.name).start
        /\ call.kind = "mkdir" /\ call.ref \in Clusters
        /\ FreeAliases(call.name) # {} /\ call.name \in Names
    BY <1>1, BeforeStep DEF NameDirectory, CreateNamedEntry, DirInv, LocalsOK
  <2>2. PICK n \in Names, c \in Clusters \cup {NoCluster} : n = call.name /\ c = call.ref
    BY <2>1
  <2>3. slots \in Seq(Slot) /\ OwnedIn(slots, {})
    BY <2>1, OwnedBetween, BeforeStep
  <2>4. ~ Published' /\ WrittenPieces' /\ OtherPieces'
    BY <2>1, <2>2, <2>3, PiecesStarted
  <2>5. SourcePieces'
    BY <2>1 DEF SourcePieces, HoldsSource
  <2>6. Twice = 0 /\ Twice' = 0 /\ Pending' = Pending /\ Grown' = Grown
    BY <2>1, <2>4 DEF Twice, Pending, Grown, Unpublished, Published
  <2> QED
    BY <2>1, <2>4, <2>5, <2>6, BeforeStep, AfterStep
<1>2. CASE ~ Fits(call.name)
  BY <1>2 DEF NameDirectory, CreateNamedEntry, ReturnError, LostInv
<1> QED
  BY <1>1, <1>2

(* The cluster the directory grows by is taken into account (Grown).       *)
LEMMA GrowDirectoryKeeps ==
  ASSUME NotFailed, GrowDirectory PROVE LostInv'
<1>1. /\ phase = "write" /\ UNCHANGED <<phase, call, run, at, spoilt>>
      /\ call.kind # "remove"
  BY BeforeStep DEF GrowDirectory, DirInv, LocalsOK
<1>2. PICK c \in free : free' = free \ {c}
  BY DEF GrowDirectory
<1>3. /\ DirInv' /\ Len(slots') = Len(slots) + SlotsPerCluster
      /\ EndIndex = Len(slots) + 1 /\ EndIndex' = EndIndex /\ Entries' = Entries
      /\ \A i \in 1 .. Len(slots) : slots'[i] = slots[i]
      /\ \A short, count, left : Writing(short, count, left) => Writing(short, count, left)'
  BY BeforeStep, GrowDirectoryStep
<1>4. PICK q \in Seq(Slot), r \in Seq(Slot) : q = slots /\ r = slots'
  BY <1>3, BeforeStep DEF DirInv
<1>5. /\ EndOf(r) = EndOf(q) /\ EntriesOf(r) = EntriesOf(q)
      /\ \A i \in 1 .. Len(q) : r[i] = q[i]
      /\ \A i \in EntriesOf(q) : i \in 1 .. Len(q)
  BY <1>3, <1>4, OfSlots, EntriesIn
<1>6. \A P : OwnedIn(q, P) => OwnedIn(r, P)
  BY <1>5, OwnedWhenGrown
<1>7. Published' <=> Published
  BY <1>1 DEF Published
<1>8. WrittenPieces'
  BY <1>1, <1>3, <1>4, <1>6, <1>7, BeforeStep, OfPiecesInv
<1>9. OtherPieces'
  BY <1>1, <1>4, <1>6, <1>7, BeforeStep, OfPiecesInv
<1>10. SourcePieces'
  <2> SUFFICES ASSUME HoldsSource', NEW n \in Names, LongIn(slots', call'.last, n)
               PROVE  call'.start <= call'.last - LfnCount[n]
    BY OfPiecesInv
  <2>1. call.kind = "rename" /\ HoldsSource /\ call' = call
    BY <1>1 DEF HoldsSource
  <2>2. call.last \in 1 .. Len(slots)
    BY <1>1, <1>3, <2>1, BeforeStep DEF DirInv, SourceInv, LocalsOK, CallRecords
  <2>3. PICK l \in 1 .. Len(q) : l = call.last
    BY <1>4, <2>2
  <2>4. /\ l \in 1 .. Len(r) /\ q[l] = r[l] /\ LongIn(r, l, n)
        /\ \A i \in 1 .. l - 1 : q[i] = r[i]
    BY <1>3, <1>4, <1>5, <2>1, <2>3, DirectoryAssumption
  <2>5. LongIn(q, l, n)
    BY <2>4, LongKept
  <2> QED
    BY <1>4, <2>1, <2>3, <2>5, BeforeStep, OfPiecesInv
<1>11. Twice' = Twice /\ Pending' = Pending
  BY <1>1, <1>7 DEF Twice, Pending, Unpublished, Published, SourceGone
<1>12. Cardinality(Clusters \ free') = Cardinality(Clusters \ free) + 1
  BY <1>2, BeforeStep, ClusterTaken
<1>13. Grown' = Grown + 1
  <2>0. Len(slots) \in Nat /\ InitialSlots \in Nat /\ SlotsPerCluster \in Nat
    BY <1>4, DirectoryAssumption
  <2>1. PICK x : x = Len(slots) - InitialSlots
    OBVIOUS
  <2>3. x \in Int
    BY <2>0, <2>1
  <2>2. Len(slots') - InitialSlots = x + SlotsPerCluster
    BY <1>3, <2>0, <2>1
  <2> QED
    BY <2>1, <2>2, <2>3, OneClusterMore DEF Grown
<1>14. InUseIn(slots') = InUseIn(slots)
  BY <1>4, <1>5, InUseSame
<1>15. Cardinality(Clusters \ free') + Twice' = Grown' + Cardinality(InUseIn(slots')) + Pending'
  <2>1. Twice \in Nat /\ Pending \in Nat
    BY DEF Twice, Pending
  <2>2. /\ Cardinality(Clusters \ free) + Twice = Grown + Cardinality(InUseIn(slots)) + Pending
        /\ Cardinality(Clusters \ free) \in Nat /\ Cardinality(InUseIn(slots)) \in Nat
        /\ Grown \in Int
    BY BeforeStep
  <2>3. PICK used \in Nat, entries \in Nat, grown \in Int, twice \in Nat, pending \in Nat :
          /\ used = Cardinality(Clusters \ free) /\ entries = Cardinality(InUseIn(slots))
          /\ grown = Grown /\ twice = Twice /\ pending = Pending
    BY <2>1, <2>2
  <2>4. /\ Cardinality(Clusters \ free') = used + 1 /\ Cardinality(InUseIn(slots')) = entries
        /\ Grown' = grown + 1 /\ Twice' = twice /\ Pending' = pending
    BY <1>11, <1>12, <1>13, <1>14, <2>3
  <2>5. used + twice = grown + entries + pending
    BY <2>2, <2>3
  <2>6. (used + 1) + twice = (grown + 1) + entries + pending
    BY <2>5
  <2> QED
    BY <2>4, <2>6, Zenon
<1> QED
  BY <1>1, <1>8, <1>9, <1>10, <1>15, BeforeStep, AfterStep

(* The new end marker.                                                     *)
LEMMA WriteEndKeeps ==
  ASSUME NotFailed, WriteSlot, Published PROVE LostInv'
<1>1. /\ slots' = slots /\ UNCHANGED <<free, spoilt>> /\ phase = "write"
      /\ call.kind \in {"create", "mkdir", "rename"}
      /\ IF call.kind = "rename" THEN phase' = "delete" /\ at' = call.last /\ UNCHANGED call
         ELSE Return
  <2>1. slots' = slots /\ IF call.kind = "rename"
                            THEN phase' = "delete" /\ at' = call.last /\ UNCHANGED call
                            ELSE Return
    BY BeforeStep, WriteEndStep
  <2> QED
    BY <2>1, BeforeStep DEF WriteSlot, DirInv, LocalsOK
<1>2. OwnedIn(slots, {})
  BY <1>1, BeforeStep, OfPiecesInv
<1>3. Pending = 0 /\ Grown' = Grown
  BY <1>1 DEF Pending, Grown, Unpublished, Published
<1>4. CASE call.kind = "rename"
  <2>1. phase' = "delete" /\ at' = call.last /\ call' = call
    BY <1>1, <1>4
  <2>2. ~ SourceGone'
    <3>1. call.last \in Nat
      BY <1>1, BeforeStep DEF DirInv, LocalsOK, CallRecords
    <3> QED
      BY <2>1, <3>1 DEF SourceGone
  <2>3. WrittenPieces' /\ OtherPieces'
    BY <1>1, <1>2, <2>1, <2>2, OfPiecesInv
  <2>4. SourcePieces'
    BY <1>1, <1>4, <2>1, BeforeStep, OfPiecesInv DEF HoldsSource
  <2>5. Twice' = Twice /\ Pending' = 0
    BY <1>1, <1>4, <2>1, <2>2 DEF Twice, Pending, Unpublished, Published
  <2> QED
    BY <1>1, <1>3, <1>4, <2>1, <2>3, <2>4, <2>5, BeforeStep, AfterStep
<1>5. CASE call.kind # "rename"
  <2>1. phase' = "idle" /\ call'.kind = "none"
    BY <1>1, <1>5 DEF Return, NoCall
  <2>2. WrittenPieces' /\ OtherPieces' /\ SourcePieces'
    BY <1>1, <1>2, <2>1, OfPiecesInv DEF HoldsSource
  <2>3. Twice = 0 /\ Twice' = 0 /\ Pending' = 0
    BY <1>5, <2>1 DEF Twice, Pending
  <2> QED
    BY <1>1, <1>3, <2>1, <2>2, <2>3, BeforeStep, AfterStep
<1> QED
  BY <1>4, <1>5

(* A piece of the long name.                                               *)
LEMMA WritePieceKeeps ==
  ASSUME NotFailed, WriteSlot, ~ Published, NEW short \in ShortNames,
         NEW count \in {0, LfnCount[call.name]}, NEW left \in 1 .. count,
         Writing(short, count, left), OwnedIn(slots, at + left - count .. at - 1)
  PROVE  LostInv'
<1>1. /\ DirInv' /\ Entries' = Entries
      /\ slots' = [slots EXCEPT ![at] = Lfn(call.name, left, short)]
      /\ ~ Published' /\ UNCHANGED <<phase, call>> /\ at' = at + 1
      /\ \E less \in 0 .. count : less = left - 1 /\ Writing(short, count, less)'
  BY BeforeStep, WritePieceStep
<1>2. /\ phase = "write" /\ UNCHANGED <<free, spoilt>> /\ call \in CallRecords
      /\ call.name \in Names
      /\ run \in Seq(Slot) /\ run # <<>> /\ Len(run) \in Nat \ {0}
      /\ at \in 1 .. Len(slots) /\ at <= EndIndex
      /\ at < EndIndex => slots[at] = Deleted
      /\ EndIndex \in 1 .. Len(slots) + 1 /\ Len(slots) \in Nat
  BY BeforeStep, WriteSlotFacts
<1>3. count \in Nat /\ left \in Nat \ {0} /\ left <= count
  <2>1. count \in Nat
    BY <1>2, DirectoryAssumption
  <2> QED
    BY <2>1
<1>4. PICK x \in Slot : x = Lfn(call.name, left, short) /\ x.tag = "lfn" /\ x # End
  BY <1>2, <1>3, SlotKinds
<1>5. PICK q, r, a : q = slots /\ r = slots' /\ a = at
  OBVIOUS
<1>a. q \in Seq(Slot) /\ r \in Seq(Slot) /\ a \in 1 .. Len(q) /\ Len(q) \in Nat
  BY <1>1, <1>2, <1>5, BeforeStep DEF DirInv
<1>6. /\ Len(r) = Len(q) /\ \A i \in 1 .. Len(q) : r[i] = IF i = a THEN x ELSE q[i]
  BY <1>1, <1>4, <1>5, <1>a
<1>7. Behind(q) /\ a <= EndOf(q) /\ (a < EndOf(q) => q[a] = Deleted)
  BY <1>2, <1>5, BeforeStep, OfSlots
<1>8. WrittenPieces'
  <2>1. PICK less \in 0 .. count : less = left - 1 /\ Writing(short, count, less)'
    BY <1>1
  <2>2. /\ at' + less - count .. at' - 1 = a + left - count .. a
        /\ at + left - count .. at - 1 = a + left - count .. a - 1
    BY <1>1, <1>2, <1>3, <1>5, <1>a, <2>1
  <2>3. a + left - count .. a - 1 \subseteq a + left - count .. a /\ a \in a + left - count .. a
    BY <1>3, <1>a
  <2>4. PICK P, R : P = a + left - count .. a - 1 /\ R = a + left - count .. a
    OBVIOUS
  <2>5. OwnedIn(q, P) /\ P \subseteq R /\ a \in R
    BY <1>5, <2>2, <2>3, <2>4
  <2>6. OwnedIn(r, R)
    <3>1. /\ q \in Seq(Slot) /\ r \in Seq(Slot) /\ a \in 1 .. Len(q) /\ x \in Slot /\ x # End
          /\ (x.tag = "lfn" => a \in R)
      BY <1>4, <1>a, <2>5
    <3>2. OwnedIn(q, P) /\ P \subseteq R
      BY <2>5
    <3> QED
      BY <1>6, <1>7, <3>1, <3>2, OwnedWhenWritten
  <2>7. OwnedIn(slots', at' + less - count .. at' - 1)
    BY <1>5, <2>2, <2>4, <2>6
  <2> QED
    BY <1>1, <2>1, <2>7, OfPiecesInv
<1>9. OtherPieces'
  BY <1>1, <1>2, OfPiecesInv
<1>10. SourcePieces'
  <2> SUFFICES ASSUME HoldsSource', NEW n \in Names, LongIn(slots', call'.last, n)
               PROVE  call'.start <= call'.last - LfnCount[n]
    BY OfPiecesInv
  <2>1. call.kind = "rename" /\ HoldsSource /\ call' = call
    BY <1>1, <1>2 DEF HoldsSource
  <2>2. /\ call.last \in 1 .. Len(slots) /\ call.last < EndIndex
        /\ slots[call.last].tag = "short"
    BY <1>2, <2>1, BeforeStep DEF DirInv, SourceInv, LocalsOK, CallRecords
  <2>3. PICK l \in 1 .. Len(q) : l = call.last
    BY <1>5, <2>2
  <2>4. q[l].tag = "short" /\ l < EndOf(q) /\ LongIn(r, l, n)
    BY <1>5, <2>1, <2>2, <2>3, OfSlots
  <2>5. l # a /\ l \in 1 .. Len(r) /\ r[l] = q[l]
    BY <1>6, <1>7, <1>a, <2>4, SlotKinds
  <2>6. a + 1 < EndOf(q) /\ a + 1 \in 1 .. Len(q) => r[a + 1] = Deleted
    <3>1. Len(run) > 1
      <4>1. PICK m \in Nat, s \in ShortNames, c \in Clusters \cup {NoCluster}, o \in Names :
              m = left /\ s = short /\ c = call.ref /\ o = call.name
        BY <1>2, <1>3 DEF CallRecords
      <4>2. run \in {NamedSlots(o, c, s, m), Append(NamedSlots(o, c, s, m), End)}
        BY <4>1 DEF Writing
      <4>3. NamedSlots(o, c, s, m) \in Seq(Slot) /\ Len(NamedSlots(o, c, s, m)) = m + 1
        BY NamedSlotsFacts
      <4>4. Len(Append(NamedSlots(o, c, s, m), End)) = m + 2
        BY <4>3, SlotKinds, AppendProperties
      <4> QED
        BY <1>3, <4>1, <4>2, <4>3, <4>4
    <3>2. at + 1 \in at .. at + Len(run) - 1
      BY <1>2, <3>1
    <3>3. at + 1 < EndIndex => slots[at + 1] = Deleted
      BY <1>2, <3>2, BeforeStep DEF DirInv, WriteInv
    <3> QED
      BY <1>5, <1>6, <1>a, <3>3, OfSlots
  <2>7. ASSUME NEW i \in 1 .. l - 1, \A k \in i .. l - 1 : r[k].tag = "lfn" PROVE q[i] = r[i]
    <3>1. i \in 1 .. Len(q)
      BY <1>a
    <3>2. i # a
      <4> SUFFICES ASSUME i = a PROVE FALSE
        OBVIOUS
      <4>1. a + 1 \in 1 .. Len(q) /\ a + 1 <= l
        BY <1>a
      <4>2. a + 1 < EndOf(q)
        BY <1>a, <2>4, <4>1, EndOfFacts
      <4>3. r[a + 1].tag = "deleted"
        BY <2>6, <4>1, <4>2, SlotKinds
      <4>4. CASE a + 1 = l
        BY <2>4, <2>5, <4>3, <4>4
      <4>5. CASE a + 1 # l
        <5>1. a + 1 \in i .. l - 1
          BY <1>a, <4>1, <4>5
        <5> QED
          BY <2>7, <4>3, <5>1
      <4> QED
        BY <4>4, <4>5
    <3> QED
      BY <1>6, <3>1, <3>2
  <2>8. LongIn(q, l, n)
    BY <1>a, <2>4, <2>5, <2>7, LongKept
  <2> QED
    BY <1>5, <2>1, <2>3, <2>8, BeforeStep, OfPiecesInv
<1>11. Twice' = Twice /\ Pending' = Pending /\ Grown' = Grown
  <2>1. Len(slots') = Len(slots)
    BY <1>5, <1>6
  <2>2. Unpublished' <=> Unpublished
    BY <1>1, <1>2 DEF Unpublished, Published
  <2> QED
    BY <1>1, <1>2, <2>1, <2>2 DEF Twice, Pending, Grown, SourceGone
<1>12. InUseIn(slots') = InUseIn(slots)
  <2>1. EntriesOf(r) = EntriesOf(q) /\ \A i \in EntriesOf(q) : i \in 1 .. Len(q) /\ q[i].tag = "short"
    BY <1>1, <1>5, <1>a, OfSlots, EntriesIn
  <2>3. a \notin EntriesOf(q)
    <3>1. CASE a < EndOf(q)
      BY <1>7, <3>1, SlotKinds DEF EntriesOf
    <3>2. CASE ~ (a < EndOf(q))
      BY <1>7, <1>a, <3>2, EndOfFacts DEF EntriesOf
    <3> QED
      BY <3>1, <3>2
  <2>2. \A i \in EntriesOf(q) : r[i] = q[i]
    BY <1>6, <1>7, <1>a, <2>1, <2>3
  <2> QED
    BY <1>5, <2>1, <2>2, InUseSame
<1> QED
  BY <1>1, <1>2, <1>8, <1>9, <1>10, <1>11, <1>12, BeforeStep, AfterStep DEF DirInv, LocalsOK

(* The short entry.                                                        *)
LEMMA WriteEntryKeeps ==
  ASSUME NotFailed, WriteSlot, ~ Published, NEW short \in ShortNames,
         NEW count \in {0, LfnCount[call.name]}, Writing(short, count, 0),
         OwnedIn(slots, at - count .. at - 1)
  PROVE  LostInv'
<1>1. /\ DirInv' /\ Entries' = Entries \cup {at} /\ at \notin Entries
      /\ slots' = [slots EXCEPT ![at] = Short(short, call.ref)]
      /\ Unpublished /\ ~ Unpublished' /\ phase' # "alloc"
      /\ call.kind = "rename" => call' = call
      /\ \/ call.kind # "rename" /\ Return
         \/ call.kind = "rename" /\ phase' = "delete" /\ at' = call.last
         \/ Published' /\ UNCHANGED call
  BY BeforeStep, WriteEntryStep
<1>2. /\ phase = "write" /\ UNCHANGED <<free, spoilt>> /\ call \in CallRecords
      /\ call.name \in Names
      /\ at \in 1 .. Len(slots) /\ at <= EndIndex
      /\ at < EndIndex => slots[at] = Deleted
      /\ EndIndex \in 1 .. Len(slots) + 1 /\ Len(slots) \in Nat
  BY BeforeStep, WriteSlotFacts
<1>3. PICK n \in Names, c \in Clusters \cup {NoCluster} : n = call.name /\ c = call.ref
  BY <1>2 DEF CallRecords
<1>4. PICK size \in Nat : size = count
  BY <1>2, DirectoryAssumption
<1>5. PICK x \in Slot : /\ x = Short(short, c) /\ x.tag = "short" /\ x # End
                        /\ x.short = short /\ x.cluster = c
  BY SlotKinds
<1>6. PICK q, r, a : q = slots /\ r = slots' /\ a = at
  OBVIOUS
<1>7. /\ q \in Seq(Slot) /\ r \in Seq(Slot) /\ a \in 1 .. Len(q) /\ Len(q) \in Nat
      /\ Behind(q) /\ a <= EndOf(q) /\ (a < EndOf(q) => q[a] = Deleted)
  BY <1>1, <1>2, <1>6, BeforeStep, OfSlots DEF DirInv
<1>8. Len(r) = Len(q) /\ \A i \in 1 .. Len(q) : r[i] = IF i = a THEN x ELSE q[i]
  BY <1>1, <1>3, <1>5, <1>6, <1>7
<1>9. /\ EntriesOf(r) = EntriesOf(q) \cup {a} /\ a \notin EntriesOf(q)
      /\ \A i \in EntriesOf(q) : r[i] = q[i]
  <2>1. EntriesOf(r) = EntriesOf(q) \cup {a} /\ a \notin EntriesOf(q)
    BY <1>1, <1>6, OfSlots
  <2> QED
    BY <1>7, <1>8, <2>1, EntriesIn
<1>10. OwnedIn(r, {})
  <2>1. PICK P : P = a - size .. a - 1
    OBVIOUS
  <2>2. OwnedIn(q, P)
    BY <1>4, <1>6, <2>1
  <2>3. OwnedIn(r, P)
    <3>1. x \in Slot /\ x # End /\ P \subseteq P /\ (x.tag = "lfn" => a \in P)
      BY <1>5
    <3> QED
      BY <1>7, <1>8, <2>2, <3>1, OwnedWhenWritten
  <2>4. CASE size = 0
    <3>1. P = {}
      BY <1>7, <2>1, <2>4
    <3> QED
      BY <2>3, <3>1
  <2>5. CASE size # 0
    <3>1. size = LfnCount[n] /\ r[a].short = short
      BY <1>3, <1>4, <1>5, <1>7, <1>8, <2>5
    <3>2. ASSUME NEW k \in 1 .. size
          PROVE  a - k \in 1 .. Len(q) /\ r[a - k] = Lfn(n, k, short)
      <4>1. k \in 0 + 1 .. count /\ at + 0 - k = a - k
        BY <1>4, <1>6, <1>7
      <4>2. a - k \in DOMAIN slots /\ slots[a - k] = Lfn(n, k, short)
        BY <1>3, <4>1 DEF Writing
      <4>3. a - k \in 1 .. Len(q) /\ a - k # a
        BY <1>6, <1>7, <4>2
      <4> QED
        BY <1>6, <1>8, <4>2, <4>3
    <3>3. size \in 1 .. size
      BY <2>5
    <3>4. size < a
      BY <1>7, <3>2, <3>3
    <3>5. LongIn(r, a, n)
      BY <3>1, <3>2, <3>4 DEF LongIn
    <3>6. a \in EntriesOf(r) /\ OwnedIn(r, a - LfnCount[n] .. a - 1)
      BY <1>9, <2>1, <2>3, <3>1
    <3> QED
      BY <1>7, <3>5, <3>6, OwnedWhenNamed
  <2> QED
    BY <2>4, <2>5
<1>11. ASSUME call.kind = "rename", NEW o \in Names, LongIn(r, call.last, o)
       PROVE  call.start <= call.last - LfnCount[o]
  <2>1. /\ call.last \in 1 .. Len(slots) /\ call.last < EndIndex
        /\ slots[call.last].tag = "short"
    BY <1>2, <1>11, BeforeStep DEF DirInv, SourceInv, LocalsOK, CallRecords
  <2>2. PICK l \in 1 .. Len(q) : l = call.last
    BY <1>6, <2>1
  <2>3. q[l].tag = "short" /\ l < EndOf(q) /\ LongIn(r, l, o)
    BY <1>6, <1>11, <2>1, <2>2, OfSlots
  <2>4. l # a /\ l \in 1 .. Len(r) /\ q[l] = r[l]
    BY <1>7, <1>8, <2>3, SlotKinds
  <2>5. ASSUME NEW i \in 1 .. l - 1, \A k \in i .. l - 1 : r[k].tag = "lfn" PROVE q[i] = r[i]
    <3>1. i \in 1 .. Len(q) /\ i \in i .. l - 1
      BY <1>7
    <3>2. i # a
      BY <1>5, <1>8, <2>5, <3>1
    <3> QED
      BY <1>8, <3>1, <3>2
  <2>6. LongIn(q, l, o)
    BY <1>7, <2>3, <2>4, <2>5, LongKept
  <2>7. HoldsSource
    BY <1>2, <1>11 DEF HoldsSource
  <2> QED
    BY <1>6, <2>2, <2>6, <2>7, BeforeStep, OfPiecesInv
<1>12. phase' = "delete" => ~ SourceGone' /\ call' = call /\ call.kind = "rename"
  <2>1. call.last \in Nat
    BY <1>2 DEF CallRecords
  <2> QED
    BY <1>1, <2>1 DEF SourceGone, Published, Return
<1>13. WrittenPieces' /\ OtherPieces'
  <2>1. ~ (phase' = "write" /\ ~ Published')
    BY <1>1 DEF Return
  <2>2. OwnedIn(slots', IF phase' = "delete" /\ SourceGone' THEN call'.start .. at' ELSE {})
    BY <1>6, <1>10, <1>12
  <2> QED
    BY <2>1, <2>2, OfPiecesInv
<1>14. SourcePieces'
  <2>1. HoldsSource' => call.kind = "rename" /\ call' = call
    BY <1>1, <1>12 DEF HoldsSource, Return, NoCall
  <2> QED
    BY <1>6, <1>11, <2>1, OfPiecesInv
<1>15. PICK d \in Nat : d = IF c # NoCluster THEN 1 ELSE 0
  OBVIOUS
<1>16. /\ Twice = 0 /\ Pending' = 0
       /\ Twice' + Pending = d
  <2>0. call.kind \in {"create", "mkdir", "rename"} /\ (call.kind = "create" => c = NoCluster)
    BY <1>2, <1>3, BeforeStep DEF DirInv, LocalsOK
  <2>1. Twice = 0
    BY <1>2 DEF Twice
  <2>2. Pending' = 0
    BY <1>1, <1>12, <2>0 DEF Pending, Return, NoCall, SourceGone, Published
  <2>3. CASE call.kind = "rename"
    <3>1. Pending = 0
      BY <2>3 DEF Pending
    <3>2. Twice' = d
      BY <1>1, <1>3, <1>15, <2>3 DEF Twice, Return
    <3>3. d + 0 = d
      OBVIOUS
    <3> QED
      BY <2>1, <2>2, <3>1, <3>2, <3>3, Zenon
  <2>4. CASE call.kind # "rename"
    <3>1. Pending = d
      BY <1>1, <1>3, <1>15, <2>0, <2>4 DEF Pending
    <3>2. call'.kind # "rename"
      BY <1>1, <2>4 DEF Return, NoCall
    <3>3. Twice' = 0
      BY <3>2 DEF Twice
    <3>4. 0 + d = d
      OBVIOUS
    <3> QED
      BY <2>1, <2>2, <3>1, <3>3, <3>4, Zenon
  <2> QED
    BY <2>1, <2>2, <2>3, <2>4
<1>17. Cardinality(Clusters \ free') + Twice' = Grown' + Cardinality(InUseIn(slots')) + Pending'
  <2>1. r[a].cluster = c
    BY <1>5, <1>7, <1>8
  <2>2. Cardinality(InUseIn(slots')) = Cardinality(InUseIn(slots)) + d
    BY <1>6, <1>7, <1>9, <1>15, <2>1, InUseAdded
  <2>3. Grown' = Grown /\ free' = free
    BY <1>2, <1>6, <1>8 DEF Grown
  <2>4. Twice' \in Nat /\ Pending \in Nat
    BY DEF Twice, Pending
  <2>5. PICK used \in Nat, entries \in Nat, grown \in Int, twice \in Nat, pending \in Nat :
          /\ used = Cardinality(Clusters \ free) /\ entries = Cardinality(InUseIn(slots))
          /\ grown = Grown /\ twice = Twice' /\ pending = Pending
    BY <2>4, BeforeStep
  <2>6. used = grown + entries + pending /\ twice + pending = d
    <3>1. used + 0 = grown + entries + pending
      BY <1>16, <2>5, BeforeStep, Zenon
    <3>2. twice + pending = d
      BY <1>16, <2>5, Zenon
    <3> QED
      BY <3>1, <3>2
  <2>7. used + twice = grown + (entries + d) + 0
    BY <1>15, <2>6
  <2> QED
    BY <1>16, <2>2, <2>3, <2>5, <2>7, Zenon
<1>18. phase' # "undo" /\ call'.kind # "remove" /\ spoilt' = {}
  <2>1. call.kind # "remove"
    BY <1>2, BeforeStep DEF DirInv, LocalsOK
  <2> QED
    BY <1>1, <1>2, <2>1, BeforeStep DEF Return, NoCall, Published
<1> QED
  BY <1>13, <1>14, <1>17, <1>18, AfterStep

(* The writes of a run keep LostInv.                                       *)
LEMMA WriteSlotKeeps ==
  ASSUME NotFailed, WriteSlot PROVE LostInv'
<1>1. CASE Published
  BY <1>1, WriteEndKeeps
<1>2. CASE ~ Published
  <2>1. phase = "write" /\ call.name \in Names
    BY BeforeStep, WriteSlotFacts
  <2>2. PICK short \in ShortNames, count \in {0, LfnCount[call.name]} :
          \E left \in 0 .. count :
            Writing(short, count, left) /\ OwnedIn(slots, at + left - count .. at - 1)
    BY <1>2, <2>1, BeforeStep, OfPiecesInv
  <2>3. PICK left \in 0 .. count :
          Writing(short, count, left) /\ OwnedIn(slots, at + left - count .. at - 1)
    BY <2>2
  <2>4. count \in Nat /\ at \in Nat
    BY <2>1, BeforeStep, WriteSlotFacts, DirectoryAssumption
  <2>5. CASE left = 0
    <3>1. at + left - count = at - count
      BY <2>4, <2>5
    <3>2. Writing(short, count, 0) /\ OwnedIn(slots, at - count .. at - 1)
      BY <2>3, <2>5, <3>1
    <3> QED
      BY <1>2, <3>2, WriteEntryKeeps
  <2>6. CASE left # 0
    <3>1. left \in 1 .. count
      BY <2>4, <2>6
    <3> QED
      BY <1>2, <2>3, <3>1, WritePieceKeeps
  <2> QED
    BY <2>5, <2>6
<1> QED
  BY <1>1, <1>2

(* A slot of an entry is deleted.                                          *)
LEMMA DeleteSlotKeeps ==
  ASSUME NotFailed, DeleteSlot PROVE LostInv'
<1>1. /\ phase = "delete" /\ UNCHANGED <<free, spoilt>> /\ call \in CallRecords
      /\ call.start \in Nat /\ call.last \in Nat /\ at \in call.start .. call.last
      /\ 1 <= call.start /\ call.last < EndIndex
      /\ EndIndex \in 1 .. Len(slots) + 1 /\ Len(slots) \in Nat
      /\ slots' \in Seq(Slot) /\ Len(slots') = Len(slots) /\ NothingBehindEnd'
      /\ EndIndex' = EndIndex /\ Entries' = Entries \ {at}
      /\ \A i \in 1 .. Len(slots) : slots'[i] = IF i = at THEN Deleted ELSE slots[i]
      /\ call.last \notin Entries'
  BY BeforeStep, DeleteSlotFacts
<1>2. /\ \A i \in call.start .. at : i < call.last => slots[i].tag = "lfn"
      /\ \A i \in at + 1 .. call.last : slots[i] = Deleted
      /\ at = call.last => slots[call.last].tag = "short" /\ slots[call.last].cluster = call.ref
      /\ call.kind \in {"remove", "rename"}
  BY <1>1, BeforeStep DEF DirInv, SourceInv, LocalsOK
<1>3. PICK q, r, a, first, last :
        q = slots /\ r = slots' /\ a = at /\ first = call.start /\ last = call.last
  OBVIOUS
<1>4. /\ q \in Seq(Slot) /\ r \in Seq(Slot) /\ Behind(q) /\ Len(r) = Len(q) /\ Len(q) \in Nat
      /\ first \in Nat \ {0} /\ last \in Nat /\ a \in first .. last /\ last < EndOf(q)
      /\ \A i \in 1 .. Len(q) : r[i] = IF i = a THEN Deleted ELSE q[i]
      /\ EntriesOf(r) = EntriesOf(q) \ {a} /\ EndOf(q) \in 1 .. Len(q) + 1
  BY <1>1, <1>3, BeforeStep, OfSlots
<1>5. /\ a < last => q[a].tag = "lfn"
      /\ \A i \in a + 1 .. last : q[i] = Deleted
      /\ a = last => q[last].tag = "short" /\ q[last].cluster = call.ref
  BY <1>2, <1>3, <1>4
<1>6. SourceGone <=> a < last
  BY <1>1, <1>3 DEF SourceGone
<1>7. OwnedIn(r, first .. a - 1)
  <2>1. OwnedIn(q, IF a < last THEN first .. a ELSE {})
    BY <1>1, <1>3, <1>6, BeforeStep, OfPiecesInv
  <2>2. a = last => /\ q[last].tag = "short"
                    /\ \A n \in Names : LongIn(q, last, n) => first <= last - LfnCount[n]
    <3> SUFFICES ASSUME a = last
                 PROVE  \A n \in Names : LongIn(q, last, n) => first <= last - LfnCount[n]
      BY <1>5
    <3>1. HoldsSource
      BY <1>1, <1>3 DEF HoldsSource
    <3> QED
      BY <1>3, <3>1, BeforeStep, OfPiecesInv
  <2> QED
    BY <1>4, <1>5, <2>1, <2>2, OwnedWhenDeleted
<1>8. PICK d \in Nat : d = IF call.ref # NoCluster THEN 1 ELSE 0
  OBVIOUS
<1>9. PICK owing \in Nat : owing = IF call.kind = "remove" THEN d ELSE 0
  OBVIOUS
<1>10. /\ WrittenPieces' /\ OtherPieces' /\ SourcePieces'
       /\ Twice' = 0 /\ Pending' = owing
       /\ phase' # "undo" /\ (call'.kind = "remove" => call' = call)
  <2>1. CASE at > call.start
    <3>1. at' = at - 1 /\ phase' = "delete" /\ call' = call
      BY <1>1, <2>1 DEF DeleteSlot
    <3>2. at' # call.last /\ SourceGone' /\ ~ HoldsSource'
      BY <1>1, <3>1 DEF SourceGone, HoldsSource
    <3>3. WrittenPieces' /\ OtherPieces' /\ SourcePieces'
      BY <1>3, <1>7, <3>1, <3>2, OfPiecesInv
    <3>4. Twice' = 0
      BY <3>1, <3>2 DEF Twice, Published
    <3>5. Pending' = owing
      BY <1>2, <1>8, <1>9, <3>1, <3>2 DEF Pending
    <3> QED
      BY <3>1, <3>3, <3>4, <3>5
  <2>2. CASE ~ (at > call.start)
    <3>1. OwnedIn(slots', {})
      <4>1. first .. a - 1 = {}
        BY <1>3, <1>4, <2>2
      <4> QED
        BY <1>3, <1>7, <4>1
    <3>2. CASE call.kind = "remove" /\ call.ref # NoCluster
      <4>1. phase' = "free" /\ call' = call
        BY <2>2, <3>2 DEF DeleteSlot
      <4>2. SourceGone' /\ ~ HoldsSource'
        BY <3>2, <4>1 DEF SourceGone, HoldsSource
      <4>3. WrittenPieces' /\ OtherPieces' /\ SourcePieces'
        BY <3>1, <4>1, <4>2, OfPiecesInv
      <4>4. Twice' = 0 /\ Pending' = owing
        BY <1>8, <1>9, <3>2, <4>1, <4>2 DEF Twice, Pending
      <4> QED
        BY <4>1, <4>3, <4>4
    <3>3. CASE ~ (call.kind = "remove" /\ call.ref # NoCluster)
      <4>1. phase' = "idle" /\ call'.kind = "none"
        BY <2>2, <3>3 DEF DeleteSlot, Return, NoCall
      <4>2. WrittenPieces' /\ OtherPieces' /\ SourcePieces'
        BY <3>1, <4>1, OfPiecesInv DEF HoldsSource
      <4>3. Twice' = 0 /\ Pending' = owing
        BY <1>2, <1>8, <1>9, <3>3, <4>1 DEF Twice, Pending
      <4> QED
        BY <4>1, <4>2, <4>3
    <3> QED
      BY <3>2, <3>3
  <2> QED
    BY <2>1, <2>2
<1>11. PICK used \in Nat, entries \in Nat, grown \in Int :
         /\ used = Cardinality(Clusters \ free) /\ entries = Cardinality(InUseIn(slots'))
         /\ grown = Grown
  BY <1>3, <1>4, BeforeStep, InUseFinite
<1>12. used = grown + entries + owing
  <2>1. CASE a = last
    <3>1. Cardinality(InUseIn(q)) = entries + d
      <4>1. a \in EntriesOf(q) /\ EntriesOf(q) = EntriesOf(r) \cup {a} /\ a \notin EntriesOf(r)
        <5>1. a \in EntriesOf(q)
          BY <1>4, <1>5, <2>1 DEF EntriesOf
        <5> QED
          BY <1>4, <5>1
      <4>2. \A i \in EntriesOf(r) : q[i] = r[i]
        BY <1>4, <4>1, EntriesIn
      <4>3. q[a].cluster = call.ref
        BY <1>5, <2>1
      <4>4. Cardinality(InUseIn(q)) =
              Cardinality(InUseIn(r)) + (IF q[a].cluster # NoCluster THEN 1 ELSE 0)
        BY <1>4, <4>1, <4>2, InUseAdded
      <4> QED
        BY <1>3, <1>8, <1>11, <4>3, <4>4
    <3>2. Pending = 0
      <4>1. ~ SourceGone
        BY <1>4, <1>6, <2>1
      <4> QED
        BY <1>1, <4>1 DEF Pending, Unpublished
    <3>3. PICK twice \in Nat : twice = Twice /\ twice = d - owing
      <4>1. call.kind = "rename" => Twice = d
        BY <1>1, <1>3, <1>8, <2>1 DEF Twice
      <4>2. call.kind = "remove" => Twice = 0
        BY DEF Twice
      <4> QED
        BY <1>2, <1>8, <1>9, <4>1, <4>2
    <3>4. used + twice = grown + (entries + d) + 0
      BY <1>3, <1>11, <3>1, <3>2, <3>3, BeforeStep, Zenon
    <3> QED
      BY <1>11, <3>3, <3>4
  <2>2. CASE a # last
    <3>1. a < last
      BY <1>4, <2>2
    <3>2. Cardinality(InUseIn(q)) = entries
      <4>1. a \notin EntriesOf(q)
        BY <1>5, <3>1 DEF EntriesOf
      <4>2. EntriesOf(r) = EntriesOf(q) /\ \A i \in EntriesOf(q) : r[i] = q[i]
        BY <1>4, <4>1, EntriesIn
      <4> QED
        BY <1>3, <1>11, <4>2, InUseSame
    <3>3. Twice = 0
      BY <1>1, <1>3, <2>2 DEF Twice, Published
    <3>4. Pending = owing
      BY <1>1, <1>2, <1>6, <1>8, <1>9, <3>1 DEF Pending
    <3>5. used + 0 = grown + entries + owing
      BY <1>3, <1>11, <3>2, <3>3, <3>4, BeforeStep, Zenon
    <3> QED
      BY <1>11, <3>5
  <2> QED
    BY <2>1, <2>2
<1>13. Cardinality(Clusters \ free') + Twice' = Grown' + Cardinality(InUseIn(slots')) + Pending'
  <2>1. Grown' = Grown /\ free' = free
    BY <1>1 DEF Grown
  <2>2. used + 0 = grown + entries + owing
    BY <1>12
  <2> QED
    BY <1>10, <1>11, <2>1, <2>2, Zenon
<1> QED
  BY <1>1, <1>10, <1>13, BeforeStep, AfterStep

(* The chain of a removed entry is freed.                                  *)
LEMMA FreeChainKeeps ==
  ASSUME NotFailed, FreeChain PROVE LostInv'
<1>1. /\ phase = "free" /\ free' = free \cup {call.ref} /\ UNCHANGED <<slots, spoilt>>
      /\ phase' = "idle" /\ call' = NoCall /\ call'.kind = "none" /\ call.kind = "remove"
      /\ call.ref \in Clusters /\ call.ref # NoCluster /\ call.ref \notin free
  BY BeforeStep, DirectoryAssumption DEF FreeChain, Return, NoCall, DirInv, LocalsOK, DirTypeOK
<1>2. OwnedIn(slots, {})
  BY <1>1, BeforeStep, OfPiecesInv
<1>3. WrittenPieces' /\ OtherPieces' /\ SourcePieces'
  BY <1>1, <1>2, OfPiecesInv DEF HoldsSource
<1>4. Twice = 0 /\ Pending = 1 /\ Twice' = 0 /\ Pending' = 0 /\ Grown' = Grown
  BY <1>1 DEF Twice, Pending, Grown, SourceGone
<1>5. /\ Cardinality(Clusters \ free') \in Nat
      /\ Cardinality(Clusters \ free) = Cardinality(Clusters \ free') + 1
  <2>1. free' \in SUBSET Clusters /\ call.ref \in free' /\ free' \ {call.ref} = free
    BY <1>1, BeforeStep
  <2>2. PICK f \in SUBSET Clusters : f = free'
    BY <2>1
  <2>3. PICK c \in f : c = call.ref
    BY <2>1, <2>2
  <2>4. /\ Cardinality(Clusters \ f) \in Nat
        /\ Cardinality(Clusters \ (f \ {c})) = Cardinality(Clusters \ f) + 1
    BY ClusterTaken
  <2> QED
    BY <2>1, <2>2, <2>3, <2>4
<1>6. Cardinality(Clusters \ free') + Twice' = Grown' + Cardinality(InUseIn(slots')) + Pending'
  <2>1. PICK used \in Nat, entries \in Nat, grown \in Int :
          /\ used = Cardinality(Clusters \ free') /\ entries = Cardinality(InUseIn(slots))
          /\ grown = Grown
    BY <1>5, BeforeStep
  <2>2. (used + 1) + 0 = grown + entries + 1
    BY <1>4, <1>5, <2>1, BeforeStep, Zenon
  <2>3. used + 0 = grown + entries + 0
    BY <2>2
  <2> QED
    BY <1>1, <1>4, <2>1, <2>3, Zenon
<1> QED
  BY <1>1, <1>3, <1>6, BeforeStep, AfterStep

(* Nothing is lost at the start, nor by a step; a failed call is excused.  *)
LEMMA LostInitially == DirInit => LostInv
<1> SUFFICES ASSUME DirInit PROVE LostInv
  OBVIOUS
<1>1. /\ slots = [i \in 1 .. InitialSlots |-> End] /\ free = Clusters /\ phase = "idle"
      /\ call.kind = "none" /\ spoilt = {}
  BY DEF DirInit, NoCall
<1>2. slots \in Seq(Slot) /\ Len(slots) = InitialSlots /\ \A i \in 1 .. Len(slots) : slots[i] = End
  BY <1>1, DirectoryAssumption, SlotKinds
<1>3. EndIndex = 1
  <2>1. EndOf(slots) \in 1 .. Len(slots) + 1 /\ \A i \in 1 .. EndOf(slots) - 1 : slots[i] # End
    BY <1>2, EndOfFacts
  <2>2. Len(slots) \in Nat
    BY <1>2
  <2> QED
    BY <1>2, <2>1, <2>2, OfSlots
<1>4. \A P : Owned(P)
  BY <1>3 DEF Owned
<1>5. PiecesInv
  BY <1>1, <1>4 DEF PiecesInv, WrittenPieces, OtherPieces, SourcePieces, HoldsSource
<1>6. Twice = 0 /\ Pending = 0
  BY <1>1 DEF Twice, Pending
<1>7. Grown = 0
  <2>1. PICK s \in Nat \ {0} : s = SlotsPerCluster
    BY DirectoryAssumption
  <2>2. 0 \div s = 0
    BY <2>1
  <2>3. Len(slots) - InitialSlots = 0
    BY <1>2, DirectoryAssumption
  <2> QED
    BY <2>1, <2>2, <2>3 DEF Grown
<1>8. Cardinality(Clusters \ free) = 0 /\ Cardinality(InUseByEntries) = 0
  <2>1. Clusters \ free = {} /\ InUseByEntries = {}
    BY <1>1, <1>3 DEF InUseByEntries, Entries
  <2> QED
    BY <2>1, FS_EmptySet
<1> QED
  BY <1>1, <1>5, <1>6, <1>7, <1>8 DEF LostInv, ClustersInv

(* Every step keeps LostInv.                                               *)
LEMMA LostKept == DirInv /\ LostInv /\ [DirNext]_dirVars => LostInv'
<1> SUFFICES ASSUME DirInv, LostInv, [DirNext]_dirVars PROVE LostInv'
  OBVIOUS
<1>1. CASE failed'
  BY <1>1 DEF LostInv
<1>2. CASE UNCHANGED dirVars
  <2>1. LostInv' <=> LostInv
    BY <1>2 DEF dirVars, LostInv, PiecesInv, WrittenPieces, OtherPieces, SourcePieces, ClustersInv,
                Published, Unpublished, Writing, ShortNameExists, Entries, EndIndex, Owned, Belongs,
                HasLongName, LongNameBefore, SourceGone, HoldsSource, Twice, Pending, Grown, InUseByEntries
  <2> QED
    BY <2>1
<1>3. CASE ~ failed' /\ DirNext
  <2>1. ~ failed
    BY <1>3 DEF DirNext, DirCall, DirStep, CreateFile, CreateNamedEntry, ReturnError,
                CreateDirectory, Remove, Rename, AllocateCluster, WriteDotEntries, NameDirectory,
                GrowDirectory, NoSpace, WriteSlot, UndoDirectory, DeleteSlot, FreeChain,
                DeviceError, PowerCut
  <2>2. NotFailed
    BY <2>1 DEF NotFailed
  <2>3. CASE DirCall
    BY <2>2, <2>3, CreateFileKeeps, CreateDirectoryKeeps, RemoveKeeps, RenameKeeps DEF DirCall
  <2>4. ASSUME NoSpace \/ DeviceError \/ PowerCut PROVE FALSE
    BY <1>3, <2>4 DEF NoSpace, DeviceError, PowerCut, ReturnError
  <2>5. CASE UndoDirectory
    BY <2>2, <2>5, BeforeStep DEF UndoDirectory
  <2> QED
    BY <1>3, <2>2, <2>3, <2>4, <2>5, AllocateClusterKeeps, WriteDotEntriesKeeps,
       NameDirectoryKeeps, GrowDirectoryKeeps, WriteSlotKeeps, DeleteSlotKeeps, FreeChainKeeps
       DEF DirNext, DirStep
<1> QED
  BY <1>1, <1>2, <1>3

(* Which pieces of long names, and which clusters, the running call still  *)
(* has to write, to hand on or to release: true at every device write, as  *)
(* long as no call failed.                                                 *)
THEOREM LostInvariant == DirSpec => []LostInv
BY LostInitially, LostKept, DirectoryInvariant, PTL DEF DirSpec

(* As long as no call fails, a directory loses nothing between two calls:  *)
(* every piece of a long name belongs to an entry, and the clusters in use *)
(* are those of the entries and of the directory itself.                   *)
THEOREM NothingIsLost == DirSpec => []NothingLost
<1>1. DirInv /\ LostInv => NothingLost
  <2> SUFFICES ASSUME DirInv, LostInv, phase = "idle", ~ failed
               PROVE  /\ \A i \in 1 .. EndIndex - 1 : slots[i].tag = "lfn" => Belongs(i)
                      /\ Cardinality(Clusters \ free) = Grown + Cardinality(InUseByEntries)
    BY DEF NothingLost, Belongs, InUseByEntries
  <2>1. NotFailed
    BY DEF NotFailed
  <2>2. Owned({})
    BY <2>1, OwnedBetween, OfPieces
  <2>3. call = NoCall /\ call.kind = "none"
    BY DEF DirInv, LocalsOK, NoCall
  <2>4. Twice = 0 /\ Pending = 0
    BY <2>3 DEF Twice, Pending
  <2>5. PICK used \in Nat, entries \in Nat, grown \in Int :
          /\ used = Cardinality(Clusters \ free) /\ entries = Cardinality(InUseIn(slots))
          /\ grown = Grown
    BY <2>1, BeforeStep
  <2>6. used + 0 = grown + entries + 0
    BY <2>1, <2>4, <2>5, BeforeStep, Zenon
  <2>7. used = grown + entries
    BY <2>6
  <2> QED
    BY <2>2, <2>5, <2>7, OfPieces DEF Owned
<1> QED
  BY <1>1, LostInvariant, DirectoryInvariant, PTL

-----------------------------------------------------------------------------
(* What a new entry finds right before its place, when no call has failed: *)
(* the pieces of its own long name, or none that could be taken for it.    *)
LEMMA NoAdoptionYet ==
  ASSUME DirInv, LostInv, ~ failed PROVE NoAdoption
<1> SUFFICES ASSUME phase = "write", Head(run).tag = "short", NEW n \in Names,
                    LongNameBefore(at, Head(run).short, n)
             PROVE  n = call.name
  BY DEF NoAdoption
<1>1. /\ at \in 1 .. EndIndex /\ slots \in Seq(Slot) /\ call \in CallRecords /\ call.name \in Names
      /\ at < EndIndex => slots[at] = Deleted
      /\ EndIndex \in 1 .. Len(slots) + 1 /\ Len(slots) \in Nat
  <2>1. run # <<>> /\ run \in Seq(Slot)
    BY DEF DirInv, DirTypeOK
  <2>2. Len(run) \in Nat \ {0}
    BY <2>1
  <2>3. at \in 1 .. EndIndex /\ EndIndex \in 1 .. Len(slots) + 1 /\ Len(slots) \in Nat
    BY EntriesFacts DEF DirInv, WriteInv
  <2>4. at \in at .. at + Len(run) - 1
    BY <2>2, <2>3
  <2> QED
    BY <2>3, <2>4 DEF DirInv, WriteInv, LocalsOK
<1>2. ~ Published
  <2>1. Head(<<End>>).tag = "end"
    BY SlotKinds
  <2> QED
    BY <2>1 DEF Published
<1>3. PICK short \in ShortNames, count \in {0, LfnCount[call.name]} :
        \E left \in 0 .. count : Writing(short, count, left) /\ Owned(at + left - count .. at - 1)
  BY <1>2 DEF LostInv, PiecesInv, WrittenPieces
<1>4. PICK left \in 0 .. count :
        Writing(short, count, left) /\ Owned(at + left - count .. at - 1)
  BY <1>3
<1>5. count \in Nat /\ left \in Nat
  BY <1>1, DirectoryAssumption
<1>6. PICK m \in Names, c \in Clusters \cup {NoCluster} : m = call.name /\ c = call.ref
  BY <1>1 DEF CallRecords
<1>7. PICK q \in Seq(Slot) :
        /\ q = NamedSlots(m, c, short, left) /\ Len(q) = left + 1
        /\ q[left + 1] = Short(short, c)
        /\ \A i \in 1 .. left : q[i] = Lfn(m, left + 1 - i, short)
  BY <1>5, NamedSlotsFacts
<1>8. Head(run) = q[1]
  <2>1. run \in {q, Append(q, End)}
    BY <1>4, <1>6, <1>7 DEF Writing
  <2>2. Head(Append(q, End)) = q[1] /\ Head(q) = q[1]
    BY <1>5, <1>7
  <2> QED
    BY <2>1, <2>2
<1>9. left = 0 /\ Head(run).short = short
  <2>1. ASSUME left # 0 PROVE FALSE
    <3>1. q[1] = Lfn(m, left + 1 - 1, short)
      BY <1>5, <1>7, <2>1
    <3>2. q[1].tag = "lfn"
      BY <3>1 DEF Lfn
    <3> QED
      BY <1>8, <3>2
  <2>2. q[1] = Short(short, c)
    BY <1>7, <2>1
  <2> QED
    BY <1>8, <2>1, <2>2 DEF Short
<1>10. /\ at - 1 \in 1 .. EndIndex - 1 /\ slots[at - 1] = Lfn(n, 1, short)
  <2>1. PICK k \in Nat \ {0} : k = LfnCount[n]
    BY DirectoryAssumption
  <2>2. k < at /\ 1 \in 1 .. k
    BY <1>1, <2>1 DEF LongNameBefore
  <2>3. slots[at - 1] = Lfn(n, 1, short)
    BY <1>9, <2>1, <2>2 DEF LongNameBefore
  <2> QED
    BY <1>1, <2>1, <2>2, <2>3
<1>11. slots[at - 1].tag = "lfn" /\ slots[at - 1].name = n
  BY <1>10 DEF Lfn
<1>12. Belongs(at - 1) \/ at - 1 \in at + left - count .. at - 1
  BY <1>4, <1>10, <1>11 DEF Owned
<1>13. ASSUME Belongs(at - 1) PROVE FALSE
  <2>1. PICK j \in Entries, o \in Names :
          HasLongName(j, o) /\ at - 1 < j /\ j - LfnCount[o] <= at - 1
    BY <1>13 DEF Belongs
  <2>2. j \in 1 .. EndIndex - 1 /\ slots[j].tag = "short" /\ j \in 1 .. Len(slots)
    BY <1>1, EntriesFacts
  <2>3. slots[at] = Deleted /\ slots[at].tag = "deleted"
    BY <1>1, <2>1, <2>2, SlotKinds
  <2>4. j # at
    BY <2>2, <2>3
  <2>5. PICK k \in Nat \ {0} : k = LfnCount[o]
    BY DirectoryAssumption
  <2>6. j - at \in 1 .. k /\ j - (j - at) = at
    BY <1>1, <2>1, <2>2, <2>4, <2>5
  <2>7. slots[j - (j - at)].tag = "lfn"
    <3>1. LongIn(slots, j, o)
      BY <2>1, OfNames
    <3>2. \A l \in 1 .. k : slots[j - l].tag = "lfn"
      BY <2>2, <2>5, <3>1, LongNameFacts
    <3> QED
      BY <2>6, <3>2
  <2> QED
    BY <2>3, <2>6, <2>7
<1>14. CASE at - 1 \in at + left - count .. at - 1
  <2>1. 1 \in left + 1 .. count
    BY <1>1, <1>5, <1>9, <1>14
  <2>2. slots[at + left - 1] = Lfn(call.name, 1, short)
    BY <1>4, <2>1 DEF Writing
  <2>3. at + left - 1 = at - 1
    BY <1>1, <1>9
  <2> QED
    BY <1>11, <2>2, <2>3 DEF Lfn
<1> QED
  BY <1>12, <1>13, <1>14

(* An entry is listed under the long name of another only after some call  *)
(* was interrupted or returned an error: only what such a call left behind *)
(* is ever adopted.                                                        *)
THEOREM OnlyLeftoversAreAdopted == DirSpec => []AdoptsLeftoversOnly
<1>1. DirInv /\ LostInv => AdoptsLeftoversOnly
  BY NoAdoptionYet DEF AdoptsLeftoversOnly
<1> QED
  BY <1>1, LostInvariant, DirectoryInvariant, PTL

(* Without any condition on the names: as long as no call has failed,      *)
(* every entry has one name of its own, and no name is listed twice.       *)
THEOREM NamesUntilAFailure == DirSpec => [](failed \/ (NamesInv /\ ListedOnce))
<1>1. DirInit => NamesInv
  BY NamesInitially
<1>2. failed /\ [DirNext]_dirVars => failed'
  BY DEF dirVars, DirNext, DirCall, DirStep, CreateFile, CreateNamedEntry, ReturnError,
         CreateDirectory, Remove, Rename, AllocateCluster, WriteDotEntries, NameDirectory,
         GrowDirectory, NoSpace, WriteSlot, UndoDirectory, DeleteSlot, FreeChain,
         DeviceError, PowerCut
<1>3. AdoptsLeftoversOnly /\ DirInv /\ (failed \/ NamesInv) /\ [DirNext]_dirVars =>
        (failed \/ NamesInv)'
  BY <1>2, NamesStep DEF AdoptsLeftoversOnly
<1>4. NamesInv => ListedOnce
  BY DEF NamesInv, EntriesNamed
<1> QED
  BY <1>1, <1>3, <1>4, OnlyLeftoversAreAdopted, DirectoryInvariant, PTL DEF DirSpec

-----------------------------------------------------------------------------
(* What is left of a run always fits: check_directory_capacity looked at   *)
(* the whole run before its first write.                                   *)
LEMMA RunFits ==
  ASSUME slots \in Seq(Slot), NEW n \in Names, NEW c \in Clusters \cup {NoCluster},
         FreeAliases(n) # {}, Fits(n), FixedRoot
  PROVE  /\ NewSlots(n, c) \in Seq(Slot) /\ Place(n).start \in Nat
         /\ Place(n).start + Len(NewSlots(n, c)) - 1 <= Len(slots)
<1>1. PICK count \in Nat : count = IF NeedsLfn(n) THEN LfnCount[n] ELSE 0
  BY DirectoryAssumption
<1>2. PICK short \in ShortNames : short = SelectShortName(n)
  BY SelectShortNameFacts
<1>3. PICK start \in Nat, reachedEnd \in BOOLEAN :
        /\ start = Place(n).start /\ reachedEnd = Place(n).reachedEnd
        /\ start = FreeEntries(count + 1).start /\ reachedEnd = FreeEntries(count + 1).reachedEnd
        /\ EndIndex \in 1 .. Len(slots) + 1 /\ Len(slots) \in Nat
        /\ ~ reachedEnd => start + (count + 1) <= EndIndex
  <2>1. EndIndex \in 1 .. Len(slots) + 1 /\ Len(slots) \in Nat
    BY EntriesFacts
  <2>2. count + 1 \in Nat \ {0}
    BY <1>1
  <2> QED
    BY <1>1, <2>1, <2>2, FreeEntriesFacts DEF Place
<1>4. start + count <= Len(slots)
  <2>1. CASE reachedEnd
    <3>1. HasCapacity(start, count + 1)
      BY <1>1, <1>3, <2>1 DEF Fits
    <3> QED
      BY <1>1, <1>3, <3>1 DEF HasCapacity
  <2>2. CASE ~ reachedEnd
    BY <1>1, <1>3, <2>2
  <2> QED
    BY <2>1, <2>2
<1>5. PICK q \in Seq(Slot) : q = NamedSlots(n, c, short, count) /\ Len(q) = count + 1
  BY <1>1, NamedSlotsFacts
<1>6. /\ Append(q, End) \in Seq(Slot) /\ Len(Append(q, End)) = count + 2
  BY <1>1, <1>5, SlotKinds
<1>7. \/ NewSlots(n, c) = q
      \/ NewSlots(n, c) = Append(q, End) /\ HasCapacity(start + (count + 1), 1)
  <2>1. NewSlots(n, c) =
          IF reachedEnd /\ HasCapacity(FreeEntries(count + 1).start + count + 1, 1)
            THEN Append(q, End) ELSE q
    BY <1>1, <1>2, <1>3, <1>5 DEF NewSlots
  <2>2. FreeEntries(count + 1).start + count + 1 = start + (count + 1)
    BY <1>1, <1>3
  <2> QED
    BY <2>1, <2>2
<1>8. CASE NewSlots(n, c) = q
  BY <1>1, <1>3, <1>4, <1>5, <1>8
<1>9. CASE NewSlots(n, c) = Append(q, End) /\ HasCapacity(start + (count + 1), 1)
  BY <1>1, <1>3, <1>6, <1>9 DEF HasCapacity
<1> QED
  BY <1>7, <1>8, <1>9

(* A write in a fixed root, and the end marker behind the last one, stays  *)
(* inside: write_directory_at never has to return DirectoryFull.           *)
THEOREM WritesFitTheRoot == DirSpec => []FitsRoot
<1>1. DirInit => FitsRoot
  BY DEF DirInit, FitsRoot
<1>2. DirInv /\ FitsRoot /\ [DirNext]_dirVars => FitsRoot'
  <2> SUFFICES ASSUME DirInv, FitsRoot, [DirNext]_dirVars, phase' = "write", FixedRoot
               PROVE  at' + Len(run') - 1 <= Len(slots')
    BY DEF FitsRoot
  <2>0. slots \in Seq(Slot) /\ run \in Seq(Slot) /\ LocalsOK /\ DirTypeOK
    BY DEF DirInv
  <2>1. CASE UNCHANGED dirVars
    BY <2>1 DEF dirVars, FitsRoot
  <2>2. ASSUME NEW n \in Names, CreateFile(n) PROVE at' + Len(run') - 1 <= Len(slots')
    <3>1. /\ Fits(n) /\ FreeAliases(n) # {} /\ slots' = slots
          /\ run' = NewSlots(n, NoCluster) /\ at' = Place(n).start
      BY <2>2 DEF CreateFile, CreateNamedEntry
    <3> QED
      BY <2>0, <3>1, RunFits
  <2>3. ASSUME NEW n \in Names, NEW m \in Names, Rename(n, m)
        PROVE  at' + Len(run') - 1 <= Len(slots')
    <3>1. PICK c : c = slots[FindEntry(n)].cluster
      OBVIOUS
    <3>2. /\ Fits(m) /\ FreeAliases(m) # {} /\ slots' = slots /\ Found(n) # {}
          /\ run' = NewSlots(m, c) /\ at' = Place(m).start
      BY <2>3, <3>1 DEF Rename, CreateNamedEntry
    <3>3. c \in Clusters \cup {NoCluster}
      BY <2>0, <3>1, <3>2, FoundFacts, EntriesFacts
    <3> QED
      BY <2>0, <3>2, <3>3, RunFits
  <2>4. CASE NameDirectory
    <3>1. /\ phase = "name" /\ call.name \in Names /\ FreeAliases(call.name) # {}
          /\ call.ref \in Clusters /\ slots' = slots
      BY <2>0, <2>4 DEF NameDirectory, LocalsOK
    <3>2. Fits(call.name) /\ run' = NewSlots(call.name, call.ref) /\ at' = Place(call.name).start
      BY <2>4, <3>1 DEF NameDirectory, CreateNamedEntry, ReturnError, Return
    <3> QED
      BY <2>0, <3>1, <3>2, RunFits
  <2>5. CASE WriteSlot
    <3>1. /\ phase = "write" /\ slots' = [slots EXCEPT ![at] = Head(run)]
          /\ Len(run) > 1 /\ run' = Tail(run) /\ at' = at + 1
      BY <2>5 DEF WriteSlot, Return
    <3>2. Len(run) \in Nat /\ Len(slots) \in Nat /\ at \in Nat /\ run # <<>>
      BY <2>0, <3>1 DEF DirTypeOK
    <3>3. Len(Tail(run)) = Len(run) - 1 /\ Len(slots') = Len(slots)
      BY <2>0, <3>1, <3>2
    <3>4. at + Len(run) - 1 <= Len(slots)
      BY <3>1 DEF FitsRoot
    <3> QED
      BY <3>1, <3>2, <3>3, <3>4
  <2>6. ASSUME ReturnError PROVE FALSE
    BY <2>6 DEF ReturnError, Return
  <2> QED
    BY <2>1, <2>2, <2>3, <2>4, <2>5, <2>6
    DEF DirNext, DirCall, DirStep, CreateDirectory, Remove, AllocateCluster, WriteDotEntries,
        GrowDirectory, NoSpace, UndoDirectory, DeleteSlot, FreeChain, DeviceError, PowerCut, Return
<1> QED
  BY <1>1, <1>2, DirectoryInvariant, PTL DEF DirSpec
=============================================================================
