------------------------ MODULE VolumeChains_proofs ------------------------
(***************************************************************************)
(* Proofs about VolumeChains: all calls of FileWrite and DirectoryWrite,   *)
(* on volumes of any size, with any number of entries that renames left.   *)
(*                                                                         *)
(* Most steps are steps of FatChains beside which only the composed call   *)
(* moves on, and FatChains_proofs says what those do.  Left are rename,    *)
(* which drops a handle, the cleanup of create_directory, and the call     *)
(* that is abandoned with a cluster it never stored.                       *)
(***************************************************************************)
EXTENDS VolumeChains, FatChains_proofs

-----------------------------------------------------------------------------
(* Which steps FatChains knows.                                            *)
LEMMA KnownStep ==
  ASSUME VolumeTypeOK, [VolumeNext]_volumeVars
  PROVE  \/ [Next]_vars
         \/ UndoDirectory \/ Abandon
         \/ \E o \in Owners : Rename(o)
<1>1. ASSUME NEW o \in Owners, CreateDirectory(o) PROVE [Next]_vars
  <2>1. 1 \in 1 .. MaxRequired
    BY ChainAssumption, VolumeAssumption
  <2> QED
    BY <1>1, <2>1 DEF CreateDirectory, Next, Call
<1>2. ASSUME NEW p \in Owners, NEW k \in 1 .. MaxRequired, GrowDirectory(p, k)
      PROVE  [Next]_vars
  BY <1>2 DEF GrowDirectory, Next, Call
<1>3. CASE PlainCall
  BY <1>3 DEF PlainCall, Next
<1>4. CASE RoutineStep
  BY <1>4 DEF RoutineStep, Next
<1>5. CASE PublishDirectory
  <2>1. subject \in Owners
    BY <1>5 DEF PublishDirectory, VolumeTypeOK
  <2> QED
    BY <1>5, <2>1 DEF PublishDirectory, Next, Call
<1>6. CASE DirectoryMade \/ PublishTwin \/ HideSource
  BY <1>6 DEF DirectoryMade, PublishTwin, HideSource
<1>7. CASE GrowthFails \/ RemountVolume
  BY <1>7 DEF GrowthFails, RemountVolume, Next, Interrupt
<1>8. CASE UNCHANGED volumeVars
  BY <1>8 DEF volumeVars
<1> QED
  BY <1>1, <1>2, <1>3, <1>4, <1>5, <1>6, <1>7, <1>8 DEF VolumeNext, ComposedStep
-----------------------------------------------------------------------------
(* On any image: types, the cluster the routine looks at, and the place of *)
(* the routine in the composed call.                                       *)
AlwaysInv == VolumeTypeOK /\ WalkInv /\ ComposedInv

LEMMA WalkKept == AlwaysInv /\ [VolumeNext]_volumeVars => WalkInv'
<1> SUFFICES ASSUME AlwaysInv, [VolumeNext]_volumeVars PROVE WalkInv'
  OBVIOUS
<1> USE ChainAssumption, MarkersDistinct
<1> USE DEF AlwaysInv, WalkInv, ChainTypeOK, PCs, IsLink, Return, chainVars, refVars, callVars
<1>1. CASE [Next]_vars
  BY <1>1, WalkNext
<1>2. CASE UndoDirectory
  <2>1. subject \in Owners /\ held[subject] \in Clusters
    BY <1>2 DEF UndoDirectory, VolumeTypeOK, ComposedInv
  <2> QED
    BY <1>2, <2>1 DEF UndoDirectory
<1>3. CASE Abandon
  <2>1. held' \in [Owners -> Clusters \cup {NoCluster}]
    <3>1. CASE doing \in {"make", "undo"}
      <4>1. subject \in Owners
        BY <3>1 DEF VolumeTypeOK
      <4> QED
        BY <1>3, <3>1, <4>1 DEF Abandon
    <3>2. CASE doing \notin {"make", "undo"}
      BY <1>3, <3>2 DEF Abandon
    <3> QED
      BY <3>1, <3>2
  <2> QED
    BY <1>3, <2>1 DEF Abandon
<1>4. ASSUME NEW o \in Owners, Rename(o) PROVE WalkInv'
  BY <1>4 DEF Rename
<1> QED
  BY <1>1, <1>2, <1>3, <1>4, KnownStep

(* The history variables are Booleans; Zenon needs them apart.             *)
LEMMA HistoryBoolean ==
  ASSUME VolumeTypeOK, [VolumeNext]_volumeVars
  PROVE  failed' \in BOOLEAN /\ lost' \in BOOLEAN /\ spoilt' \in BOOLEAN
<1>0. failed \in BOOLEAN /\ lost \in BOOLEAN /\ spoilt \in BOOLEAN
  BY DEF VolumeTypeOK, TypeOK
<1>1. CASE [Next]_vars
  BY <1>0, <1>1, FailedBoolean, Zenon
     DEF VolumeNext, ComposedStep, PlainCall, CreateDirectory, Rename, GrowDirectory,
         PublishDirectory, DirectoryMade, UndoDirectory, PublishTwin, HideSource,
         RoutineStep, GrowthFails, Abandon, RemountVolume, volumeVars, historyVars
<1>2. CASE UndoDirectory \/ Abandon \/ \E o \in Owners : Rename(o)
  BY <1>0, <1>2, Zenon DEF UndoDirectory, Abandon, Rename
<1> QED
  BY <1>1, <1>2, KnownStep

LEMMA TypesKept == AlwaysInv /\ [VolumeNext]_volumeVars => VolumeTypeOK'
<1> SUFFICES ASSUME AlwaysInv, [VolumeNext]_volumeVars PROVE VolumeTypeOK'
  OBVIOUS
<1>1. ChainTypeOK'
  BY WalkKept DEF WalkInv
<1>2. failed' \in BOOLEAN /\ lost' \in BOOLEAN /\ spoilt' \in BOOLEAN
  BY HistoryBoolean DEF AlwaysInv
<1> DEFINE Typed == /\ twin' \in [Twins -> Clusters \cup {NoCluster}]
                    /\ doing' \in Parts
                    /\ subject' \in Owners \cup {NoOwner}
                    /\ subject' = NoOwner <=> doing' = "nothing"
<1>3. Typed
  <2> USE ChainAssumption
  <2> USE DEF AlwaysInv, VolumeTypeOK, TypeOK, ChainTypeOK, Parts, Done, AfterError, composedVars
  <2>1. CASE PlainCall \/ UNCHANGED volumeVars
    BY <2>1 DEF PlainCall, volumeVars
  <2>2. ASSUME NEW o \in Owners, CreateDirectory(o) \/ Rename(o) PROVE Typed
    BY <2>2 DEF CreateDirectory, Rename
  <2>3. CASE \E p \in Owners, k \in 1 .. MaxRequired : GrowDirectory(p, k)
    BY <2>3 DEF GrowDirectory
  <2>4. CASE PublishTwin
    BY <2>4 DEF PublishTwin
  <2>5. CASE PublishDirectory \/ DirectoryMade \/ UndoDirectory \/ HideSource
    BY <2>5 DEF PublishDirectory, DirectoryMade, UndoDirectory, HideSource
  <2>6. CASE RoutineStep
    BY <2>6 DEF RoutineStep
  <2>7. CASE GrowthFails \/ Abandon \/ RemountVolume
    BY <2>7 DEF GrowthFails, Abandon, RemountVolume
  <2> QED
    BY <2>1, <2>2, <2>3, <2>4, <2>5, <2>6, <2>7 DEF VolumeNext, ComposedStep
<1> QED
  BY <1>1, <1>2, <1>3 DEF VolumeTypeOK, TypeOK

LEMMA ComposedKept == AlwaysInv /\ [VolumeNext]_volumeVars => ComposedInv'
<1> SUFFICES ASSUME AlwaysInv, [VolumeNext]_volumeVars PROVE ComposedInv'
  OBVIOUS
<1> USE ChainAssumption, MarkersDistinct
<1> USE DEF AlwaysInv, VolumeTypeOK, TypeOK, WalkInv, ChainTypeOK, Parts, ComposedInv,
            Return, ReturnError, chainVars, refVars, callVars, composedVars, Done
<1>1. CASE doing' = "nothing"
  BY <1>1
<1>2. CASE UNCHANGED volumeVars
  BY <1>2 DEF volumeVars, vars
<1>3. ASSUME NEW o \in Owners, CreateDirectory(o) \/ Rename(o) PROVE ComposedInv'
  BY <1>3 DEF CreateDirectory, Rename, EnsureChainLength
<1>4. ASSUME NEW p \in Owners, NEW k \in 1 .. MaxRequired, GrowDirectory(p, k)
      PROVE  ComposedInv'
  BY <1>4 DEF GrowDirectory, EnsureChainLength
<1>5. CASE PublishDirectory
  BY <1>5 DEF PublishDirectory, PersistFileInfo
<1>6. CASE PublishTwin
  BY <1>6 DEF PublishTwin, vars
<1>7. CASE RoutineStep /\ doing # "nothing"
  <2> USE <1>7 DEF RoutineStep, AfterError
  <2>1. CASE ChainTailAndLength
    BY <2>1 DEF ChainTailAndLength
  <2>2. CASE MarkAllocated
    BY <2>2 DEF MarkAllocated
  <2>3. CASE AllocationRefused
    BY <2>3 DEF AllocationRefused
  <2>4. CASE ClearCluster
    BY <2>4 DEF ClearCluster
  <2>5. CASE LinkCluster
    BY <2>5 DEF LinkCluster
  <2>6. CASE AdoptChain
    BY <2>6 DEF AdoptChain
  <2>7. CASE PersistShrink \/ ClusterAt \/ CutChain \/ FreeChain \/ DeleteFoundEntry
    BY <2>7 DEF PersistShrink, ClusterAt, CutChain, FreeChain, DeleteFoundEntry
  <2> QED
    BY <2>1, <2>2, <2>3, <2>4, <2>5, <2>6, <2>7 DEF Step
<1>8. CASE GrowthFails
  BY <1>8 DEF GrowthFails, AfterError, CallAborted
<1> QED
  BY <1>1, <1>2, <1>3, <1>4, <1>5, <1>6, <1>7, <1>8
     DEF VolumeNext, ComposedStep, PlainCall, DirectoryMade, UndoDirectory, HideSource,
         RoutineStep, Abandon, RemountVolume

LEMMA AlwaysNext == AlwaysInv /\ [VolumeNext]_volumeVars => AlwaysInv'
BY WalkKept, TypesKept, ComposedKept DEF AlwaysInv

LEMMA AlwaysInit == VolumeInit => AlwaysInv
<1> SUFFICES ASSUME VolumeInit PROVE AlwaysInv
  OBVIOUS
<1>1. WalkInv
  BY ChainInit DEF VolumeInit, ChainInv
<1>2. VolumeTypeOK
  BY <1>1, ChainAssumption DEF VolumeInit, Init, WalkInv, VolumeTypeOK, TypeOK, Parts
<1> QED
  BY <1>1, <1>2 DEF AlwaysInv, ComposedInv, VolumeInit
-----------------------------------------------------------------------------
(* A chain is spoilt for good.                                             *)
LEMMA SpoiltStays == VolumeTypeOK /\ [VolumeNext]_volumeVars /\ ~ spoilt' => ~ spoilt
BY Zenon
   DEF VolumeNext, ComposedStep, PlainCall, CreateDirectory, Rename, GrowDirectory,
       PublishDirectory, DirectoryMade, UndoDirectory, PublishTwin, HideSource,
       RoutineStep, GrowthFails, Abandon, RemountVolume, volumeVars, historyVars

(* What the cleanup of create_directory frees, while the entry is not      *)
(* visible: a chain that only the local `cluster` led to.                  *)
LEMMA UndoUnseen ==
  ASSUME AlwaysInv, UndoDirectory, ~ spoilt'
  PROVE  /\ subject \in Owners /\ held[subject] \in Clusters
         /\ entryFirst[subject] = NoCluster
         /\ held' = [held EXCEPT ![subject] = NoCluster]
         /\ pc = "idle" /\ pc' = "free" /\ owner' = subject
         /\ head' = held[subject] /\ cur' = held[subject] /\ count' = 1
         /\ UNCHANGED <<fat, dirty, entryFirst, need, tail, twin>>
<1>1. pc = "idle" /\ doing \in {"make", "undo"}
  BY DEF UndoDirectory
<1>2. subject \in Owners /\ owner # subject
  BY <1>1, ChainAssumption DEF AlwaysInv, VolumeTypeOK, TypeOK, ChainTypeOK
<1>3. held[subject] \in Clusters
  BY <1>1, <1>2 DEF AlwaysInv, ComposedInv, VolumeTypeOK, TypeOK, ChainTypeOK
<1> QED
  BY <1>1, <1>2, <1>3 DEF UndoDirectory, chainVars

(* What is left of a call that is abandoned: a handle learns nothing new.  *)
LEMMA AbandonForgets ==
  ASSUME AlwaysInv, Abandon
  PROVE  /\ \A o \in Owners : held'[o] \in {held[o], entryFirst[o]}
         /\ held' \in [Owners -> Clusters \cup {NoCluster}]
         /\ pc' = "idle" /\ head' = NoCluster /\ cur' = NoCluster /\ tail' = NoCluster
         /\ UNCHANGED <<fat, dirty, entryFirst, twin>>
<1>1. WalkInv'
  BY WalkKept DEF VolumeNext
<1>2. \A o \in Owners : held'[o] \in {held[o], entryFirst[o]}
  BY DEF Abandon, AlwaysInv, WalkInv, ChainTypeOK
<1> QED
  BY <1>1, <1>2 DEF Abandon, Return, chainVars, WalkInv, ChainTypeOK

LEMMA ChainKept == AlwaysInv /\ ChainInv /\ [VolumeNext]_volumeVars /\ ~ spoilt' => ChainInv'
<1> SUFFICES ASSUME AlwaysInv, ChainInv, [VolumeNext]_volumeVars, ~ spoilt' PROVE ChainInv'
  OBVIOUS
<1>0. WalkInv' /\ VolumeTypeOK
  BY WalkKept DEF AlwaysInv
<1> USE <1>0, MarkersDistinct
<1>1. CASE [Next]_vars
  BY <1>1, ChainNext
<1> USE DEF ChainInv, WalkInv, ChainTypeOK, ChainsDoNotCross, NothingDangles,
            HeadsAreHeads, NoStaleExposure, CallInv, OwnedBy, HasPredecessor,
            Referenced, IsLink, InUse
<1>2. CASE UndoDirectory
  BY <1>2, UndoUnseen
<1>3. CASE Abandon
  <2>1. \A o \in Owners : held'[o] \in {held[o], entryFirst[o]}
    BY <1>3, AbandonForgets
  <2> QED
    BY <1>3, <2>1, AbandonForgets
<1>4. ASSUME NEW o \in Owners, Rename(o) PROVE ChainInv'
  BY <1>4 DEF Rename, chainVars, callVars
<1> QED
  BY <1>1, <1>2, <1>3, <1>4, KnownStep

LEMMA TwinKept ==
  AlwaysInv /\ ChainInv /\ TwinInv /\ [VolumeNext]_volumeVars /\ ~ spoilt' => TwinInv'
<1> SUFFICES ASSUME AlwaysInv, ChainInv, TwinInv, [VolumeNext]_volumeVars, ~ spoilt'
             PROVE  TwinInv'
  OBVIOUS
<1>0. ~ spoilt
  BY SpoiltStays DEF AlwaysInv
<1> USE <1>0, ChainAssumption, MarkersDistinct
<1> USE DEF AlwaysInv, VolumeTypeOK, TypeOK, WalkInv, ChainTypeOK, Parts, ComposedInv,
            TwinInv, TwinClusters, HasPredecessor, IsLink, InUse,
            Return, ReturnError, chainVars, refVars, callVars, composedVars, historyVars,
            Done
<1>1. CASE PlainCall
  BY <1>1 DEF PlainCall, Call, EnsureChainLength, BeginShrink, PersistFileInfo, BeginRemove
<1>2. ASSUME NEW o \in Owners, CreateDirectory(o) PROVE TwinInv'
  BY <1>2 DEF CreateDirectory, EnsureChainLength
<1>3. ASSUME NEW o \in Owners, Rename(o) PROVE TwinInv'
  BY <1>3 DEF Rename
<1>4. ASSUME NEW p \in Owners, NEW k \in 1 .. MaxRequired, GrowDirectory(p, k)
      PROVE  TwinInv'
  BY <1>4 DEF GrowDirectory, EnsureChainLength
<1>5. CASE PublishDirectory
  BY <1>5 DEF PublishDirectory, PersistFileInfo
<1>6. CASE DirectoryMade
  BY <1>6 DEF DirectoryMade, vars
<1>7. CASE UndoDirectory
  BY <1>7, UndoUnseen DEF UndoDirectory
<1>8. CASE PublishTwin
  <2>1. InUse(entryFirst[subject]) /\ ~ HasPredecessor(entryFirst[subject])
        /\ entryFirst[subject] \notin dirty
    BY <1>8 DEF PublishTwin, ChainInv, NothingDangles, HeadsAreHeads, NoStaleExposure, Referenced
  <2>2. PICK t \in Twins : /\ twin[t] = NoCluster
                           /\ twin' = [twin EXCEPT ![t] = entryFirst[subject]]
    BY <1>8 DEF PublishTwin
  <2>3. failed \/ TwinClusters = {}
    BY <1>8 DEF PublishTwin
  <2>4. failed \/ \A u \in Twins \ {t} : twin'[u] = NoCluster
    BY <2>2, <2>3
  <2>5. \A c \in TwinClusters' : c \in TwinClusters \/ c = entryFirst[subject]
    BY <2>2
  <2> QED
    BY <1>8, <2>1, <2>4, <2>5 DEF PublishTwin, vars
<1>9. CASE HideSource
  <2>1. PICK t \in Twins : /\ twin[t] = entryFirst[subject]
                           /\ twin' = [twin EXCEPT ![t] = NoCluster]
    BY <1>9 DEF HideSource
  <2>2. twin[t] # NoCluster
    BY <1>9, <2>1 DEF HideSource
  <2>3. failed \/ \A u \in Twins \ {t} : twin[u] = NoCluster
    BY <2>2
  <2>4. failed' \/ TwinClusters' = {}
    BY <1>9, <2>1, <2>3 DEF HideSource, vars
  <2> QED
    BY <1>9, <2>1, <2>4 DEF HideSource, vars
<1>10. CASE RoutineStep
  <2> USE <1>10 DEF RoutineStep, AfterError
  <2>1. CASE ChainTailAndLength
    BY <2>1 DEF ChainTailAndLength
  <2>2. CASE MarkAllocated
    <3>1. PICK n \in Clusters : /\ fat[n] = Free /\ cur' = n
                                /\ fat' = [fat EXCEPT ![n] = EndOfChain]
      BY <2>2 DEF MarkAllocated, IsNextFree
    <3>2. ~ InUse(n)
      BY <3>1 DEF Free, EndOfChain
    <3>3. \A c \in TwinClusters : c \in Clusters /\ c # n
      BY <3>2
    <3>4. \A c \in TwinClusters : InUse(c)' /\ ~ HasPredecessor(c)'
      BY <3>1, <3>3
    <3> QED
      BY <2>2, <3>1, <3>3, <3>4 DEF MarkAllocated
  <2>3. CASE AllocationRefused
    BY <2>3 DEF AllocationRefused
  <2>4. CASE ClearCluster
    BY <2>4 DEF ClearCluster
  <2>5. CASE LinkCluster
    BY <2>5 DEF LinkCluster
  <2>6. CASE AdoptChain
    BY <2>6 DEF AdoptChain
  <2>7. CASE PersistShrink
    <3>1. pc = "shrink" /\ (pc' = "free" => head \notin TwinClusters)
      BY <2>7, Zenon DEF PersistShrink
    <3>2. /\ doing = "nothing" /\ cur' = head /\ pc' \in {"free", "seek"}
          /\ UNCHANGED <<fat, dirty, twin, doing, subject, failed>>
      BY <2>7, <3>1 DEF PersistShrink
    <3> HIDE <1>10
    <3> QED
      BY <3>1, <3>2
  <2>8. CASE ClusterAt
    BY <2>8 DEF ClusterAt
  <2>9. CASE CutChain
    <3>1. /\ doing = "nothing" /\ tail \in Clusters /\ cur' = fat[tail] /\ pc' = "free"
          /\ fat' = [fat EXCEPT ![tail] = EndOfChain]
          /\ UNCHANGED <<dirty, twin, doing, subject, failed>>
      BY <2>9 DEF CutChain
    <3>2. \A c \in TwinClusters : c # fat[tail] /\ InUse(c)' /\ ~ HasPredecessor(c)'
      BY <3>1
    <3> HIDE <1>10
    <3> QED
      BY <3>1, <3>2
  <2>10. CASE FreeChain
    BY <2>10 DEF FreeChain
  <2>11. CASE DeleteFoundEntry
    BY <2>11 DEF DeleteFoundEntry
  <2> QED
    BY <2>1, <2>2, <2>3, <2>4, <2>5, <2>6, <2>7, <2>8, <2>9, <2>10, <2>11 DEF Step
<1>11. CASE GrowthFails
  BY <1>11 DEF GrowthFails, AfterError, CallAborted
<1>12. CASE Abandon
  BY <1>12 DEF Abandon
<1>13. CASE RemountVolume
  BY <1>13 DEF RemountVolume, Remount
<1>14. CASE UNCHANGED volumeVars
  BY <1>14 DEF volumeVars, vars
<1> QED
  BY <1>1, <1>2, <1>3, <1>4, <1>5, <1>6, <1>7, <1>8, <1>9, <1>10, <1>11, <1>12,
     <1>13, <1>14 DEF VolumeNext, ComposedStep
-----------------------------------------------------------------------------
(* Where the locals of a call hang, and what its walk has counted.         *)
LEMMA WalksKept ==
  ASSUME AlwaysInv, ChainInv, PathInv, WalkedInv, [VolumeNext]_volumeVars, ~ spoilt'
  PROVE  PathInv' /\ WalkedInv'
<1>0. VolumeTypeOK
  BY DEF AlwaysInv
<1>1. CASE [Next]_vars
  BY <1>1, PathNext, WalkedNext
<1>2. CASE UndoDirectory
  <2>1. /\ pc' = "free" /\ head' = cur' /\ cur' # NoCluster /\ count' = 1
    BY <1>2, UndoUnseen, MarkersDistinct
  <2>2. {} \in SUBSET Clusters /\ Cardinality({}) = count' - 1
    BY <2>1, FS_EmptySet
  <2>3. WalkedInv'
    BY <2>1, <2>2 DEF WalkedInv
  <2> QED
    BY <2>1, <2>3 DEF PathInv
<1>3. CASE Abandon
  BY <1>3, AbandonForgets DEF PathInv, WalkedInv
<1>4. ASSUME NEW o \in Owners, Rename(o) PROVE PathInv' /\ WalkedInv'
  BY <1>4 DEF Rename, callVars, PathInv, WalkedInv
<1> QED
  BY <1>0, <1>1, <1>2, <1>3, <1>4, KnownStep

(* A step that loses no cluster.                                           *)
LEMMA QuietStep ==
  ASSUME VolumeTypeOK, [VolumeNext]_volumeVars, ~ lost'
  PROVE  /\ ~ lost
         /\ \/ (Call \/ Step) /\ ~ LeavesClusters
            \/ UNCHANGED <<chainVars, refVars, callVars>>
            \/ UndoDirectory
<1>1. ~ lost
  BY Zenon
     DEF VolumeNext, ComposedStep, PlainCall, CreateDirectory, Rename, GrowDirectory,
         PublishDirectory, DirectoryMade, UndoDirectory, PublishTwin, HideSource,
         RoutineStep, GrowthFails, Abandon, RemountVolume, volumeVars, historyVars
<1> DEFINE Quiet == (Call \/ Step) /\ ~ LeavesClusters
           Same == UNCHANGED <<chainVars, refVars, callVars>>
<1>2. ASSUME NEW o \in Owners, NEW k \in 1 .. MaxRequired, EnsureChainLength(o, k)
      PROVE  Quiet
  BY <1>2 DEF EnsureChainLength, Call, LeavesClusters
<1>3. ASSUME NEW o \in Owners, CreateDirectory(o) PROVE Quiet
  <2>1. 1 \in 1 .. MaxRequired
    BY ChainAssumption, VolumeAssumption
  <2> QED
    BY <1>2, <1>3, <2>1 DEF CreateDirectory
<1>4. ASSUME NEW p \in Owners, NEW k \in 1 .. MaxRequired, GrowDirectory(p, k)
      PROVE  Quiet
  BY <1>2, <1>4 DEF GrowDirectory
<1>5. ASSUME PublishDirectory PROVE Quiet
  <2>1. subject \in Owners
    BY <1>5 DEF PublishDirectory, VolumeTypeOK
  <2> QED
    BY <1>5, <2>1 DEF PublishDirectory, PersistFileInfo, Call, LeavesClusters, callVars
<1>6. ASSUME PlainCall PROVE Quiet
  <2>1. lost' = (lost \/ LeavesClusters)
    BY <1>6, Zenon DEF PlainCall
  <2>2. ~ LeavesClusters
    BY <2>1, Zenon
  <2> QED
    BY <1>6, <2>2 DEF PlainCall
<1>7. ASSUME RoutineStep PROVE Quiet
  <2>1. lost' = (lost \/ LeavesClusters)
    BY <1>7, Zenon DEF RoutineStep
  <2>2. ~ LeavesClusters
    BY <2>1, Zenon
  <2> QED
    BY <1>7, <2>2 DEF RoutineStep
<1>8. ASSUME NEW o \in Owners, Rename(o) PROVE Same
  <2>1. lost' = (lost \/ held[o] # entryFirst[o])
    BY <1>8, Zenon DEF Rename
  <2>2. held[o] = entryFirst[o]
    BY <2>1, Zenon
  <2> QED
    BY <1>8, <2>2 DEF Rename, VolumeTypeOK, TypeOK, ChainTypeOK, refVars
<1>9. ASSUME DirectoryMade \/ PublishTwin \/ HideSource \/ UNCHANGED volumeVars
      PROVE  Same
  BY <1>9 DEF DirectoryMade, PublishTwin, HideSource, volumeVars, vars
<1>10. ASSUME GrowthFails \/ Abandon \/ RemountVolume PROVE FALSE
  BY <1>10, Zenon DEF GrowthFails, Abandon, RemountVolume
<1> QED
  BY <1>1, <1>3, <1>4, <1>5, <1>6, <1>7, <1>8, <1>9, <1>10 DEF VolumeNext, ComposedStep

(* The cleanup of create_directory takes over what only its local knew.    *)
LEMMA UndoKeeps ==
  ASSUME AlwaysInv, PathInv, UndoDirectory, ~ spoilt'
  PROVE  (EntryLags => EntryLags') /\ (Covered => Covered')
<1>1. /\ subject \in Owners /\ entryFirst[subject] = NoCluster
      /\ held' = [held EXCEPT ![subject] = NoCluster]
      /\ pc = "idle" /\ cur' = held[subject]
      /\ UNCHANGED <<fat, entryFirst>>
  BY UndoUnseen
<1>2. \A p \in Owners : p # subject => held'[p] = held[p]
  BY <1>1 DEF AlwaysInv, WalkInv, ChainTypeOK
<1>3. EntryLags => EntryLags'
  BY <1>1, <1>2 DEF EntryLags
<1>4. ASSUME Covered, NEW S \in SUBSET Clusters,
             \A c \in S : IsLink(fat[c]) => fat[c] \in S,
             \A c \in Clusters : c \in Roots' => c \in S
      PROVE  \A c \in Clusters : InUse(c) => c \in S
  <2>1. /\ \A o \in Owners : /\ entryFirst'[o] \in Roots'
                             /\ held'[o] \in Roots'
        /\ cur' \in Roots'
    BY DEF Roots
  <2>2. \A c \in Clusters : \A o \in Owners :
          (c = entryFirst[o] \/ c = held[o]) => c \in S
    BY <1>1, <1>2, <1>4, <2>1
  <2>3. head \notin Clusters /\ cur \notin Clusters
    BY <1>1, MarkersDistinct DEF PathInv
  <2>4. \A c \in Clusters : c \in Roots => c \in S
    BY <2>2, <2>3 DEF Roots
  <2> QED
    BY <1>4, <2>4 DEF Covered
<1>5. Covered => Covered'
  BY <1>1, <1>4 DEF Covered, InUse, IsLink
<1> QED
  BY <1>3, <1>5

(* While no cluster is lost, entries lag handles by what a call is about   *)
(* to store or release, and every cluster in use is reached.               *)
LEMMA NoneLost ==
  ASSUME AlwaysInv, ChainInv, PathInv, WalkedInv, lost \/ EntryLags, lost \/ Covered,
         [VolumeNext]_volumeVars, ~ spoilt'
  PROVE  (lost \/ EntryLags)' /\ (lost \/ Covered)'
<1> SUFFICES ASSUME ~ lost' PROVE EntryLags' /\ Covered'
  OBVIOUS
<1>0. VolumeTypeOK
  BY DEF AlwaysInv
<1>1. EntryLags /\ Covered
  BY <1>0, QuietStep
<1>2. CASE (Call \/ Step) /\ ~ LeavesClusters
  BY <1>1, <1>2, EntryLagsNext, CoveredStep
<1>3. CASE UNCHANGED <<chainVars, refVars, callVars>>
  BY <1>1, <1>3
     DEF EntryLags, Covered, Roots, InUse, IsLink, chainVars, refVars, callVars
<1>4. CASE UndoDirectory
  BY <1>1, <1>4, UndoKeeps
<1> QED
  BY <1>0, <1>2, <1>3, <1>4, QuietStep
-----------------------------------------------------------------------------
(* The inductive invariant: VolumeInv and, said without recursion, that no *)
(* cluster in use is out of reach.                                         *)
LongInv ==
  /\ AlwaysInv
  /\ spoilt \/ /\ ChainInv /\ TwinInv /\ PathInv /\ WalkedInv
               /\ lost \/ EntryLags
               /\ lost \/ Covered

LEMMA LongInit == VolumeInit => LongInv
<1> SUFFICES ASSUME VolumeInit PROVE LongInv
  OBVIOUS
<1>1. Init /\ AlwaysInv /\ ChainInv /\ PathInv
  BY AlwaysInit, ChainInit, PathInit DEF VolumeInit
<1>2. WalkedInv /\ EntryLags
  BY <1>1 DEF Init, NoCall, WalkedInv, EntryLags
<1>3. Covered
  <2>1. AllReached
    BY <1>1, Zenon DEF Init, NoLeak
  <2> QED
    BY <1>1, <2>1, CoveredIsNoLeak DEF Init
<1>4. TwinInv
  <2>1. TwinClusters = {} /\ doing = "nothing"
    BY DEF VolumeInit, TwinClusters
  <2> QED
    BY <2>1 DEF TwinInv
<1> QED
  BY <1>1, <1>2, <1>3, <1>4 DEF LongInv

LEMMA LongNext == LongInv /\ [VolumeNext]_volumeVars => LongInv'
<1> SUFFICES ASSUME LongInv, [VolumeNext]_volumeVars PROVE LongInv'
  OBVIOUS
<1>1. AlwaysInv /\ VolumeTypeOK /\ AlwaysInv'
  BY AlwaysNext DEF LongInv, AlwaysInv
<1>2. ASSUME ~ spoilt'
      PROVE  /\ ChainInv' /\ TwinInv' /\ PathInv' /\ WalkedInv'
             /\ (lost \/ EntryLags)' /\ (lost \/ Covered)'
  <2>1. /\ ChainInv /\ TwinInv /\ PathInv /\ WalkedInv
        /\ lost \/ EntryLags
        /\ lost \/ Covered
    BY <1>1, <1>2, SpoiltStays DEF LongInv
  <2> QED
    BY <1>1, <1>2, <2>1, ChainKept, TwinKept, WalksKept, NoneLost
<1> QED
  BY <1>1, <1>2 DEF LongInv

(* Every call, at every device write and however calls were interrupted,   *)
(* keeps the invariant, until a chain is freed under a visible entry.      *)
THEOREM LongInvariant == VolumeSpec => []LongInv
BY LongInit, LongNext, PTL DEF VolumeSpec

(* The part of it that the run checks: types, what the running call relies *)
(* on, consistency, and how far the walks have come.                       *)
THEOREM VolumeInvariant == VolumeSpec => []VolumeInv
<1>1. LongInv => VolumeInv
  BY DEF LongInv, AlwaysInv, VolumeInv
<1> QED
  BY <1>1, LongInvariant, PTL

(* A cluster has one predecessor, however create_directory, rename and the *)
(* other calls are interrupted, as long as no chain is freed under a       *)
(* visible entry.                                                          *)
THEOREM ChainsStayApart == VolumeSpec => []NoCrossedChains
<1>1. LongInv => NoCrossedChains
  BY DEF LongInv, ChainInv, NoCrossedChains
<1> QED
  BY <1>1, LongInvariant, PTL

(* No entry, handle or link leads to a free cluster, under the same        *)
(* proviso.                                                                *)
THEOREM NothingLeadsAstray == VolumeSpec => []NoDanglingEntry
<1>1. LongInv => NoDanglingEntry
  BY DEF LongInv, ChainInv, TwinInv, NoDanglingEntry
<1> QED
  BY <1>1, LongInvariant, PTL

(* A chain has one entry, but for the second one that rename writes: it is *)
(* there from that write to the deletion of the source, or for good where  *)
(* a rename ended in between.                                              *)
THEOREM SharingIsRenames == VolumeSpec => []OnlyRenameShares
<1>1. LongInv => OnlyRenameShares
  <2> SUFFICES ASSUME LongInv, ~ spoilt PROVE OnlyRenameShares
    BY DEF OnlyRenameShares
  <2>1. ChainInv /\ TwinInv
    BY DEF LongInv
  <2>2. failed \/ doing = "renamed" \/ TwinClusters = {}
    BY <2>1 DEF TwinInv
  <2> QED
    BY <2>1, <2>2 DEF ChainInv, TwinInv, OnlyRenameShares
<1> QED
  BY <1>1, LongInvariant, PTL

(* A cluster that an entry, a handle or a chain leads to holds no bytes of *)
(* a former owner, under the same proviso.                                 *)
THEOREM NoStaleByteShows == VolumeSpec => []NoStaleBytes
<1>1. LongInv => NoStaleBytes
  BY DEF LongInv, ChainInv, TwinInv, NoStaleBytes
<1> QED
  BY <1>1, LongInvariant, PTL

(* CorruptChain is not reported for what the library wrote, rename and     *)
(* create_directory included, under the same proviso.                      *)
THEOREM WalksReachTheEnd == VolumeSpec => []WalksComplete
<1>1. LongInv => WalksComplete
  BY WalkedIsSound DEF LongInv, WalksComplete
<1> QED
  BY <1>1, LongInvariant, PTL

(* As long as no call was interrupted, clusters stay in use for nobody in  *)
(* the two cases of LeavesClusters only, and where a rename ends the use   *)
(* of a handle whose chain was not stored.                                 *)
THEOREM LeaksAreKnown == VolumeSpec => []OnlyKnownLeaks
<1>1. LongInv => OnlyKnownLeaks
  <2> SUFFICES ASSUME LongInv, ~ spoilt, ~ lost PROVE AllReached
    BY DEF OnlyKnownLeaks
  <2>1. Covered /\ fat \in [Clusters -> FatEntries]
    BY DEF LongInv, ChainInv, WalkInv, ChainTypeOK
  <2> QED
    BY <2>1, CoveredIsNoLeak
<1> QED
  BY <1>1, LongInvariant, PTL

(* A call leaves the chains of the entries it does not work for, and their *)
(* bytes, as they are, until it frees a chain under a second entry.        *)
THEOREM OthersStayWhole == VolumeSpec => OtherChainsKept
<1>1. ASSUME LongInv, [VolumeNext]_volumeVars, ~ spoilt' PROVE OthersKeptByStep
  <2>1. AlwaysInv /\ VolumeTypeOK /\ ChainInv /\ PathInv
    BY <1>1, SpoiltStays DEF LongInv, AlwaysInv
  <2>2. CASE [Next]_vars
    BY <2>1, <2>2, OthersStep DEF OthersKeptByStep
  <2>3. CASE UNCHANGED <<fat, dirty, entryFirst>>
    BY <2>3 DEF OthersKeptByStep
  <2>4. UndoDirectory \/ Abandon \/ (\E o \in Owners : Rename(o)) =>
          UNCHANGED <<fat, dirty, entryFirst>>
    BY DEF UndoDirectory, Abandon, Rename, chainVars
  <2> QED
    BY <1>1, <2>1, <2>2, <2>3, <2>4, KnownStep
<1>2. LongInv /\ [VolumeNext]_volumeVars => [spoilt' \/ OthersKeptByStep]_volumeVars
  BY <1>1
<1> QED
  BY <1>2, LongInvariant, PTL DEF VolumeSpec, OtherChainsKept
=============================================================================
