-------------------------- MODULE FatChains_proofs --------------------------
(***************************************************************************)
(* Proofs about FatChains, for every number of clusters and every set of   *)
(* owners.  What they say of Spec they say of the calls of that module:    *)
(* FileWrites_proofs and VolumeChains_proofs use them, step by step, for   *)
(* the calls of the library.                                               *)
(*                                                                         *)
(* WalkInv holds on any image: it says which cluster a running call is     *)
(* looking at.  ChainInv holds on a volume that was consistent when it was *)
(* mounted: it adds to the four safety invariants what a running call may  *)
(* assume of the clusters it has not linked yet, or has unlinked already.  *)
(*                                                                         *)
(* Reach is the least set of clusters that holds the roots and goes with   *)
(* each cluster to the next one.  From that characterisation the rest      *)
(* follows: the walks do not run out of their bound (NeverCorrupt), a call *)
(* leaves the other chains alone (OthersUntouched), and which clusters     *)
(* stay in use for nobody (NoLeak, LeavesClusters).                        *)
(***************************************************************************)
EXTENDS FatChains, NaturalSets

-----------------------------------------------------------------------------
(* Markers are not clusters.                                               *)
LEMMA MarkersDistinct ==
  /\ NoCluster \notin Clusters /\ Free \notin Clusters
  /\ EndOfChain \notin Clusters /\ Reserved \notin Clusters /\ Bad \notin Clusters
  /\ Clusters \subseteq FatEntries
BY ChainAssumption DEF NoCluster, Free, EndOfChain, Reserved, Bad, Clusters, FatEntries

(* Whatever the image, a volume without a running call satisfies WalkInv.  *)
LEMMA WalkInit == CorruptInit => WalkInv
BY ChainAssumption DEF CorruptInit, NoCall, WalkInv, ChainTypeOK, PCs, NoCluster

(* Every step keeps WalkInv: a walk goes on from a cluster to a cluster,   *)
(* because next_cluster refuses everything else.                           *)
LEMMA WalkNext == WalkInv /\ [Next]_vars => WalkInv'
<1> SUFFICES ASSUME WalkInv, [Next]_vars PROVE WalkInv'
  OBVIOUS
<1> USE MarkersDistinct, ChainAssumption
<1> USE DEF WalkInv, ChainTypeOK, PCs, vars, chainVars, refVars, callVars, IsLink, InUse, Return, ReturnError
<1>1. ASSUME NEW o \in Owners, NEW k \in 1 .. MaxRequired, EnsureChainLength(o, k)
      PROVE  WalkInv'
  <2>1. held[o] \in Clusters \cup {NoCluster} /\ k \in 0 .. MaxRequired
    OBVIOUS
  <2>2. CASE held[o] = NoCluster
    BY <1>1, <2>1, <2>2 DEF EnsureChainLength
  <2>3. CASE held[o] # NoCluster
    BY <1>1, <2>1, <2>3 DEF EnsureChainLength
  <2> QED
    BY <2>2, <2>3
<1>2. ASSUME NEW o \in Owners, NEW k \in 0 .. MaxRequired, BeginShrink(o, k)
      PROVE  WalkInv'
  BY <1>2 DEF BeginShrink
<1>3. ASSUME NEW o \in Owners, PersistFileInfo(o) PROVE WalkInv'
  BY <1>3 DEF PersistFileInfo
<1>4. ASSUME NEW o \in Owners, BeginRemove(o) PROVE WalkInv'
  BY <1>4 DEF BeginRemove
<1>5. CASE ChainTailAndLength
  BY <1>5 DEF ChainTailAndLength
<1>6. CASE MarkAllocated
  <2>1. PICK c \in Clusters : /\ fat[c] = Free /\ cur' = c
                              /\ fat' = [fat EXCEPT ![c] = EndOfChain]
    BY <1>6 DEF MarkAllocated, IsNextFree
  <2>2. c # tail
    BY <1>6, <2>1 DEF MarkAllocated, Free, EndOfChain, NoCluster
  <2>3. fat' \in [Clusters -> FatEntries]
    BY <2>1 DEF FatEntries
  <2> QED
    BY <1>6, <2>1, <2>2, <2>3 DEF MarkAllocated
<1>7. CASE AllocationRefused
  BY <1>7 DEF AllocationRefused
<1>8. CASE ClearCluster
  BY <1>8 DEF ClearCluster
<1>9. CASE LinkCluster
  BY <1>9 DEF LinkCluster
<1>10. CASE AdoptChain
  BY <1>10 DEF AdoptChain
<1>11. CASE PersistShrink
  BY <1>11 DEF PersistShrink
<1>12. CASE ClusterAt
  BY <1>12 DEF ClusterAt
<1>13. CASE CutChain
  <2>1. fat' \in [Clusters -> FatEntries]
    BY <1>13 DEF CutChain, FatEntries
  <2>2. fat[tail] \in Clusters
    BY <1>13 DEF CutChain
  <2> QED
    BY <1>13, <2>1, <2>2 DEF CutChain
<1>14. CASE FreeChain
  <2>1. CASE ~ InUse(cur)
    BY <1>14, <2>1 DEF FreeChain
  <2>2. CASE InUse(cur)
    <3>1. fat' \in [Clusters -> FatEntries] /\ dirty' \subseteq Clusters
      BY <1>14, <2>2 DEF FreeChain, FatEntries
    <3>2. CASE IsLink(fat[cur]) /\ count < ClusterCount
      BY <1>14, <2>2, <3>1, <3>2 DEF FreeChain
    <3>3. CASE ~ (IsLink(fat[cur]) /\ count < ClusterCount)
      BY <1>14, <2>2, <3>1, <3>3 DEF FreeChain
    <3> QED
      BY <3>2, <3>3
  <2> QED
    BY <2>1, <2>2
<1>15. CASE DeleteFoundEntry
  BY <1>15 DEF DeleteFoundEntry
<1>16. CASE CallAborted
  BY <1>16 DEF CallAborted
<1>17. CASE Remount
  BY <1>17 DEF Remount
<1>18. CASE UNCHANGED vars
  BY <1>18
<1> QED
  BY <1>1, <1>2, <1>3, <1>4, <1>5, <1>6, <1>7, <1>8, <1>9, <1>10, <1>11, <1>12,
     <1>13, <1>14, <1>15, <1>16, <1>17, <1>18
     DEF Next, Call, Step, Interrupt

-----------------------------------------------------------------------------
(* A consistent volume satisfies the strengthened invariant.               *)
LEMMA ChainInit == Init => ChainInv
<1> SUFFICES ASSUME Init PROVE ChainInv
  OBVIOUS
<1>1. WalkInv
  BY ChainAssumption DEF Init, NoCall, WalkInv, ChainTypeOK, PCs, NoCluster
<1>2. NoStaleExposure
  BY MarkersDistinct
     DEF Init, NoStaleExposure, NothingDangles, HasPredecessor, Referenced, InUse,
         IsLink, Free, EndOfChain, NoCluster
<1>3. CallInv
  BY DEF Init, NoCall, CallInv
<1> QED
  BY <1>1, <1>2, <1>3 DEF Init, ChainInv

(* Every step keeps it, the interruptions of a call included.              *)
LEMMA ChainNext == ChainInv /\ [Next]_vars => ChainInv'
<1> SUFFICES ASSUME ChainInv, [Next]_vars PROVE ChainInv'
  OBVIOUS
<1>0. WalkInv'
  BY WalkNext DEF ChainInv
<1> USE <1>0, MarkersDistinct
<1> USE DEF ChainInv, WalkInv, ChainTypeOK, ChainsDoNotCross, NothingDangles,
            HeadsAreHeads, NoStaleExposure, CallInv, OwnedBy, HasPredecessor,
            Referenced, IsLink, InUse, vars, chainVars, refVars, callVars, Return,
            ReturnError
<1>1. ASSUME NEW o \in Owners, NEW k \in 1 .. MaxRequired, EnsureChainLength(o, k)
      PROVE  ChainInv'
  BY <1>1 DEF EnsureChainLength
<1>2. ASSUME NEW o \in Owners, NEW k \in 0 .. MaxRequired, BeginShrink(o, k)
      PROVE  ChainInv'
  BY <1>2 DEF BeginShrink
<1>3. ASSUME NEW o \in Owners, PersistFileInfo(o) PROVE ChainInv'
  BY <1>3 DEF PersistFileInfo
<1>4. ASSUME NEW o \in Owners, BeginRemove(o) PROVE ChainInv'
  BY <1>4 DEF BeginRemove
<1>5. CASE ChainTailAndLength
  BY <1>5 DEF ChainTailAndLength
<1>6. CASE MarkAllocated
  <2>1. PICK c \in Clusters : /\ fat[c] = Free /\ cur' = c
                              /\ fat' = [fat EXCEPT ![c] = EndOfChain]
    BY <1>6 DEF MarkAllocated, IsNextFree
  <2>2. ~ InUse(c)
    BY <2>1 DEF Free, EndOfChain
  <2>3. \A d \in Clusters : fat[d] # c
    BY <2>2
  <2>4. ~ Referenced(c) /\ c # head
    BY <1>6, <2>2 DEF MarkAllocated, NoCluster
  <2>5. \A d \in Clusters : InUse(d) => InUse(d)'
    BY <2>1
  <2> QED
    BY <1>6, <2>1, <2>2, <2>3, <2>4, <2>5 DEF MarkAllocated
<1>7. CASE AllocationRefused
  BY <1>7 DEF AllocationRefused
<1>8. CASE ClearCluster
  BY <1>8 DEF ClearCluster
<1>9. CASE LinkCluster
  BY <1>9 DEF LinkCluster
<1>10. CASE AdoptChain
  BY <1>10 DEF AdoptChain
<1>11. CASE PersistShrink
  BY <1>11 DEF PersistShrink
<1>12. CASE ClusterAt
  BY <1>12 DEF ClusterAt
<1>13. CASE CutChain
  BY <1>13 DEF CutChain
<1>14. CASE FreeChain
  BY <1>14 DEF FreeChain
<1>15. CASE DeleteFoundEntry
  BY <1>15 DEF DeleteFoundEntry
<1>16. CASE CallAborted
  BY <1>16 DEF CallAborted
<1>17. CASE Remount
  BY <1>17 DEF Remount
<1>18. CASE UNCHANGED vars
  BY <1>18
<1> QED
  BY <1>1, <1>2, <1>3, <1>4, <1>5, <1>6, <1>7, <1>8, <1>9, <1>10, <1>11, <1>12,
     <1>13, <1>14, <1>15, <1>16, <1>17, <1>18
     DEF Next, Call, Step, Interrupt

(* The history variable is a Boolean; Zenon needs it apart from the rest.  *)
LEMMA FailedBoolean == failed \in BOOLEAN /\ [Next]_vars => failed' \in BOOLEAN
BY Zenon
   DEF Next, Call, Step, Interrupt, vars, chainVars, refVars, callVars, ReturnError,
       EnsureChainLength, BeginShrink, PersistFileInfo, BeginRemove,
       ChainTailAndLength, MarkAllocated, AllocationRefused, ClearCluster,
       LinkCluster, AdoptChain, PersistShrink, ClusterAt, CutChain, FreeChain,
       DeleteFoundEntry, CallAborted, Remount

-----------------------------------------------------------------------------
(* On any image every variable keeps its type: no walk follows a marker,   *)
(* a reserved value or a link past the last cluster (next_cluster).        *)
THEOREM AnyImageTyped == CorruptSpec => []TypeOK
<1>1. CorruptInit => WalkInv /\ failed \in BOOLEAN
  BY WalkInit DEF CorruptInit
<1>2. WalkInv /\ failed \in BOOLEAN /\ [Next]_vars => (WalkInv /\ failed \in BOOLEAN)'
  BY WalkNext, FailedBoolean
<1>3. WalkInv /\ failed \in BOOLEAN => TypeOK
  BY DEF WalkInv, TypeOK
<1> QED
  BY <1>1, <1>2, <1>3, PTL DEF CorruptSpec

(* The inductive invariant of a consistent volume, under the calls of      *)
(* FatChains.                                                              *)
THEOREM ChainInvariant == Spec => []ChainInv
BY ChainInit, ChainNext, PTL DEF Spec

(* On any image ensure_chain_length hands allocate_cluster the end of a    *)
(* chain: the check with which allocate_cluster begins cannot fail here.   *)
THEOREM TailIsLast ==
  CorruptSpec => [](pc = "mark" /\ tail # NoCluster => fat[tail] = EndOfChain)
<1>1. WalkInv => (pc = "mark" /\ tail # NoCluster => fat[tail] = EndOfChain)
  BY DEF WalkInv
<1> QED
  BY <1>1, WalkInit, WalkNext, PTL DEF CorruptSpec

(* On any image bad and reserved FAT entries are never overwritten.        *)
THEOREM MarkersKept == CorruptSpec => MarkersPreserved
<1>1. ASSUME WalkInv, [Next]_vars,
             NEW c \in Clusters, fat[c] \in {Bad, Reserved}
      PROVE  fat'[c] = fat[c]
  <2> USE DEF WalkInv, ChainTypeOK, IsLink, InUse, ReturnError,
              chainVars, Bad, Reserved, Free, EndOfChain
  <2>1. CASE MarkAllocated
    BY <1>1, <2>1 DEF MarkAllocated, IsNextFree
  <2>2. CASE LinkCluster
    BY <1>1, <2>2 DEF LinkCluster, NoCluster, Clusters
  <2>3. CASE CutChain
    BY <1>1, <2>3 DEF CutChain, Clusters
  <2>4. CASE FreeChain
    <3>1. CASE InUse(cur)
      <4>1. c # cur
        BY <1>1, <3>1, MarkersDistinct
      <4> QED
        BY <1>1, <2>4, <3>1, <4>1 DEF FreeChain
    <3>2. CASE ~ InUse(cur)
      BY <1>1, <2>4, <3>2 DEF FreeChain
    <3> QED
      BY <3>1, <3>2
  <2>5. CASE UNCHANGED fat
    BY <1>1, <2>5
  <2> QED
    BY <1>1, <2>1, <2>2, <2>3, <2>4, <2>5
       DEF Next, Call, Step, Interrupt, vars, EnsureChainLength, BeginShrink,
           PersistFileInfo, BeginRemove, ChainTailAndLength, AllocationRefused,
           ClearCluster, AdoptChain, PersistShrink, ClusterAt, DeleteFoundEntry,
           CallAborted, Remount
<1>2. WalkInv /\ [Next]_vars =>
        [\A c \in Clusters : fat[c] \in {Bad, Reserved} => fat'[c] = fat[c]]_vars
  BY <1>1
<1>3. CorruptSpec => []WalkInv
  BY WalkInit, WalkNext, PTL DEF CorruptSpec
<1> QED
  BY <1>2, <1>3, PTL DEF CorruptSpec, MarkersPreserved

-----------------------------------------------------------------------------
(* A set of clusters that links do not leave.                              *)
Closed(S) == \A c \in S : IsLink(fat[c]) => fat[c] \in S
OneStep(S) == S \cup {fat[c] : c \in {d \in S : IsLink(fat[d])}}

(* The rounds of Reach: a function that satisfies its equation.            *)
Rounds(roots, k, g) ==
  g = [n \in 0 .. k |-> IF n = 0 THEN roots \cap Clusters ELSE OneStep(g[n - 1])]

(* The equation has a solution ...                                         *)
LEMMA RoundsExist ==
  ASSUME NEW roots, NEW k \in Nat
  PROVE  \E g : Rounds(roots, k, g)
<1> DEFINE S == {n \in Nat : \E g : Rounds(roots, n, g)}
<1>1. 0 \in S
  <2> DEFINE g == [n \in 0 .. 0 |-> roots \cap Clusters]
  <2>1. Rounds(roots, 0, g)
    BY DEF Rounds
  <2> QED
    BY <2>1
<1>2. ASSUME NEW n \in Nat, n \in S PROVE n + 1 \in S
  <2>1. PICK g : Rounds(roots, n, g)
    BY <1>2
  <2> DEFINE h == [i \in 0 .. n + 1 |-> IF i = n + 1 THEN OneStep(g[n]) ELSE g[i]]
  <2>2. ASSUME NEW i \in 0 .. n + 1
        PROVE  h[i] = IF i = 0 THEN roots \cap Clusters ELSE OneStep(h[i - 1])
    <3>1. CASE i = n + 1
      <4>1. h[i - 1] = g[n] /\ h[i] = OneStep(g[n]) /\ i # 0
        BY <3>1
      <4> QED
        BY <4>1
    <3>2. CASE i # n + 1 /\ i # 0
      <4>1. i \in 0 .. n /\ i - 1 \in 0 .. n + 1 /\ i - 1 # n + 1
        BY <3>2
      <4>2. h[i] = g[i] /\ h[i - 1] = g[i - 1]
        BY <4>1
      <4> QED
        BY <2>1, <3>2, <4>1, <4>2 DEF Rounds
    <3>3. CASE i = 0
      <4>1. h[i] = g[i] /\ i \in 0 .. n
        BY <3>3
      <4> QED
        BY <2>1, <3>3, <4>1 DEF Rounds
    <3> QED
      BY <3>1, <3>2, <3>3
  <2>3. Rounds(roots, n + 1, h)
    BY <2>2 DEF Rounds
  <2> QED
    BY <2>3
<1> HIDE DEF S
<1>3. k \in S
  BY <1>1, <1>2, SetInduction
<1> QED
  BY <1>3 DEF S

(* ... and Reach is its last round.                                        *)
LEMMA ReachRounds ==
  ASSUME NEW roots
  PROVE  \E g : Rounds(roots, ClusterCount, g) /\ Reach(roots) = g[ClusterCount]
<1> DEFINE f == CHOOSE g : Rounds(roots, ClusterCount, g)
<1>1. Rounds(roots, ClusterCount, f)
  BY RoundsExist, ChainAssumption
<1>2. Reach(roots) = f[ClusterCount]
  BY DEF Reach, Rounds, OneStep
<1> QED
  BY <1>1, <1>2

-----------------------------------------------------------------------------
(* There are as many clusters as the volume counts.                        *)
LEMMA ClustersFinite == IsFiniteSet(Clusters) /\ Cardinality(Clusters) = ClusterCount
<1>1. /\ IsFiniteSet(2 .. (ClusterCount + 1))
      /\ Cardinality(2 .. (ClusterCount + 1)) =
           IF 2 > ClusterCount + 1 THEN 0 ELSE (ClusterCount + 1) - 2 + 1
  BY FS_Interval, ChainAssumption
<1> QED
  BY <1>1, ChainAssumption DEF Clusters

(* One cluster more in a set counts one more.                              *)
LEMMA OneMore ==
  ASSUME NEW S \in SUBSET Clusters, NEW c \in Clusters, c \notin S
  PROVE  /\ Cardinality(S) \in Nat
         /\ Cardinality(S \cup {c}) = Cardinality(S) + 1
         /\ Cardinality(S) < ClusterCount
<1>1. IsFiniteSet(S) /\ IsFiniteSet(S \cup {c})
  BY ClustersFinite, FS_Subset
<1>2. Cardinality(S \cup {c}) = Cardinality(S) + 1
  BY <1>1, FS_AddElement
<1>3. Cardinality(S \cup {c}) <= Cardinality(Clusters)
  BY ClustersFinite, FS_Subset
<1>4. Cardinality(S) \in Nat
  BY <1>1, FS_CardinalityType
<1> QED
  BY <1>2, <1>3, <1>4, ClustersFinite, ChainAssumption

(* Each round adds clusters until the set is closed, and it does so before *)
(* the clusters run out.                                                   *)
LEMMA RoundsClose ==
  ASSUME fat \in [Clusters -> FatEntries], NEW roots, NEW g, Rounds(roots, ClusterCount, g)
  PROVE  /\ roots \cap Clusters \subseteq g[ClusterCount]
         /\ g[ClusterCount] \subseteq Clusters
         /\ Closed(g[ClusterCount])
<1> DEFINE R == roots \cap Clusters
<1> DEFINE S == {n \in Nat : n <= ClusterCount =>
                   /\ R \subseteq g[n]
                   /\ g[n] \subseteq Clusters
                   /\ Closed(g[n]) \/ Cardinality(g[n]) >= n + 1}
<1>1. 0 \in S
  <2>1. g[0] = R
    BY ChainAssumption DEF Rounds
  <2>2. CASE R = {}
    BY <2>1, <2>2 DEF Closed
  <2>3. CASE R # {}
    <3>1. PICK c \in Clusters : c \in R
      BY <2>3
    <3>2. Cardinality({}) = 0 /\ Cardinality({} \cup {c}) = Cardinality({}) + 1
      BY FS_EmptySet, OneMore
    <3>3. {} \cup {c} = {c} /\ {c} \subseteq R /\ IsFiniteSet(R)
      BY <3>1, ClustersFinite, FS_Subset
    <3>4. Cardinality({c}) <= Cardinality(R)
      BY <3>3, FS_Subset
    <3>5. Cardinality({c}) = 1
      BY <3>2, <3>3
    <3>6. Cardinality(R) \in Nat
      BY <3>3, FS_CardinalityType
    <3>7. Cardinality(R) >= 0 + 1
      BY <3>4, <3>5, <3>6
    <3> HIDE DEF R
    <3> QED
      BY <2>1, <3>7 DEF R
  <2> QED
    BY <2>2, <2>3
<1>2. ASSUME NEW n \in Nat, n \in S PROVE n + 1 \in S
  <2> SUFFICES ASSUME n + 1 <= ClusterCount
               PROVE  /\ R \subseteq g[n + 1]
                      /\ g[n + 1] \subseteq Clusters
                      /\ Closed(g[n + 1]) \/ Cardinality(g[n + 1]) >= (n + 1) + 1
    OBVIOUS
  <2>1. /\ R \subseteq g[n]
        /\ g[n] \subseteq Clusters
        /\ Closed(g[n]) \/ Cardinality(g[n]) >= n + 1
    BY <1>2, ChainAssumption
  <2>2. g[n + 1] = OneStep(g[n])
    <3>1. n + 1 \in 0 .. ClusterCount /\ n + 1 # 0 /\ (n + 1) - 1 = n
      BY ChainAssumption
    <3> QED
      BY <3>1 DEF Rounds
  <2>3. R \subseteq g[n + 1] /\ g[n + 1] \subseteq Clusters
    BY <2>1, <2>2 DEF OneStep, IsLink
  <2>4. CASE Closed(g[n])
    BY <2>2, <2>3, <2>4 DEF Closed, OneStep
  <2>5. CASE ~ Closed(g[n])
    <3>1. PICK c \in g[n] : IsLink(fat[c]) /\ fat[c] \notin g[n]
      BY <2>5 DEF Closed
    <3>2. PICK d \in Clusters : d = fat[c]
      BY <3>1 DEF IsLink
    <3>3. d \notin g[n] /\ g[n] \cup {d} \subseteq g[n + 1]
      BY <2>2, <3>1, <3>2 DEF OneStep
    <3>4. /\ Cardinality(g[n]) \in Nat
          /\ Cardinality(g[n] \cup {d}) = Cardinality(g[n]) + 1
      BY <2>1, <3>3, OneMore
    <3>5. IsFiniteSet(g[n + 1])
      BY <2>3, ClustersFinite, FS_Subset
    <3>6. Cardinality(g[n] \cup {d}) <= Cardinality(g[n + 1])
      BY <3>3, <3>5, FS_Subset
    <3>7. Cardinality(g[n + 1]) \in Nat
      BY <3>5, FS_CardinalityType
    <3>8. Cardinality(g[n]) >= n + 1
      BY <2>1, <2>5
    <3>9. Cardinality(g[n + 1]) >= (n + 1) + 1
      BY <3>4, <3>6, <3>7, <3>8
    <3> QED
      BY <2>3, <3>9
  <2> QED
    BY <2>4, <2>5
<1> HIDE DEF S
<1>3. ClusterCount \in S
  BY <1>1, <1>2, SetInduction, ChainAssumption
<1>4. /\ R \subseteq g[ClusterCount]
      /\ g[ClusterCount] \subseteq Clusters
      /\ Closed(g[ClusterCount]) \/ Cardinality(g[ClusterCount]) >= ClusterCount + 1
  BY <1>3, ChainAssumption DEF S
<1>5. IsFiniteSet(g[ClusterCount])
  BY <1>4, ClustersFinite, FS_Subset
<1>6. Cardinality(g[ClusterCount]) <= ClusterCount /\ Cardinality(g[ClusterCount]) \in Nat
  BY <1>4, <1>5, ClustersFinite, FS_Subset, FS_CardinalityType
<1>7. ~ (Cardinality(g[ClusterCount]) >= ClusterCount + 1)
  BY <1>6, ChainAssumption
<1> QED
  BY <1>4, <1>7

(* No round leaves a closed set that holds the roots.                      *)
LEMMA RoundsLeast ==
  ASSUME NEW roots, NEW g, Rounds(roots, ClusterCount, g),
         NEW S, Closed(S), roots \cap Clusters \subseteq S
  PROVE  g[ClusterCount] \subseteq S
<1> DEFINE N == {n \in Nat : n <= ClusterCount => g[n] \subseteq S}
<1>1. 0 \in N
  BY ChainAssumption DEF Rounds
<1>2. ASSUME NEW n \in Nat, n \in N PROVE n + 1 \in N
  <2> SUFFICES ASSUME n + 1 <= ClusterCount PROVE g[n + 1] \subseteq S
    OBVIOUS
  <2>1. n + 1 \in 0 .. ClusterCount /\ n + 1 # 0 /\ (n + 1) - 1 = n /\ n <= ClusterCount
    BY ChainAssumption
  <2>2. g[n] \subseteq S
    BY <1>2, <2>1
  <2>3. g[n + 1] = OneStep(g[n])
    BY <2>1 DEF Rounds
  <2> QED
    BY <2>2, <2>3 DEF Closed, OneStep
<1> HIDE DEF N
<1>3. ClusterCount \in N
  BY <1>1, <1>2, SetInduction, ChainAssumption
<1> QED
  BY <1>3, ChainAssumption DEF N

-----------------------------------------------------------------------------
(* Reach is the least closed set of clusters that holds the roots.         *)
LEMMA ReachClosed ==
  fat \in [Clusters -> FatEntries] =>
    \A roots : /\ roots \cap Clusters \subseteq Reach(roots)
               /\ Reach(roots) \subseteq Clusters
               /\ Closed(Reach(roots))
<1> SUFFICES ASSUME fat \in [Clusters -> FatEntries], NEW roots
             PROVE  /\ roots \cap Clusters \subseteq Reach(roots)
                    /\ Reach(roots) \subseteq Clusters
                    /\ Closed(Reach(roots))
  OBVIOUS
<1>1. PICK g : Rounds(roots, ClusterCount, g) /\ Reach(roots) = g[ClusterCount]
  BY ReachRounds
<1> QED
  BY <1>1, RoundsClose

(* Reach lies in every closed set that contains its roots.                 *)
LEMMA ReachLeast ==
  \A roots, S : Closed(S) /\ roots \cap Clusters \subseteq S => Reach(roots) \subseteq S
<1> SUFFICES ASSUME NEW roots, NEW S, Closed(S), roots \cap Clusters \subseteq S
             PROVE  Reach(roots) \subseteq S
  OBVIOUS
<1>1. PICK g : Rounds(roots, ClusterCount, g) /\ Reach(roots) = g[ClusterCount]
  BY ReachRounds
<1> QED
  BY <1>1, RoundsLeast

(* What is reached and is no root is linked from something reached.        *)
LEMMA ReachPredecessor ==
  ASSUME fat \in [Clusters -> FatEntries], NEW roots, NEW c \in Reach(roots), c \notin roots
  PROVE  \E d \in Reach(roots) : fat[d] = c
<1> DEFINE S == {e \in Reach(roots) : e \in roots \/ \E d \in Reach(roots) : fat[d] = e}
<1>1. Closed(S)
  BY ReachClosed DEF Closed
<1>2. roots \cap Clusters \subseteq S
  BY ReachClosed
<1>3. c \in S
  BY <1>1, <1>2, ReachLeast
<1> QED
  BY <1>3

-----------------------------------------------------------------------------
(* The walk of chain_tail_and_length: the next cluster is none of those    *)
(* counted, so there was room for one more.                                *)
LEMMA WalkGoesOn ==
  ASSUME ChainInv, pc = "length", IsLink(fat[cur]),
         NEW W \in SUBSET Clusters, Cardinality(W) = count,
         head \in W, cur \in W, \A c \in W \ {head} : \E d \in W \ {cur} : fat[d] = c
  PROVE  /\ fat[cur] \notin W
         /\ count < ClusterCount
         /\ Cardinality(W \cup {fat[cur]}) = count + 1
<1>1. fat[cur] \in Clusters /\ cur \in Clusters
  BY DEF IsLink
<1>2. fat[cur] # head
  BY <1>1, MarkersDistinct
     DEF ChainInv, WalkInv, ChainTypeOK, CallInv, HeadsAreHeads, Referenced, HasPredecessor
<1>3. fat[cur] \notin W
  <2> SUFFICES ASSUME fat[cur] \in W PROVE FALSE
    OBVIOUS
  <2>1. PICK d \in W \ {cur} : fat[d] = fat[cur]
    BY <1>2
  <2> QED
    BY <1>1, <2>1 DEF ChainInv, ChainsDoNotCross, IsLink
<1>4. PICK n \in Clusters : n = fat[cur]
  BY <1>1
<1>5. Cardinality(W \cup {n}) = Cardinality(W) + 1 /\ Cardinality(W) < ClusterCount
  BY <1>3, <1>4, OneMore
<1> QED
  BY <1>3, <1>4, <1>5

(* The walk of free_chain: what it has released is free, what it goes on   *)
(* with is in use.                                                         *)
LEMMA ReleaseGoesOn ==
  ASSUME ChainInv, pc = "free", IsLink(fat[cur]),
         NEW F \in SUBSET Clusters, Cardinality(F) = count - 1, \A c \in F : fat[c] = Free
  PROVE  /\ count < ClusterCount
         /\ Cardinality(F \cup {cur}) = count
         /\ cur \notin F
<1>1. fat[cur] \in Clusters /\ cur \in Clusters /\ count \in Nat
  BY DEF IsLink, ChainInv, WalkInv, ChainTypeOK
<1>2. InUse(fat[cur]) /\ InUse(cur) /\ fat[cur] # cur
  BY <1>1 DEF ChainInv, NothingDangles, CallInv, HasPredecessor, InUse
<1>3. \A c \in F : ~ InUse(c)
  BY MarkersDistinct DEF InUse, IsLink, Free, EndOfChain
<1>4. cur \notin F /\ fat[cur] \notin F
  BY <1>2, <1>3
<1>5. PICK b \in Clusters, n \in Clusters : b = cur /\ n = fat[cur]
  BY <1>1
<1>6. Cardinality(F \cup {b}) = Cardinality(F) + 1 /\ Cardinality(F) \in Nat
  BY <1>4, <1>5, OneMore
<1>7. n \notin F \cup {b} /\ F \cup {b} \in SUBSET Clusters
  BY <1>2, <1>4, <1>5
<1>8. Cardinality(F \cup {b}) < ClusterCount
  BY <1>7, OneMore
<1>9. Cardinality(F \cup {b}) = count
  BY <1>1, <1>6
<1> QED
  BY <1>4, <1>5, <1>8, <1>9

(* What a walk has counted carries over to its next iteration.             *)
LEMMA WalkedNext == ChainInv /\ WalkedInv /\ [Next]_vars => WalkedInv'
<1> SUFFICES ASSUME ChainInv, WalkedInv, [Next]_vars PROVE WalkedInv'
  OBVIOUS
<1> USE DEF vars, chainVars, refVars, callVars, Return, ReturnError
<1>0. ASSUME pc' \notin {"length", "free"} PROVE WalkedInv'
  BY <1>0 DEF WalkedInv
<1>1. ASSUME NEW o \in Owners, NEW k \in 1 .. MaxRequired, EnsureChainLength(o, k)
      PROVE  WalkedInv'
  <2>1. CASE held[o] = NoCluster
    BY <1>0, <1>1, <2>1 DEF EnsureChainLength
  <2>2. CASE held[o] # NoCluster
    <3>1. PICK h \in Clusters : h = held[o]
      BY <2>2 DEF ChainInv, WalkInv, ChainTypeOK
    <3>2. Cardinality({h}) = 1
      BY FS_Singleton
    <3>3. pc' = "length" /\ count' = 1 /\ head' = h /\ cur' = h
      BY <1>1, <2>2, <3>1 DEF EnsureChainLength
    <3> QED
      BY <3>2, <3>3 DEF WalkedInv
  <2> QED
    BY <2>1, <2>2
<1>2. CASE ChainTailAndLength
  <2>1. CASE IsLink(fat[cur]) /\ count < ClusterCount
    <3>1. /\ pc = "length" /\ pc' = "length" /\ fat' = fat /\ head' = head
          /\ cur' = fat[cur] /\ count' = count + 1
      BY <1>2, <2>1, MarkersDistinct DEF ChainTailAndLength, IsLink
    <3>2. PICK W \in SUBSET Clusters :
            /\ Cardinality(W) = count
            /\ head \in W /\ cur \in W
            /\ \A c \in W \ {head} : \E d \in W \ {cur} : fat[d] = c
      BY <3>1 DEF WalkedInv
    <3>3. fat[cur] \notin W /\ Cardinality(W \cup {fat[cur]}) = count + 1
      BY <2>1, <3>1, <3>2, WalkGoesOn
    <3>4. PICK n \in Clusters : n = fat[cur]
      BY <2>1 DEF IsLink
    <3>5. PICK V \in SUBSET Clusters : V = W \cup {n}
      OBVIOUS
    <3>6. \A c \in V \ {head} : \E d \in V \ {n} : fat[d] = c
      BY <3>2, <3>3, <3>4, <3>5
    <3>7. Cardinality(V) = count' /\ head' \in V /\ cur' \in V
      BY <3>1, <3>2, <3>3, <3>4, <3>5
    <3>8. \A c \in V \ {head'} : \E d \in V \ {cur'} : fat'[d] = c
      BY <3>1, <3>4, <3>6
    <3> QED
      BY <3>1, <3>7, <3>8 DEF WalkedInv
  <2>2. CASE ~ (IsLink(fat[cur]) /\ count < ClusterCount)
    BY <1>0, <1>2, <2>2 DEF ChainTailAndLength
  <2> QED
    BY <2>1, <2>2
<1>3. CASE PersistShrink \/ DeleteFoundEntry
  <2>1. CASE pc' # "free"
    BY <1>0, <1>3, <2>1 DEF PersistShrink, DeleteFoundEntry
  <2>2. CASE pc' = "free"
    <3>1. count' = 1
      BY <1>3, <2>2 DEF PersistShrink, DeleteFoundEntry
    <3>2. Cardinality({}) = count' - 1
      BY <3>1, FS_EmptySet
    <3> QED
      BY <2>2, <3>2 DEF WalkedInv
  <2> QED
    BY <2>1, <2>2
<1>4. CASE CutChain
  <2>1. pc' = "free" /\ count' = 1
    BY <1>4 DEF CutChain
  <2>2. Cardinality({}) = count' - 1
    BY <2>1, FS_EmptySet
  <2> QED
    BY <2>1, <2>2 DEF WalkedInv
<1>5. CASE FreeChain
  <2>1. CASE InUse(cur) /\ IsLink(fat[cur]) /\ count < ClusterCount
    <3>1. /\ pc = "free" /\ pc' = "free" /\ count' = count + 1
          /\ fat' = [fat EXCEPT ![cur] = Free]
      BY <1>5, <2>1 DEF FreeChain
    <3>2. PICK F \in SUBSET Clusters :
            Cardinality(F) = count - 1 /\ \A c \in F : fat[c] = Free
      BY <3>1 DEF WalkedInv
    <3>3. Cardinality(F \cup {cur}) = count
      BY <2>1, <3>1, <3>2, ReleaseGoesOn
    <3>4. cur \in Clusters /\ count \in Nat /\ fat \in [Clusters -> FatEntries]
      BY <3>1 DEF ChainInv, WalkInv, ChainTypeOK
    <3>5. \A c \in F \cup {cur} : fat'[c] = Free
      BY <3>1, <3>2, <3>4
    <3>6. F \cup {cur} \in SUBSET Clusters
      BY <3>4
    <3>7. Cardinality(F \cup {cur}) = count' - 1
      BY <3>1, <3>3, <3>4
    <3> QED
      BY <3>1, <3>5, <3>6, <3>7 DEF WalkedInv
  <2>2. CASE ~ (InUse(cur) /\ IsLink(fat[cur]) /\ count < ClusterCount)
    BY <1>0, <1>5, <2>2 DEF FreeChain
  <2> QED
    BY <2>1, <2>2
<1>6. CASE UNCHANGED vars
  BY <1>6 DEF WalkedInv
<1>7. ASSUME NEW o \in Owners, PersistFileInfo(o) PROVE WalkedInv'
  BY <1>0, <1>7 DEF PersistFileInfo
<1>8. ASSUME NEW o \in Owners, NEW k \in 0 .. MaxRequired, BeginShrink(o, k)
      PROVE  WalkedInv'
  BY <1>0, <1>8 DEF BeginShrink
<1>9. ASSUME NEW o \in Owners, BeginRemove(o) PROVE WalkedInv'
  BY <1>0, <1>9 DEF BeginRemove
<1>10. CASE \/ MarkAllocated \/ AllocationRefused \/ ClearCluster \/ LinkCluster
            \/ AdoptChain \/ ClusterAt \/ Interrupt
  <2>1. pc' \notin {"length", "free"}
    BY <1>10
       DEF MarkAllocated, AllocationRefused, ClearCluster, LinkCluster, AdoptChain,
           ClusterAt, Interrupt, CallAborted, Remount
  <2> QED
    BY <1>0, <2>1
<1> QED
  BY <1>1, <1>2, <1>3, <1>4, <1>5, <1>6, <1>7, <1>8, <1>9, <1>10 DEF Next, Call, Step

(* Where a walk has counted only clusters of its chain it does not run out *)
(* of its bound.                                                           *)
LEMMA WalkedIsSound == ChainInv /\ WalkedInv => NeverCorrupt
<1> SUFFICES ASSUME ChainInv, WalkedInv PROVE NeverCorrupt
  OBVIOUS
<1>1. ASSUME pc = "length", fat[cur] # EndOfChain
      PROVE  IsLink(fat[cur]) /\ count < ClusterCount
  <2>1. IsLink(fat[cur])
    BY <1>1 DEF ChainInv, CallInv, InUse
  <2> QED
    BY <1>1, <2>1, WalkGoesOn DEF WalkedInv
<1>2. ASSUME pc = "free", fat[cur] # EndOfChain
      PROVE  IsLink(fat[cur]) /\ count < ClusterCount
  <2>1. IsLink(fat[cur])
    BY <1>2 DEF ChainInv, CallInv, InUse
  <2> QED
    BY <1>2, <2>1, ReleaseGoesOn DEF WalkedInv
<1>3. pc \in {"mark", "link"} /\ tail # NoCluster => fat[tail] = EndOfChain
  BY DEF ChainInv, WalkInv
<1> QED
  BY <1>1, <1>2, <1>3 DEF NeverCorrupt

(* The calls of FatChains never report CorruptChain.                       *)
THEOREM NeverReportsCorrupt == Spec => []NeverCorrupt
<1>1. Init => WalkedInv
  BY DEF Init, NoCall, WalkedInv
<1> QED
  BY <1>1, WalkedIsSound, WalkedNext, ChainInvariant, PTL DEF Spec

-----------------------------------------------------------------------------
(* What was reached stays reached when no link is taken away.              *)
LEMMA ReachGrows ==
  ASSUME NEW R,
         fat' \in [Clusters -> FatEntries],
         \A c \in Clusters : IsLink(fat[c]) => fat'[c] = fat[c]
  PROVE  Reach(R) \subseteq Reach(R)'
<1>1. (fat \in [Clusters -> FatEntries] =>
        \A roots : /\ roots \cap Clusters \subseteq Reach(roots)
                   /\ Reach(roots) \subseteq Clusters
                   /\ Closed(Reach(roots)))'
  BY ReachClosed, PTL
<1>2. PICK S : S = Reach(R)'
  OBVIOUS
<1>3. R \cap Clusters \subseteq S /\ S \subseteq Clusters
      /\ \A c \in S : IsLink(fat'[c]) => fat'[c] \in S
  BY <1>1, <1>2 DEF Closed, IsLink
<1>4. Closed(S)
  BY <1>3 DEF Closed
<1>5. Reach(R) \subseteq S
  BY <1>3, <1>4, ReachLeast
<1> QED
  BY <1>2, <1>5

(* A root is reached, and so is what a reached cluster links to.           *)
LEMMA ReachStep ==
  fat \in [Clusters -> FatEntries] =>
    \A h \in Clusters :
      /\ h \in Reach({h})
      /\ \A c \in Reach({h}) : c \in Clusters /\ (IsLink(fat[c]) => fat[c] \in Reach({h}))
BY ReachClosed DEF Closed

(* Nothing is reached from no cluster.                                     *)
LEMMA ReachOfNone == Reach({NoCluster}) = {}
<1>1. Closed({}) /\ {NoCluster} \cap Clusters \subseteq {}
  BY MarkersDistinct DEF Closed
<1> QED
  BY <1>1, ReachLeast

(* Where the clusters in the locals hang, from step to step.               *)
LEMMA PathNext == ChainInv /\ PathInv /\ [Next]_vars => PathInv'
<1> SUFFICES ASSUME ChainInv, PathInv, [Next]_vars PROVE PathInv'
  OBVIOUS
<1>0. ChainInv'
  BY ChainNext
<1> USE DEF vars, chainVars, refVars, callVars, Return, ReturnError
<1>t. /\ fat \in [Clusters -> FatEntries] /\ fat' \in [Clusters -> FatEntries]
      /\ entryFirst \in [Owners -> Clusters \cup {NoCluster}]
      /\ held \in [Owners -> Clusters \cup {NoCluster}]
      /\ pc # "idle" => owner \in Owners
      /\ head \in Clusters \cup {NoCluster}
  BY <1>0 DEF ChainInv, WalkInv, ChainTypeOK
<1>s. (fat \in [Clusters -> FatEntries] =>
        \A h \in Clusters :
          /\ h \in Reach({h})
          /\ \A c \in Reach({h}) :
               c \in Clusters /\ (IsLink(fat[c]) => fat[c] \in Reach({h})))'
  BY ReachStep, PTL
<1>r. ASSUME NEW h, NEW c, c \in Reach({h}), fat' = fat PROVE c \in Reach({h})'
  <2>1. Reach({h}) \subseteq Reach({h})'
    BY <1>r, <1>t, ReachGrows
  <2> QED
    BY <1>r, <2>1
<1>1. ASSUME NEW o \in Owners, NEW k \in 1 .. MaxRequired, EnsureChainLength(o, k)
      PROVE  PathInv'
  <2>1. CASE held[o] = NoCluster
    BY <1>1, <2>1, ChainAssumption DEF EnsureChainLength, PathInv, ChainInv, WalkInv
  <2>2. CASE held[o] # NoCluster
    <3>1. PICK h \in Clusters : h = held[o]
      BY <2>2, <1>t
    <3>2. h \in Reach({h})'
      BY <1>s, <1>t
    <3>3. pc' = "length" /\ cur' = h /\ head' = h /\ held' = held /\ owner' = o
      BY <1>1, <2>2, <3>1 DEF EnsureChainLength
    <3>4. cur' \in Reach({head})'
      BY <3>2, <3>3
    <3> QED
      BY <3>1, <3>3, <3>4 DEF PathInv
  <2> QED
    BY <2>1, <2>2
<1>2. ASSUME NEW o \in Owners, NEW k \in 0 .. MaxRequired, BeginShrink(o, k)
      PROVE  PathInv'
  BY <1>2, <1>t DEF BeginShrink, PathInv
<1>3. ASSUME NEW o \in Owners, PersistFileInfo(o) PROVE PathInv'
  BY <1>3, <1>t DEF PersistFileInfo, PathInv
<1>4. ASSUME NEW o \in Owners, BeginRemove(o) PROVE PathInv'
  BY <1>4, <1>t DEF BeginRemove, PathInv
<1>5. CASE ChainTailAndLength
  <2>1. PICK h \in Clusters : h = head
    BY <1>5, <1>t DEF ChainTailAndLength, ChainInv, CallInv
  <2>2. cur \in Reach({h}) /\ held[owner] \in {NoCluster, h}
    BY <1>5, <2>1 DEF ChainTailAndLength, PathInv
  <2>3. CASE IsLink(fat[cur]) /\ count < ClusterCount
    <3>1. /\ pc' = "length" /\ cur' = fat[cur] /\ fat' = fat /\ held' = held
          /\ owner' = owner /\ head' = h
      BY <1>5, <2>1, <2>3, MarkersDistinct DEF ChainTailAndLength, IsLink
    <3>2. fat[cur] \in Reach({h})
      BY <1>t, <2>2, <2>3, ReachStep
    <3>3. PICK n : n = fat[cur]
      OBVIOUS
    <3>4. n \in Reach({h})'
      BY <1>r, <3>1, <3>2, <3>3
    <3>5. cur' \in Reach({head})'
      BY <3>1, <3>3, <3>4
    <3> QED
      BY <2>2, <3>1, <3>5 DEF PathInv
  <2>4. CASE fat[cur] = EndOfChain
    <3>1. /\ pc' \in {"mark", "adopt"} /\ tail' = cur /\ cur' = NoCluster /\ fat' = fat
          /\ held' = held /\ owner' = owner /\ head' = h
      BY <1>5, <2>1, <2>4, MarkersDistinct DEF ChainTailAndLength, IsLink
    <3>2. PICK n : n = cur
      OBVIOUS
    <3>3. n \in Reach({h})'
      BY <1>r, <2>2, <3>1, <3>2
    <3>4. tail' \in Reach({head})'
      BY <3>1, <3>2, <3>3
    <3>5. cur # NoCluster
      BY <1>5, MarkersDistinct DEF ChainTailAndLength, ChainInv, WalkInv
    <3> QED
      BY <2>2, <3>1, <3>4, <3>5 DEF PathInv
  <2>5. CASE ~ (IsLink(fat[cur]) /\ count < ClusterCount) /\ fat[cur] # EndOfChain
    <3>1. pc' = "idle" /\ cur' = NoCluster /\ head' = NoCluster
      BY <1>5, <2>5 DEF ChainTailAndLength
    <3> QED
      BY <3>1 DEF PathInv
  <2> QED
    BY <2>3, <2>4, <2>5
<1>6. CASE MarkAllocated
  <2>1. PICK c \in Clusters : /\ fat[c] = Free /\ cur' = c
                              /\ fat' = [fat EXCEPT ![c] = EndOfChain]
    BY <1>6 DEF MarkAllocated, IsNextFree
  <2>2. /\ pc = "mark" /\ pc' = "clear" /\ tail' = tail /\ head' = head
        /\ held' = held /\ owner' = owner
    BY <1>6 DEF MarkAllocated
  <2>3. tail # NoCluster => tail' \in Reach({head})'
    <3>1. SUFFICES ASSUME tail # NoCluster PROVE tail' \in Reach({head})'
      OBVIOUS
    <3>2. PICK h, t : h = head /\ t = tail
      OBVIOUS
    <3>3. t \in Reach({h})
      BY <2>2, <3>1, <3>2 DEF PathInv
    <3>4. \A d \in Clusters : IsLink(fat[d]) => fat'[d] = fat[d]
      BY <2>1, <1>t, MarkersDistinct DEF IsLink
    <3>5. t \in Reach({h})'
      BY <1>t, <3>3, <3>4, ReachGrows
    <3> QED
      BY <2>2, <3>2, <3>5
  <2> QED
    BY <2>2, <2>3 DEF PathInv
<1>7. CASE ClearCluster
  <2>1. CASE tail # NoCluster
    <3>1. /\ pc = "clear" /\ pc' = "link" /\ fat' = fat /\ tail' = tail /\ head' = head
          /\ held' = held /\ owner' = owner
      BY <1>7, <2>1 DEF ClearCluster
    <3>2. PICK h, t : h = head /\ t = tail
      OBVIOUS
    <3>3. t \in Reach({h})'
      BY <1>r, <2>1, <3>1, <3>2 DEF PathInv
    <3>4. tail' \in Reach({head})'
      BY <3>1, <3>2, <3>3
    <3> QED
      BY <3>1, <3>4 DEF PathInv
  <2>2. CASE tail = NoCluster
    <3>1. /\ pc = "clear" /\ pc' \in {"mark", "adopt"} /\ head' = cur /\ tail' = cur
          /\ cur' = NoCluster /\ held' = held /\ owner' = owner
      BY <1>7, <2>2 DEF ClearCluster
    <3>2. PICK h \in Clusters : h = cur
      BY <3>1 DEF ChainInv, WalkInv
    <3>3. h \in Reach({h})'
      BY <1>s, <1>t
    <3>4. tail' \in Reach({head})' /\ tail' # NoCluster
      BY <3>1, <3>2, <3>3, MarkersDistinct
    <3>5. held[owner] = NoCluster
      BY <2>2, <3>1 DEF PathInv
    <3> QED
      BY <3>1, <3>4, <3>5 DEF PathInv
  <2> QED
    BY <2>1, <2>2
<1>8. CASE LinkCluster
  <2>1. /\ pc = "link" /\ pc' \in {"mark", "adopt"} /\ head' = head /\ tail' = cur
        /\ cur' = NoCluster /\ held' = held /\ owner' = owner
        /\ fat' = [fat EXCEPT ![tail] = cur]
    BY <1>8 DEF LinkCluster
  <2>2. tail \in Clusters /\ fat[tail] = EndOfChain /\ cur \in Clusters
    BY <2>1, MarkersDistinct DEF ChainInv, WalkInv
  <2>3. PICK h, t, c : h = head /\ t = tail /\ c = cur
    OBVIOUS
  <2>4. t \in Reach({h})
    BY <2>1, <2>2, <2>3, MarkersDistinct DEF PathInv
  <2>5. h \in Clusters
    BY <1>t, <2>3, <2>4, ReachLeast, MarkersDistinct, ReachOfNone
  <2>6. \A d \in Clusters : IsLink(fat[d]) => fat'[d] = fat[d]
    BY <2>1, <2>2, <1>t, MarkersDistinct DEF IsLink
  <2>7. t \in Reach({h})'
    BY <1>t, <2>4, <2>6, ReachGrows
  <2>8. fat'[t] = c /\ c \in Clusters
    BY <2>1, <2>2, <2>3, <1>t
  <2>9. c \in Reach({h})'
    BY <1>s, <1>t, <2>5, <2>7, <2>8 DEF IsLink
  <2>10. tail' \in Reach({head})' /\ tail' # NoCluster
    BY <2>1, <2>2, <2>3, <2>9, MarkersDistinct
  <2> QED
    BY <2>1, <2>10 DEF PathInv
<1>9. CASE AdoptChain \/ AllocationRefused \/ Interrupt
  <2>1. pc' = "idle" /\ cur' = NoCluster /\ head' = NoCluster
    BY <1>9 DEF AdoptChain, AllocationRefused, Interrupt, CallAborted, Remount
  <2> QED
    BY <2>1 DEF PathInv
<1>10. CASE PersistShrink
  <2>1. PICK h \in Clusters : h = head
    BY <1>10 DEF PersistShrink, ChainInv, WalkInv
  <2>2. h \in Reach({h})'
    BY <1>s, <1>t
  <2>3. /\ pc' = (IF need = 0 THEN "free" ELSE "seek") /\ cur' = h /\ head' = h
        /\ held' = held /\ owner' = owner /\ need' = need
    BY <1>10, <2>1 DEF PersistShrink
  <2>4. cur' \in Reach({head})'
    BY <2>2, <2>3
  <2>5. need # 0 => h = held[owner]
    BY <1>10, <2>1 DEF PersistShrink, PathInv
  <2>6. h # NoCluster
    BY MarkersDistinct
  <2> QED
    BY <2>3, <2>4, <2>5, <2>6 DEF PathInv
<1>11. CASE ClusterAt
  <2>1. PICK h \in Clusters : h = head
    BY <1>11, <1>t DEF ClusterAt, PathInv
  <2>2. cur \in Reach({h}) /\ h = held[owner] /\ need # 0 /\ h # NoCluster
    BY <1>11, <2>1, MarkersDistinct DEF ClusterAt, PathInv
  <2>3. CASE pc' = "seek"
    <3>1. /\ cur' = fat[cur] /\ IsLink(fat[cur]) /\ fat' = fat /\ held' = held
          /\ owner' = owner /\ head' = h /\ need' = need
      BY <1>11, <2>1, <2>3 DEF ClusterAt
    <3>2. PICK n : n = fat[cur]
      OBVIOUS
    <3>3. n \in Reach({h})
      BY <1>t, <2>2, <3>1, <3>2, ReachStep
    <3>4. n \in Reach({h})'
      BY <1>r, <3>1, <3>3
    <3>5. cur' \in Reach({head})'
      BY <3>1, <3>2, <3>4
    <3> QED
      BY <2>2, <2>3, <3>1, <3>5 DEF PathInv
  <2>4. CASE pc' = "cut"
    <3>1. /\ tail' = cur /\ cur' = cur /\ fat' = fat /\ held' = held
          /\ owner' = owner /\ head' = h /\ need' = need
      BY <1>11, <2>1, <2>4 DEF ClusterAt
    <3>2. PICK n : n = cur
      OBVIOUS
    <3>3. n \in Reach({h})'
      BY <1>r, <2>2, <3>1, <3>2
    <3>4. tail' \in Reach({head})'
      BY <3>1, <3>2, <3>3
    <3> QED
      BY <2>2, <2>4, <3>1, <3>4 DEF PathInv
  <2>5. CASE pc' = "idle"
    <3>1. head' = NoCluster /\ cur' = NoCluster
      BY <1>11, <2>5 DEF ClusterAt
    <3> QED
      BY <2>5, <3>1 DEF PathInv
  <2> QED
    BY <1>11, <2>3, <2>4, <2>5 DEF ClusterAt
<1>12. CASE CutChain
  BY <1>12 DEF CutChain, PathInv
<1>13. CASE FreeChain
  <2>1. CASE pc' = "free"
    <3>1. /\ pc = "free" /\ InUse(cur) /\ fat' = [fat EXCEPT ![cur] = Free]
          /\ head' = head /\ held' = held /\ owner' = owner
      BY <1>13, <2>1 DEF FreeChain
    <3>2. head \in Clusters /\ cur \in Clusters
      BY <1>t, <3>1 DEF PathInv, ChainInv, WalkInv
    <3>3. head = held[owner] \/ head = cur \/ fat[head] = Free
      BY <3>1 DEF PathInv
    <3>4. head' = held'[owner'] \/ fat'[head'] = Free
      BY <1>t, <3>1, <3>2, <3>3
    <3> QED
      BY <2>1, <3>1, <3>2, <3>4, MarkersDistinct DEF PathInv
  <2>2. CASE pc' # "free"
    BY <1>13, <2>2 DEF FreeChain, PathInv
  <2> QED
    BY <2>1, <2>2
<1>14. CASE DeleteFoundEntry
  BY <1>14 DEF DeleteFoundEntry, PathInv
<1>15. CASE UNCHANGED vars
  <2>1. PICK h, t, c : h = head /\ t = tail /\ c = cur
    OBVIOUS
  <2>2. fat' = fat /\ head' = h /\ tail' = t /\ cur' = c
    BY <1>15, <2>1
  <2>3. c \in Reach({h}) => c \in Reach({h})'
    BY <1>r, <2>2
  <2>4. t \in Reach({h}) => t \in Reach({h})'
    BY <1>r, <2>2
  <2>5. cur \in Reach({head}) => cur' \in Reach({head})'
    BY <2>1, <2>2, <2>3
  <2>6. tail \in Reach({head}) => tail' \in Reach({head})'
    BY <2>1, <2>2, <2>4
  <2> QED
    BY <1>15, <2>5, <2>6 DEF PathInv
<1> QED
  BY <1>1, <1>2, <1>3, <1>4, <1>5, <1>6, <1>7, <1>8, <1>9, <1>10, <1>11, <1>12,
     <1>13, <1>14, <1>15 DEF Next, Call, Step, Interrupt

(* A volume without a running call satisfies it.                           *)
LEMMA PathInit == Init => PathInv
BY DEF Init, NoCall, PathInv

(* A call keeps its place: the clusters in its locals hang from the head   *)
(* of the chain of the entry it works for.                                 *)
THEOREM PathInvariant == Spec => []PathInv
BY PathInit, PathNext, ChainInvariant, PTL DEF Spec

-----------------------------------------------------------------------------
(* The chains of two clusters that nothing leads to have no cluster in     *)
(* common.                                                                 *)
LEMMA ChainsApart ==
  ASSUME ChainInv, NEW h \in Clusters, NEW e \in Clusters, h # e,
         ~ HasPredecessor(h), ~ HasPredecessor(e)
  PROVE  Reach({h}) \cap Reach({e}) = {}
<1> DEFINE S == Clusters \ Reach({h})
<1>t. fat \in [Clusters -> FatEntries]
  BY DEF ChainInv, WalkInv, ChainTypeOK
<1>1. ASSUME NEW c \in Reach({h}), c # h PROVE \E d \in Reach({h}) : fat[d] = c
  BY <1>t, <1>1, ReachPredecessor
<1>2. Reach({h}) \subseteq Clusters
  BY <1>t, ReachClosed
<1>3. e \notin Reach({h})
  BY <1>1, <1>2 DEF HasPredecessor
<1>4. ASSUME NEW c \in S, IsLink(fat[c]) PROVE fat[c] \in S
  <2>1. SUFFICES ASSUME fat[c] \in Reach({h}) PROVE FALSE
    BY <1>4 DEF IsLink
  <2>2. fat[c] # h
    BY DEF HasPredecessor
  <2>3. PICK d \in Reach({h}) : fat[d] = fat[c]
    BY <1>1, <2>1, <2>2
  <2>4. d = c
    BY <1>2, <1>4, <2>3 DEF ChainInv, ChainsDoNotCross
  <2> QED
    BY <2>3, <2>4
<1>5. Closed(S) /\ {e} \cap Clusters \subseteq S
  BY <1>3, <1>4 DEF Closed
<1>6. Reach({e}) \subseteq S
  BY <1>5, ReachLeast
<1> QED
  BY <1>6

(* The chain of a cluster in use is in use.                                *)
LEMMA ChainInUse ==
  ASSUME ChainInv, NEW h, h = NoCluster \/ InUse(h)
  PROVE  \A c \in Reach({h}) : c \in Clusters /\ InUse(c)
<1> DEFINE S == {c \in Clusters : InUse(c)}
<1>1. Closed(S)
  BY DEF Closed, ChainInv, NothingDangles, IsLink
<1>2. {h} \cap Clusters \subseteq S
  BY MarkersDistinct
<1>3. Reach({h}) \subseteq S
  BY <1>1, <1>2, ReachLeast
<1> QED
  BY <1>3

(* The entry of an owner: its chain is in use, nothing leads to its first  *)
(* cluster.                                                                *)
LEMMA EntryFacts ==
  ASSUME ChainInv, NEW o \in Owners
  PROVE  /\ \A c \in ChainOf(o) : c \in Clusters /\ InUse(c)
         /\ entryFirst[o] # NoCluster =>
              entryFirst[o] \in Clusters /\ ~ HasPredecessor(entryFirst[o])
<1>1. entryFirst[o] \in Clusters \cup {NoCluster}
  BY DEF ChainInv, WalkInv, ChainTypeOK
<1>2. entryFirst[o] = NoCluster \/ InUse(entryFirst[o])
  BY DEF ChainInv, NothingDangles
<1> QED
  BY <1>1, <1>2, ChainInUse DEF ChainOf, ChainInv, HeadsAreHeads, Referenced

(* A cluster on the chain a call works on is on no other entry's chain.    *)
LEMMA OtherChain ==
  ASSUME ChainInv, NEW o \in Owners, NEW h \in Clusters, NEW t \in Reach({h}),
         ~ HasPredecessor(h), entryFirst[o] # h
  PROVE  t \notin ChainOf(o)
<1>1. CASE entryFirst[o] = NoCluster
  BY <1>1, ReachOfNone DEF ChainOf
<1>2. CASE entryFirst[o] # NoCluster
  BY <1>2, EntryFacts, ChainsApart DEF ChainOf
<1> QED
  BY <1>1, <1>2

(* A cluster that nothing refers to is on no chain.                        *)
LEMMA OffChains ==
  ASSUME ChainInv, NEW o \in Owners, NEW c, ~ HasPredecessor(c), ~ Referenced(c)
  PROVE  c \notin ChainOf(o)
<1> DEFINE S == Clusters \ {c}
<1>1. Closed(S)
  BY DEF Closed, HasPredecessor, IsLink
<1>2. {entryFirst[o]} \cap Clusters \subseteq S
  BY DEF Referenced
<1>3. Reach({entryFirst[o]}) \subseteq S
  BY <1>1, <1>2, ReachLeast
<1> QED
  BY <1>3 DEF ChainOf

(* What a step does to the chain and the entry of an owner it does not     *)
(* work for.                                                               *)
LEMMA OthersStep ==
  ASSUME ChainInv, PathInv, [Next]_vars, NEW o \in Owners \ {owner, owner'}
  PROVE  /\ entryFirst'[o] \in {entryFirst[o], held[o]}
         /\ \A c \in ChainOf(o) : fat'[c] = fat[c] /\ (c \in dirty' => c \in dirty)
<1> USE DEF vars, chainVars, refVars, callVars, Return, ReturnError
<1>t. /\ fat \in [Clusters -> FatEntries]
      /\ entryFirst \in [Owners -> Clusters \cup {NoCluster}]
      /\ held \in [Owners -> Clusters \cup {NoCluster}]
      /\ head \in Clusters \cup {NoCluster}
      /\ pc # "idle" => owner \in Owners
  BY DEF ChainInv, WalkInv, ChainTypeOK
<1>e. entryFirst'[o] \in {entryFirst[o], held[o]}
  <2>1. CASE PersistShrink \/ DeleteFoundEntry
    BY <2>1, <1>t DEF PersistShrink, DeleteFoundEntry
  <2>2. CASE \E p \in Owners : PersistFileInfo(p)
    BY <2>2, <1>t DEF PersistFileInfo
  <2>3. CASE UNCHANGED entryFirst
    BY <2>3
  <2> QED
    BY <2>1, <2>2, <2>3
       DEF Next, Call, Step, Interrupt, EnsureChainLength, BeginShrink, BeginRemove,
           ChainTailAndLength, MarkAllocated, AllocationRefused, ClearCluster,
           LinkCluster, AdoptChain, ClusterAt, CutChain, FreeChain, CallAborted, Remount
<1>c. ASSUME NEW c \in ChainOf(o)
      PROVE  fat'[c] = fat[c] /\ (c \in dirty' => c \in dirty)
  <2>0. c \in Clusters /\ InUse(c)
    BY EntryFacts
  <2>1. CASE MarkAllocated
    <3>1. PICK n \in Clusters : fat[n] = Free /\ fat' = [fat EXCEPT ![n] = EndOfChain]
      BY <2>1 DEF MarkAllocated, IsNextFree
    <3>2. n # c
      BY <2>0, <3>1, MarkersDistinct DEF InUse, IsLink, Free, EndOfChain
    <3> QED
      BY <1>t, <2>1, <3>1, <3>2 DEF MarkAllocated
  <2>2. CASE LinkCluster
    <3>1. pc = "link" /\ dirty' = dirty /\ fat' = [fat EXCEPT ![tail] = cur]
      BY <2>2 DEF LinkCluster
    <3>2. tail \in Reach({head})
      BY <3>1, MarkersDistinct DEF PathInv, ChainInv, WalkInv
    <3>3. head # NoCluster /\ head \in Clusters
      BY <1>t, <3>2, ReachOfNone
    <3>4. ~ HasPredecessor(head) /\ entryFirst[o] # head
      BY <3>1, <3>3 DEF ChainInv, CallInv, OwnedBy
    <3>5. tail # c
      BY <3>2, <3>3, <3>4, OtherChain
    <3> QED
      BY <1>t, <3>1, <3>5
  <2>3. CASE CutChain
    <3>1. pc = "cut" /\ dirty' = dirty /\ fat' = [fat EXCEPT ![tail] = EndOfChain]
      BY <2>3 DEF CutChain
    <3>2. head = held[owner] /\ head # NoCluster /\ head \in Clusters /\ owner \in Owners
      BY <1>t, <3>1 DEF PathInv
    <3>3. tail \in Reach({head})
      BY <3>1, MarkersDistinct DEF PathInv, ChainInv, WalkInv
    <3>4. ~ HasPredecessor(head) /\ entryFirst[o] # head
      BY <3>2 DEF ChainInv, HeadsAreHeads, Referenced
    <3>5. tail # c
      BY <3>2, <3>3, <3>4, OtherChain
    <3> QED
      BY <1>t, <3>1, <3>5
  <2>4. CASE FreeChain
    <3>1. cur # c
      BY <2>4, OffChains DEF FreeChain, ChainInv, CallInv
    <3>2. \/ fat' = [fat EXCEPT ![cur] = Free] /\ dirty' = dirty \cup {cur}
          \/ fat' = fat /\ dirty' = dirty
      BY <2>4 DEF FreeChain
    <3> QED
      BY <1>t, <2>0, <3>1, <3>2
  <2>5. CASE ClearCluster
    BY <2>5 DEF ClearCluster
  <2>6. CASE UNCHANGED chainVars
    BY <2>6
  <2> QED
    BY <2>1, <2>2, <2>3, <2>4, <2>5, <2>6
       DEF Next, Call, Step, Interrupt, EnsureChainLength, BeginShrink, BeginRemove,
           PersistFileInfo, ChainTailAndLength, AllocationRefused, AdoptChain,
           PersistShrink, ClusterAt, DeleteFoundEntry, CallAborted, Remount
<1> QED
  BY <1>e, <1>c

(* A call of FatChains that extends, cuts or frees the chain of one entry  *)
(* leaves the chains of the others, and their bytes, as they were.         *)
THEOREM OthersAreUntouched == Spec => OthersUntouched
<1>1. ChainInv /\ PathInv /\ [Next]_vars => [OthersKeptByStep]_vars
  BY OthersStep DEF OthersKeptByStep
<1> QED
  BY <1>1, PathInvariant, ChainInvariant, PTL DEF Spec, OthersUntouched

-----------------------------------------------------------------------------
(* An entry lags its handle only by what the running call is about to      *)
(* store or to release, as long as no call is interrupted and no handle is *)
(* dropped with a chain that was never stored.                             *)
LEMMA EntryLagsNext ==
  ASSUME ChainInv, PathInv, EntryLags, Call \/ Step, ~ LeavesClusters
  PROVE  EntryLags'
<1> USE DEF chainVars, refVars, callVars, Return, ReturnError
<1>t. /\ entryFirst \in [Owners -> Clusters \cup {NoCluster}]
      /\ held \in [Owners -> Clusters \cup {NoCluster}]
      /\ pc = "idle" => owner \notin Owners
      /\ pc # "idle" => owner \in Owners
  BY ChainAssumption DEF ChainInv, WalkInv, ChainTypeOK
<1>1. CASE \E o \in Owners, k \in 0 .. MaxRequired : BeginShrink(o, k)
  <2>1. PICK o \in Owners, k \in 0 .. MaxRequired : BeginShrink(o, k)
    BY <1>1
  <2>2. /\ entryFirst' = entryFirst /\ head' = held[o] /\ owner' = o
        /\ pc = "idle" /\ pc' = "shrink"
        /\ \A p \in Owners : p # o => held'[p] = held[p]
    BY <1>t, <2>1 DEF BeginShrink
  <2>3. held'[o] \in {NoCluster, held[o]}
    BY <1>t, <2>1 DEF BeginShrink
  <2> QED
    BY <1>t, <2>2, <2>3 DEF EntryLags
<1>2. CASE \E o \in Owners : PersistFileInfo(o)
  BY <1>2, <1>t DEF PersistFileInfo, EntryLags
<1>3. CASE \E o \in Owners : BeginRemove(o)
  <2>1. PICK o \in Owners : BeginRemove(o)
    BY <1>3
  <2>2. /\ entryFirst' = entryFirst /\ head' = entryFirst[o] /\ owner' = o
        /\ pc = "idle" /\ pc' = "unlink"
        /\ \A p \in Owners : p # o => held'[p] = held[p]
    BY <1>t, <2>1 DEF BeginRemove
  <2> QED
    BY <1>t, <2>2 DEF EntryLags
<1>4. CASE AdoptChain
  <2>1. /\ entryFirst' = entryFirst /\ pc = "adopt"
        /\ held' = [held EXCEPT ![owner] = head]
    BY <1>4 DEF AdoptChain
  <2>2. held[owner] \in {NoCluster, head}
    BY <2>1 DEF PathInv
  <2> QED
    BY <1>t, <2>1, <2>2 DEF EntryLags
<1>5. CASE PersistShrink
  <2>1. /\ held' = held /\ pc = "shrink"
        /\ entryFirst' = [entryFirst EXCEPT ![owner] = held[owner]]
    BY <1>5 DEF PersistShrink
  <2> QED
    BY <1>t, <2>1 DEF EntryLags
<1>6. CASE DeleteFoundEntry
  <2>1. /\ held' = held /\ pc = "unlink"
        /\ entryFirst' = [entryFirst EXCEPT ![owner] = NoCluster]
    BY <1>6 DEF DeleteFoundEntry
  <2> QED
    BY <1>t, <2>1 DEF EntryLags
<1>7. CASE UNCHANGED refVars /\ pc \notin {"shrink", "unlink"}
  BY <1>7 DEF EntryLags
<1>8. CASE \E o \in Owners, k \in 1 .. MaxRequired : EnsureChainLength(o, k)
  BY <1>8, <1>7 DEF EnsureChainLength
<1>9. CASE ChainTailAndLength \/ ClusterAt \/ FreeChain
  BY <1>9, <1>7 DEF ChainTailAndLength, ClusterAt, FreeChain
<1>10. CASE MarkAllocated \/ AllocationRefused \/ ClearCluster \/ LinkCluster \/ CutChain
  BY <1>10, <1>7 DEF MarkAllocated, AllocationRefused, ClearCluster, LinkCluster, CutChain
<1> QED
  BY <1>1, <1>2, <1>3, <1>4, <1>5, <1>6, <1>8, <1>9, <1>10 DEF Call, Step

(* The steps that may leave clusters in use for nobody, and interruptions, *)
(* count as failures.                                                      *)
LEMMA NotFailed ==
  ASSUME ChainInv, [Next]_vars, ~ failed'
  PROVE  /\ ~ failed
         /\ ((Call \/ Step) /\ ~ LeavesClusters) \/ UNCHANGED vars
<1>1. ~ failed
  BY Zenon
     DEF Next, Call, Step, Interrupt, vars, chainVars, refVars, callVars, Return,
         ReturnError, EnsureChainLength, BeginShrink, PersistFileInfo, BeginRemove,
         ChainTailAndLength, MarkAllocated, AllocationRefused, ClearCluster,
         LinkCluster, AdoptChain, PersistShrink, ClusterAt, CutChain, FreeChain,
         DeleteFoundEntry, CallAborted, Remount
<1>2. Call \/ Step \/ UNCHANGED vars
  BY DEF Next, Interrupt, CallAborted, ReturnError, Remount
<1>3. ASSUME Call PROVE ~ LeavesClusters
  BY <1>3, ChainAssumption
     DEF Call, EnsureChainLength, BeginShrink, PersistFileInfo, BeginRemove,
         LeavesClusters, callVars
<1>4. ASSUME Step PROVE ~ LeavesClusters
  BY <1>4
     DEF Step, ChainTailAndLength, MarkAllocated, AllocationRefused, ClearCluster,
         LinkCluster, AdoptChain, PersistShrink, ClusterAt, CutChain, FreeChain,
         DeleteFoundEntry, Return, ReturnError, LeavesClusters
<1> QED
  BY <1>1, <1>2, <1>3, <1>4

LEMMA EntryNext == ChainInv /\ PathInv /\ EntryInv /\ [Next]_vars => EntryInv'
<1> SUFFICES ASSUME ChainInv, PathInv, EntryInv, [Next]_vars, ~ failed' PROVE EntryLags'
  BY DEF EntryInv
<1>1. EntryLags
  BY NotFailed DEF EntryInv
<1>2. CASE UNCHANGED vars
  BY <1>1, <1>2 DEF EntryLags, vars, refVars, callVars
<1> QED
  BY <1>1, <1>2, NotFailed, EntryLagsNext

(* NoLeak without recursion: a closed set of clusters that holds the roots *)
(* holds every cluster in use.                                             *)
Covered ==
  \A S \in SUBSET Clusters :
    /\ \A c \in S : IsLink(fat[c]) => fat[c] \in S
    /\ \A c \in Clusters : c \in Roots => c \in S
    => \A c \in Clusters : InUse(c) => c \in S

(* Covered, said of the clusters that are reachable.                       *)
LEMMA CoveredIsNoLeak ==
  fat \in [Clusters -> FatEntries] =>
    (Covered <=> AllReached)
<1> SUFFICES ASSUME fat \in [Clusters -> FatEntries]
             PROVE  Covered <=> \A c \in Clusters : InUse(c) => c \in Reach(Roots)
  BY DEF AllReached
<1>1. PICK R : R = Roots
  OBVIOUS
<1>2. /\ R \cap Clusters \subseteq Reach(R)
      /\ Reach(R) \subseteq Clusters
      /\ Closed(Reach(R))
  BY ReachClosed
<1>3. \A S : Closed(S) /\ R \cap Clusters \subseteq S => Reach(R) \subseteq S
  BY ReachLeast
<1>4. Reach(Roots) = Reach(R)
  BY <1>1
<1>5. ASSUME Covered PROVE \A c \in Clusters : InUse(c) => c \in Reach(R)
  BY <1>1, <1>2, <1>5 DEF Covered, Closed
<1>6. ASSUME \A c \in Clusters : InUse(c) => c \in Reach(R) PROVE Covered
  BY <1>1, <1>3, <1>6 DEF Covered, Closed
<1> QED
  BY <1>4, <1>5, <1>6

(* A step that follows a chain, links a cluster to it or takes clusters    *)
(* off it leaves no cluster in use that is not reached.                    *)
LEMMA CoveredStep ==
  ASSUME ChainInv, PathInv, WalkedInv, EntryLags, Covered, Call \/ Step, ~ LeavesClusters
  PROVE  Covered'
<1> USE DEF chainVars, refVars, callVars, Return, ReturnError
<1>i. Covered /\ \A o \in Owners :
        \/ entryFirst[o] \in {NoCluster, held[o]}
        \/ o = owner /\ pc \in {"shrink", "unlink"} /\ entryFirst[o] = head
  BY DEF EntryLags
<1>t. /\ fat \in [Clusters -> FatEntries]
      /\ entryFirst \in [Owners -> Clusters \cup {NoCluster}]
      /\ held \in [Owners -> Clusters \cup {NoCluster}]
      /\ pc = "idle" => owner \notin Owners
      /\ pc # "idle" => owner \in Owners
      /\ NoCluster \notin Clusters /\ Free \notin Clusters /\ EndOfChain \notin Clusters
      /\ Free # EndOfChain
  BY ChainAssumption, MarkersDistinct DEF ChainInv, WalkInv, ChainTypeOK, Free, EndOfChain
<1> SUFFICES ASSUME NEW S \in SUBSET Clusters,
                    \A c \in S : IsLink(fat'[c]) => fat'[c] \in S,
                    \A c \in Clusters : c \in Roots' => c \in S
             PROVE  \A c \in Clusters : InUse(c)' => c \in S
  BY DEF Covered, InUse, IsLink
<1>r. /\ \A o \in Owners : /\ entryFirst'[o] \in Clusters => entryFirst'[o] \in S
                           /\ held'[o] \in Clusters => held'[o] \in S
      /\ head' \in Clusters => head' \in S
      /\ cur' \in Clusters => cur' \in S
  BY DEF Roots
<1>u. ASSUME NEW T \in SUBSET Clusters,
             \A c \in T : IsLink(fat[c]) => fat[c] \in T,
             \A o \in Owners : /\ entryFirst[o] \in Clusters => entryFirst[o] \in T
                               /\ held[o] \in Clusters => held[o] \in T,
             head \in Clusters => head \in T,
             cur \in Clusters => cur \in T
      PROVE  \A c \in Clusters : InUse(c) => c \in T
  <2>1. ASSUME NEW c \in Clusters, c \in Roots PROVE c \in T
    <3>1. c \in {head, cur} \/ \E o \in Owners : c \in {entryFirst[o], held[o]}
      BY <2>1 DEF Roots
    <3> QED
      BY <1>u, <3>1
  <2> QED
    BY <1>i, <1>u, <2>1 DEF Covered
(* What hangs from head lies in S, once head does and S is closed.         *)
<1>h. ASSUME \A c \in S : IsLink(fat[c]) => fat[c] \in S, head \in Clusters => head \in S
      PROVE  \A c \in Reach({head}) : c \in S
  <2>1. Closed(S) /\ {head} \cap Clusters \subseteq S
    BY <1>h DEF Closed
  <2> QED
    BY <2>1, ReachLeast
(* Steps that leave the FAT alone, and the clusters that are referred to.  *)
<1>k. ASSUME fat' = fat,
             \A o \in Owners : /\ entryFirst[o] \in Clusters => entryFirst[o] \in S
                               /\ held[o] \in Clusters => held[o] \in S,
             head \in Clusters => head \in S,
             cur \in Clusters => cur \in S
      PROVE  \A c \in Clusters : InUse(c)' => c \in S
  <2>1. \A c \in S : IsLink(fat[c]) => fat[c] \in S
    BY <1>k
  <2> QED
    BY <1>k, <1>u, <2>1 DEF InUse, IsLink
<1> DEFINE Goal == \A c \in Clusters : InUse(c)' => c \in S
<1> HIDE DEF Goal
<1>1. ASSUME NEW o \in Owners, NEW k \in 1 .. MaxRequired, EnsureChainLength(o, k)
      PROVE  Goal
  <2>1. /\ fat' = fat /\ entryFirst' = entryFirst /\ held' = held
        /\ head = NoCluster /\ cur = NoCluster
    BY <1>1 DEF EnsureChainLength, PathInv
  <2> QED
    BY <1>k, <1>r, <1>t, <2>1 DEF Goal
<1>2. ASSUME NEW o \in Owners, NEW k \in 0 .. MaxRequired, BeginShrink(o, k)
      PROVE  Goal
  <2>1. /\ fat' = fat /\ entryFirst' = entryFirst /\ head' = held[o]
        /\ \A p \in Owners : p # o => held'[p] = held[p]
        /\ head = NoCluster /\ cur = NoCluster
    BY <1>2, <1>t DEF BeginShrink, PathInv
  <2>2. \A p \in Owners : held[p] \in Clusters => held[p] \in S
    BY <1>r, <2>1
  <2> QED
    BY <1>k, <1>r, <1>t, <2>1, <2>2 DEF Goal
<1>3. ASSUME NEW o \in Owners, PersistFileInfo(o) PROVE Goal
  <2>1. /\ fat' = fat /\ held' = held /\ head' = head /\ cur' = cur /\ pc = "idle"
        /\ \A p \in Owners : p # o => entryFirst'[p] = entryFirst[p]
    BY <1>3, <1>t DEF PersistFileInfo
  <2>2. entryFirst[o] \in {NoCluster, held[o]}
    BY <1>i, <2>1
  <2>3. \A p \in Owners : /\ entryFirst[p] \in Clusters => entryFirst[p] \in S
                          /\ held[p] \in Clusters => held[p] \in S
    BY <1>r, <1>t, <2>1, <2>2
  <2> QED
    BY <1>k, <1>r, <2>1, <2>3 DEF Goal
<1>4. ASSUME NEW o \in Owners, BeginRemove(o) PROVE Goal
  <2>1. /\ fat' = fat /\ entryFirst' = entryFirst
        /\ \A p \in Owners : p # o => held'[p] = held[p]
        /\ head = NoCluster /\ cur = NoCluster
    BY <1>4, <1>t DEF BeginRemove, PathInv
  <2>2. held[o] = entryFirst[o]
    BY <1>4 DEF BeginRemove, LeavesClusters
  <2>3. \A p \in Owners : /\ entryFirst[p] \in Clusters => entryFirst[p] \in S
                          /\ held[p] \in Clusters => held[p] \in S
    BY <1>r, <2>1, <2>2
  <2> QED
    BY <1>k, <1>t, <2>1, <2>3 DEF Goal
<1>5. CASE ChainTailAndLength \/ ClusterAt
  <2>1. fat' = fat /\ entryFirst' = entryFirst /\ held' = held /\ cur \in Reach({head})
    BY <1>5 DEF ChainTailAndLength, ClusterAt, PathInv
  <2>2. head' = head \/ (head = held[owner] /\ owner \in Owners)
    BY <1>5, <1>t DEF ChainTailAndLength, ClusterAt, PathInv, CallInv, ChainInv
  <2>3. head \in Clusters => head \in S
    BY <1>r, <2>1, <2>2
  <2>4. cur \in S
    BY <1>h, <2>1, <2>3
  <2> QED
    BY <1>k, <1>r, <2>1, <2>3, <2>4 DEF Goal
<1>6. CASE MarkAllocated
  <2>1. /\ entryFirst' = entryFirst /\ held' = held /\ head' = head /\ cur = NoCluster
    BY <1>6 DEF MarkAllocated, PathInv
  <2>2. PICK n \in Clusters : /\ fat[n] = Free /\ cur' = n
                              /\ fat' = [fat EXCEPT ![n] = EndOfChain]
    BY <1>6 DEF MarkAllocated, IsNextFree
  <2>3. \A c \in Clusters : c # n => fat'[c] = fat[c]
    BY <1>t, <2>2
  <2>4. \A c \in S : IsLink(fat[c]) => fat[c] \in S
    BY <1>t, <2>2, <2>3 DEF IsLink
  <2>5. \A c \in Clusters : InUse(c) => c \in S
    BY <1>r, <1>t, <1>u, <2>1, <2>4
  <2>6. n \in S
    BY <1>r, <2>2
  <2> QED
    BY <2>3, <2>5, <2>6 DEF Goal, InUse, IsLink
<1>7. CASE ClearCluster
  <2>1. fat' = fat /\ entryFirst' = entryFirst /\ held' = held /\ pc = "clear"
    BY <1>7 DEF ClearCluster
  <2>2. \/ head' = head /\ cur' = cur
        \/ head' = cur /\ head = NoCluster
    BY <1>7 DEF ClearCluster, PathInv
  <2> QED
    BY <1>k, <1>r, <1>t, <2>1, <2>2 DEF Goal
<1>8. CASE LinkCluster
  <2>1. /\ entryFirst' = entryFirst /\ held' = held /\ head' = head /\ pc = "link"
        /\ fat' = [fat EXCEPT ![tail] = cur]
    BY <1>8 DEF LinkCluster
  <2>2. /\ tail \in Clusters /\ cur \in Clusters /\ fat[tail] = EndOfChain
        /\ tail \in Reach({head})
    BY <2>1, <1>t DEF PathInv, ChainInv, WalkInv
  <2>3. fat'[tail] = cur /\ \A c \in Clusters : c # tail => fat'[c] = fat[c]
    BY <1>t, <2>1, <2>2
  <2>4. \A c \in S : IsLink(fat[c]) => fat[c] \in S
    BY <1>t, <2>2, <2>3 DEF IsLink
  <2>5. tail \in S
    BY <1>h, <1>r, <2>1, <2>2, <2>4
  <2>6. cur \in S
    BY <2>2, <2>3, <2>5 DEF IsLink
  <2>7. \A c \in Clusters : InUse(c) => c \in S
    BY <1>r, <1>u, <2>1, <2>4, <2>6
  <2> QED
    BY <2>3, <2>5, <2>7 DEF Goal, InUse, IsLink
<1>9. CASE AdoptChain
  <2>1. /\ fat' = fat /\ entryFirst' = entryFirst /\ cur = NoCluster
        /\ held[owner] \in {NoCluster, head}
        /\ held' = [held EXCEPT ![owner] = head] /\ owner \in Owners
    BY <1>9, <1>t DEF AdoptChain, PathInv
  <2>2. head = held'[owner] /\ \A p \in Owners : p # owner => held'[p] = held[p]
    BY <1>t, <2>1
  <2>3. head \in Clusters => head \in S
    BY <1>r, <2>1, <2>2
  <2>4. \A p \in Owners : held[p] \in Clusters => held[p] \in S
    BY <1>r, <1>t, <2>1, <2>2, <2>3
  <2> QED
    BY <1>k, <1>r, <1>t, <2>1, <2>3, <2>4 DEF Goal
<1>10. CASE PersistShrink
  <2>1. /\ fat' = fat /\ held' = held /\ head' = head /\ cur = NoCluster /\ pc = "shrink"
        /\ owner \in Owners /\ entryFirst' = [entryFirst EXCEPT ![owner] = held[owner]]
    BY <1>10, <1>t DEF PersistShrink, PathInv
  <2>2. \A p \in Owners : p # owner => entryFirst'[p] = entryFirst[p]
    BY <1>t, <2>1
  <2>3. entryFirst[owner] \in {NoCluster, held[owner], head}
    BY <1>i, <2>1
  <2>4. \A p \in Owners : /\ entryFirst[p] \in Clusters => entryFirst[p] \in S
                          /\ held[p] \in Clusters => held[p] \in S
    BY <1>r, <1>t, <2>1, <2>2, <2>3
  <2> QED
    BY <1>k, <1>r, <1>t, <2>1, <2>4 DEF Goal
<1>11. CASE CutChain
  <2>1. /\ entryFirst' = entryFirst /\ held' = held /\ head' = head /\ cur = tail
        /\ pc = "cut" /\ fat' = [fat EXCEPT ![tail] = EndOfChain] /\ cur' = fat[tail]
    BY <1>11 DEF CutChain, PathInv
  <2>2. /\ tail \in Clusters /\ IsLink(fat[tail]) /\ tail \in Reach({head})
    BY <2>1, <1>t DEF PathInv, ChainInv, WalkInv
  <2>3. \A c \in Clusters : c # tail => fat'[c] = fat[c]
    BY <1>t, <2>1
  <2>4. fat[tail] \in S
    BY <1>r, <2>1, <2>2 DEF IsLink
  <2>5. \A c \in S : IsLink(fat[c]) => fat[c] \in S
    BY <2>3, <2>4
  <2>6. tail \in S
    BY <1>h, <1>r, <2>1, <2>2, <2>5
  <2>7. \A c \in Clusters : InUse(c) => c \in S
    BY <1>r, <1>u, <2>1, <2>5, <2>6
  <2> QED
    BY <2>3, <2>6, <2>7 DEF Goal, InUse, IsLink
<1>12. CASE FreeChain
  <2>1. /\ entryFirst' = entryFirst /\ held' = held /\ pc = "free"
        /\ fat' = [fat EXCEPT ![cur] = Free]
    BY <1>12 DEF FreeChain, ChainInv, CallInv
  <2>2. cur \in Clusters /\ owner \in Owners /\ (head \in {held[owner], cur} \/ fat[head] = Free)
    BY <1>t, <2>1 DEF PathInv, ChainInv, WalkInv
  <2>3. IsLink(fat[cur]) => fat[cur] \in S
    <3>1. SUFFICES ASSUME IsLink(fat[cur]) PROVE fat[cur] \in S
      OBVIOUS
    <3>2. count < ClusterCount
      BY <2>1, <3>1, MarkersDistinct, WalkedIsSound DEF NeverCorrupt, IsLink
    <3>3. cur' = fat[cur]
      BY <1>12, <3>1, <3>2 DEF FreeChain, InUse
    <3> QED
      BY <1>r, <3>1, <3>3 DEF IsLink
  <2>4. fat'[cur] = Free /\ \A c \in Clusters : c # cur => fat'[c] = fat[c]
    BY <1>t, <2>1, <2>2
  <2> DEFINE T == S \cup {cur} \cup ({head} \cap Clusters)
  <2>5. T \in SUBSET Clusters
    BY <2>2
  <2>6. \A c \in T : c \in S \/ c = cur \/ c = held[owner] \/ fat[c] = Free
    BY <2>2
  <2>7. held[owner] \in Clusters => held[owner] \in S
    BY <1>r, <2>1, <2>2
  <2>8. \A c \in T : IsLink(fat[c]) => fat[c] \in T
    BY <1>t, <2>3, <2>4, <2>5, <2>6, <2>7 DEF IsLink
  <2>9. \A c \in Clusters : InUse(c) => c \in T
    <3>1. \A o \in Owners : /\ entryFirst[o] \in Clusters => entryFirst[o] \in T
                            /\ held[o] \in Clusters => held[o] \in T
      BY <1>r, <2>1
    <3>2. (head \in Clusters => head \in T) /\ (cur \in Clusters => cur \in T)
      OBVIOUS
    <3> HIDE DEF T
    <3> QED
      BY <1>u, <2>5, <2>8, <3>1, <3>2
  <2>10. ASSUME NEW c \in Clusters, InUse(c)' PROVE c \in S
    <3>1. c # cur
      BY <1>t, <2>4, <2>10 DEF InUse, IsLink
    <3>2. InUse(c)
      BY <2>4, <2>10, <3>1 DEF InUse, IsLink
    <3>3. c \in T /\ fat[c] # Free
      BY <1>t, <2>9, <3>2 DEF InUse, IsLink
    <3> QED
      BY <2>6, <2>7, <3>1, <3>3
  <2> QED
    BY <2>10 DEF Goal
<1>13. CASE DeleteFoundEntry
  <2>1. /\ fat' = fat /\ held' = held /\ cur = NoCluster /\ pc = "unlink"
        /\ owner \in Owners /\ entryFirst' = [entryFirst EXCEPT ![owner] = NoCluster]
        /\ head = entryFirst[owner] /\ (head # NoCluster => head' = head)
    BY <1>13, <1>t DEF DeleteFoundEntry, PathInv, ChainInv, CallInv
  <2>2. \A p \in Owners : p # owner => entryFirst'[p] = entryFirst[p]
    BY <1>t, <2>1
  <2>3. head \in Clusters => head \in S
    BY <1>r, <1>t, <2>1
  <2>4. \A p \in Owners : /\ entryFirst[p] \in Clusters => entryFirst[p] \in S
                          /\ held[p] \in Clusters => held[p] \in S
    BY <1>r, <1>t, <2>1, <2>2, <2>3
  <2> QED
    BY <1>k, <1>t, <2>1, <2>3, <2>4 DEF Goal
<1>14. CASE AllocationRefused
  <2>1. /\ fat' = fat /\ entryFirst' = entryFirst /\ held' = held /\ cur = NoCluster
        /\ owner \in Owners /\ head \in {NoCluster, held[owner]}
    BY <1>14, <1>t DEF AllocationRefused, PathInv, LeavesClusters
  <2> QED
    BY <1>k, <1>r, <1>t, <2>1 DEF Goal
<1> QED
  BY <1>1, <1>2, <1>3, <1>4, <1>5, <1>6, <1>7, <1>8, <1>9, <1>10, <1>11, <1>12,
     <1>13, <1>14 DEF Call, Step, Goal

LEMMA CoveredNext ==
  ChainInv /\ PathInv /\ WalkedInv /\ EntryInv /\ (failed \/ Covered) /\ [Next]_vars =>
    (failed \/ Covered)'
<1> SUFFICES ASSUME ChainInv, PathInv, WalkedInv, EntryInv, failed \/ Covered,
                    [Next]_vars, ~ failed'
             PROVE  Covered'
  OBVIOUS
<1>1. Covered /\ EntryLags
  BY NotFailed DEF EntryInv
<1>2. CASE UNCHANGED vars
  BY <1>1, <1>2
     DEF Covered, Roots, InUse, IsLink, vars, chainVars, refVars, callVars
<1> QED
  BY <1>1, <1>2, NotFailed, CoveredStep

(* As long as no call of FatChains failed, every cluster in use hangs from *)
(* an entry, a handle or the call that runs: allocate_cluster,             *)
(* truncate_chain and free_chain lose none.                                *)
THEOREM NothingLeaks == Spec => []NoLeak
<1>1. Init => EntryInv /\ (failed \/ Covered)
  <2> SUFFICES ASSUME Init PROVE EntryInv /\ Covered
    OBVIOUS
  <2>1. EntryInv
    BY DEF Init, EntryInv, EntryLags
  <2>2. AllReached
    BY Zenon DEF Init, NoLeak
  <2>3. fat \in [Clusters -> FatEntries]
    BY DEF Init
  <2> QED
    BY <2>1, <2>2, <2>3, CoveredIsNoLeak
<1>2. ChainInv /\ (failed \/ Covered) => NoLeak
  <2> SUFFICES ASSUME ChainInv, Covered PROVE AllReached
    BY DEF NoLeak
  <2>1. fat \in [Clusters -> FatEntries]
    BY DEF ChainInv, WalkInv, ChainTypeOK
  <2> QED
    BY <2>1, CoveredIsNoLeak
<1>3. Init => WalkedInv
  BY DEF Init, NoCall, WalkedInv
<1> QED
  BY <1>1, <1>2, <1>3, WalkedNext, EntryNext, CoveredNext, PathInvariant, ChainInvariant,
     PTL DEF Spec

=============================================================================
