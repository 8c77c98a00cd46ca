------------------------------ MODULE FatChains ------------------------------
(***************************************************************************)
(* Cluster chains of a FAT volume: the FAT, the chain routines of          *)
(* ChainAccess and AllocationAccess, and the calls that need one of them:  *)
(* those of FileWrite, a removal, and a directory that grows.  The calls   *)
(* of several parts, create_directory and rename, are in VolumeChains;     *)
(* what is said here of Spec is said of the calls of this module alone.    *)
(*                                                                         *)
(* The library is called through &mut self, so one call runs at a time;    *)
(* what can come between two device accesses of a call is an I/O error, a  *)
(* dropped future or a power cut.  Every action below is therefore at most *)
(* one device write, preceded by the reads that decide it.                 *)
(*                                                                         *)
(* An owner is a directory entry.  entryFirst is the first-cluster field   *)
(* stored in it, held the first_cluster of the handle the application      *)
(* keeps open on it (one handle per entry).                                *)
(***************************************************************************)
EXTENDS Integers, FiniteSets

CONSTANTS
  ClusterCount,   \* Volume::cluster_count
  MaxRequired,    \* bound on the chain lengths callers ask for
  Owners,         \* directory entries that may own a chain
  NoOwner         \* no call runs

ASSUME ChainAssumption ==
  /\ ClusterCount \in Nat \ {0}
  /\ MaxRequired \in Nat
  /\ NoOwner \notin Owners

VARIABLES
  fat,         \* the active FAT, decoded: cluster -> FatEntry
  dirty,       \* clusters whose bytes were last written for somebody else
  entryFirst,  \* owner -> first cluster on disk
  held,        \* owner -> first cluster in the open handle
  pc,          \* the routine that runs, "idle" between calls
  owner,       \* entry the call works for
  need,        \* `required` of an extension, `keep_clusters` of a cut
  head,        \* the caller's local `first`
  tail,        \* `tail`/`previous` of an extension, `last` of a cut
  cur,         \* `current`, or the cluster being allocated
  count,       \* iterations of the loop so far (`length`)
  failed       \* history: some call ended early, or the device was remounted

chainVars == <<fat, dirty>>
refVars   == <<entryFirst, held>>
callVars  == <<pc, owner, need, head, tail, cur, count>>
vars      == <<chainVars, refVars, callVars, failed>>

-----------------------------------------------------------------------------
(* FatEntry.  A link is the number of the next cluster.  Reserved stands   *)
(* for every other value that next_cluster refuses: reserved markers and   *)
(* links past max_cluster.  Option<Cluster>::None is NoCluster, the value  *)
(* 0 that a directory entry stores for it.                                 *)

NoCluster  == 0
Free       == 0
Reserved   == 1
EndOfChain == -1
Bad        == -2

Clusters   == 2 .. (ClusterCount + 1)
FatEntries == Clusters \cup {Free, Reserved, EndOfChain, Bad}
IsLink(e)  == e \in Clusters
InUse(c)   == IsLink(fat[c]) \/ fat[c] = EndOfChain

(* Mutant: a scan that takes any cluster but bad ones and chain ends.      *)
IsNextFree_AnyLink(c) == fat[c] = Free \/ IsLink(fat[c])

(* find_free_cluster scans (start..=max).chain(2..start), from the tail    *)
(* being extended, or from cluster 2 for a new chain.                      *)
ScanRank(start, c) == IF c >= start THEN c - start ELSE c - start + ClusterCount
ScanStart == IF tail = NoCluster THEN 2 ELSE tail
IsNextFree(c) ==
  /\ fat[c] = Free
  /\ \A d \in Clusters :
       fat[d] = Free => ScanRank(ScanStart, c) <= ScanRank(ScanStart, d)

PCs == {"idle", "length", "mark", "clear", "link", "adopt",
        "shrink", "seek", "cut", "free", "unlink"}

(* A call returns: its locals are gone.                                    *)
Return ==
  /\ pc' = "idle"
  /\ need' = 0 /\ count' = 0
  /\ head' = NoCluster /\ tail' = NoCluster /\ cur' = NoCluster
  /\ owner' = NoOwner

(* A call returns an error, of its own (CorruptChain, NoSpace) or the      *)
(* device's.                                                               *)
ReturnError == Return /\ failed' = TRUE /\ UNCHANGED <<chainVars, refVars>>

-----------------------------------------------------------------------------
(* ensure_chain_length: measure the chain, then append clusters one by one *)

EnsureChainLength(o, required) ==
  /\ pc = "idle"
  /\ owner' = o
  /\ need' = required
  /\ head' = held[o]
  /\ cur' = held[o]
  /\ IF held[o] = NoCluster
       THEN pc' = "mark" /\ count' = 0
       ELSE pc' = "length" /\ count' = 1
  /\ UNCHANGED <<chainVars, refVars, tail, failed>>

(* Mutant: the walk is not bounded.                                        *)
ChainTailAndLength_NoBound ==
  /\ pc = "length"
  /\ \/ /\ IsLink(fat[cur])
        /\ cur' = fat[cur]
        /\ UNCHANGED <<chainVars, refVars, pc, owner, need, head, tail, count, failed>>
     \/ /\ fat[cur] = EndOfChain
        /\ tail' = cur
        /\ cur' = NoCluster
        /\ pc' = IF count < need THEN "mark" ELSE "adopt"
        /\ UNCHANGED <<chainVars, refVars, owner, need, head, count, failed>>
     \/ /\ ~ IsLink(fat[cur])
        /\ fat[cur] # EndOfChain
        /\ ReturnError

ChainTailAndLength ==
  /\ pc = "length"
  /\ \/ /\ IsLink(fat[cur]) /\ count < ClusterCount
        /\ cur' = fat[cur]
        /\ count' = count + 1
        /\ UNCHANGED <<chainVars, refVars, pc, owner, need, head, tail, failed>>
     \/ /\ fat[cur] = EndOfChain
        /\ tail' = cur
        /\ cur' = NoCluster
        /\ pc' = IF count < need THEN "mark" ELSE "adopt"
        /\ UNCHANGED <<chainVars, refVars, owner, need, head, count, failed>>
     \/ /\ ~ (IsLink(fat[cur]) /\ count < ClusterCount)
        /\ fat[cur] # EndOfChain
        /\ ReturnError

(* allocate_cluster, first write: the scan, and EndOfChain for the cluster *)
(* it found.                                                               *)
MarkAllocated ==
  /\ pc = "mark"
  /\ tail # NoCluster => fat[tail] = EndOfChain
  /\ \E c \in Clusters :
       /\ IsNextFree(c)
       /\ fat' = [fat EXCEPT ![c] = EndOfChain]
       /\ cur' = c
  /\ pc' = "clear"
  /\ UNCHANGED <<dirty, refVars, owner, need, head, tail, count, failed>>

(* allocate_cluster refuses a tail that is not the end of a chain (which   *)
(* ensure_chain_length never hands it, see TailIsLast), find_free_cluster  *)
(* a full volume.                                                          *)
AllocationRefused ==
  /\ pc = "mark"
  /\ \/ tail # NoCluster /\ fat[tail] # EndOfChain
     \/ \A c \in Clusters : fat[c] # Free
  /\ ReturnError

(* Mutant: the new cluster is linked with its old bytes.                   *)
ClearCluster_Skipped ==
  /\ pc = "clear"
  /\ IF tail # NoCluster
       THEN /\ pc' = "link"
            /\ UNCHANGED <<head, tail, cur, count>>
       ELSE /\ head' = cur /\ tail' = cur /\ cur' = NoCluster
            /\ count' = 1
            /\ pc' = IF 1 < need THEN "mark" ELSE "adopt"
  /\ UNCHANGED <<chainVars, refVars, owner, need, failed>>

(* clear_cluster: only then may the cluster be reached from a chain.       *)
(* Without a chain to append to, the new cluster is the chain.             *)
ClearCluster ==
  /\ pc = "clear"
  /\ dirty' = dirty \ {cur}
  /\ IF tail # NoCluster
       THEN /\ pc' = "link"
            /\ UNCHANGED <<head, tail, cur, count>>
       ELSE /\ head' = cur /\ tail' = cur /\ cur' = NoCluster
            /\ count' = 1
            /\ pc' = IF 1 < need THEN "mark" ELSE "adopt"
  /\ UNCHANGED <<fat, refVars, owner, need, failed>>

LinkCluster ==
  /\ pc = "link"
  /\ fat' = [fat EXCEPT ![tail] = cur]
  /\ tail' = cur
  /\ cur' = NoCluster
  /\ count' = count + 1
  /\ pc' = IF count + 1 < need THEN "mark" ELSE "adopt"
  /\ UNCHANGED <<dirty, refVars, owner, need, head, failed>>

(* The caller stores the chain in its handle.                              *)
(* Mutant: the last cluster appended is taken for the first of the chain.  *)
AdoptChain_Tail ==
  /\ pc = "adopt"
  /\ held' = [held EXCEPT ![owner] = tail]
  /\ Return
  /\ UNCHANGED <<chainVars, entryFirst, failed>>

AdoptChain ==
  /\ pc = "adopt"
  /\ held' = [held EXCEPT ![owner] = head]
  /\ Return
  /\ UNCHANGED <<chainVars, entryFirst, failed>>

(* persist_file_info: the handle's first cluster goes to the entry.        *)
PersistFileInfo(o) ==
  /\ pc = "idle"
  /\ entryFirst[o] # held[o]
  /\ entryFirst' = [entryFirst EXCEPT ![o] = held[o]]
  /\ UNCHANGED <<chainVars, held, callVars, failed>>

-----------------------------------------------------------------------------
(* truncate_file, shrinking: the entry first, then the chain.              *)

BeginShrink(o, keep) ==
  /\ pc = "idle"
  /\ held[o] # NoCluster
  /\ owner' = o
  /\ need' = keep
  /\ head' = held[o]
  /\ held' = IF keep = 0 THEN [held EXCEPT ![o] = NoCluster] ELSE held
  /\ pc' = "shrink"
  /\ UNCHANGED <<chainVars, entryFirst, tail, cur, count, failed>>

(* truncate_chain frees everything, or first looks for the last cluster to *)
(* keep.                                                                   *)
PersistShrink ==
  /\ pc = "shrink"
  /\ entryFirst' = [entryFirst EXCEPT ![owner] = held[owner]]
  /\ cur' = head
  /\ count' = 1
  /\ pc' = IF need = 0 THEN "free" ELSE "seek"
  /\ UNCHANGED <<chainVars, held, owner, need, head, tail, failed>>

(* Mutant: the end marker is followed like a link.                         *)
ClusterAt_PastEnd ==
  /\ pc = "seek"
  /\ \/ /\ count < need
        /\ cur' = fat[cur]
        /\ count' = count + 1
        /\ UNCHANGED <<chainVars, refVars, pc, owner, need, head, tail, failed>>
     \/ /\ count = need
        /\ tail' = cur
        /\ pc' = "cut"
        /\ UNCHANGED <<chainVars, refVars, owner, need, head, cur, count, failed>>

(* cluster_at(first, keep_clusters - 1), and next_cluster of what it found *)
ClusterAt ==
  /\ pc = "seek"
  /\ \/ /\ IsLink(fat[cur]) /\ count < need
        /\ cur' = fat[cur]
        /\ count' = count + 1
        /\ UNCHANGED <<chainVars, refVars, pc, owner, need, head, tail, failed>>
     \/ /\ IsLink(fat[cur]) /\ count = need
        /\ tail' = cur
        /\ pc' = "cut"
        /\ UNCHANGED <<chainVars, refVars, owner, need, head, cur, count, failed>>
     \/ /\ fat[cur] = EndOfChain /\ count = need
        /\ Return
        /\ UNCHANGED <<chainVars, refVars, failed>>
     \/ /\ ~ IsLink(fat[cur])
        /\ ~ (fat[cur] = EndOfChain /\ count = need)
        /\ ReturnError

(* Mutant: the tail is freed while the last kept cluster still links to it. *)
CutChain_KeepLink ==
  /\ pc = "cut"
  /\ cur' = fat[tail]
  /\ count' = 1
  /\ pc' = "free"
  /\ UNCHANGED <<chainVars, refVars, owner, need, head, tail, failed>>

CutChain ==
  /\ pc = "cut"
  /\ fat' = [fat EXCEPT ![tail] = EndOfChain]
  /\ cur' = fat[tail]
  /\ count' = 1
  /\ pc' = "free"
  /\ UNCHANGED <<dirty, refVars, owner, need, head, tail, failed>>

(* Mutant: an entry is freed whatever it says.                             *)
FreeChain_Unchecked ==
  /\ pc = "free"
  /\ fat' = [fat EXCEPT ![cur] = Free]
  /\ dirty' = dirty \cup {cur}
  /\ IF IsLink(fat[cur]) /\ count < ClusterCount
       THEN /\ cur' = fat[cur]
            /\ count' = count + 1
            /\ UNCHANGED <<pc, owner, need, head, tail, failed>>
       ELSE /\ Return
            /\ failed' = (failed \/ IsLink(fat[cur]))
  /\ UNCHANGED refVars

(* free_chain: one iteration, front to back.                               *)
FreeChain ==
  /\ pc = "free"
  /\ \/ /\ InUse(cur)
        /\ fat' = [fat EXCEPT ![cur] = Free]
        /\ dirty' = dirty \cup {cur}
        /\ IF IsLink(fat[cur]) /\ count < ClusterCount
             THEN /\ cur' = fat[cur]
                  /\ count' = count + 1
                  /\ UNCHANGED <<pc, owner, need, head, tail, failed>>
             ELSE /\ Return
                  /\ failed' = (failed \/ IsLink(fat[cur]))
        /\ UNCHANGED refVars
     \/ ~ InUse(cur) /\ ReturnError

(* remove_file, remove_directory: the entry found on disk is deleted, then *)
(* its chain is freed.  The application's handle is of no use any more.    *)
BeginRemove(o) ==
  /\ pc = "idle"
  /\ entryFirst[o] # NoCluster \/ held[o] # NoCluster
  /\ owner' = o
  /\ head' = entryFirst[o]
  /\ held' = [held EXCEPT ![o] = NoCluster]
  /\ failed' = (failed \/ held[o] # entryFirst[o])
  /\ pc' = "unlink"
  /\ UNCHANGED <<chainVars, entryFirst, need, tail, cur, count>>

DeleteFoundEntry ==
  /\ pc = "unlink"
  /\ entryFirst' = [entryFirst EXCEPT ![owner] = NoCluster]
  /\ IF head = NoCluster
       THEN Return
       ELSE /\ pc' = "free" /\ cur' = head /\ count' = 1
            /\ UNCHANGED <<owner, need, head, tail>>
  /\ UNCHANGED <<chainVars, held, failed>>

-----------------------------------------------------------------------------
(* What interrupts a call, in a routine above or between two of them: a    *)
(* device error or a dropped future ends the call and leaves the handles;  *)
(* a power cut or an unmount also loses them, and open_file reads them     *)
(* back from the entries.                                                  *)

CallAborted == ReturnError

Remount ==
  /\ held' = entryFirst
  /\ failed' = TRUE
  /\ Return
  /\ UNCHANGED <<chainVars, entryFirst>>

-----------------------------------------------------------------------------
(* Chains, seen from outside a call.                                       *)

HasPredecessor(c) == \E d \in Clusters : fat[d] = c
Referenced(c) == \E o \in Owners : entryFirst[o] = c \/ held[o] = c

(* The clusters reached from a set of clusters.                            *)
Reach(roots) ==
  LET from[n \in 0 .. ClusterCount] ==
        IF n = 0 THEN roots \cap Clusters
        ELSE from[n - 1] \cup {fat[c] : c \in {d \in from[n - 1] : IsLink(fat[d])}}
  IN  from[ClusterCount]

ChainOf(o) == Reach({entryFirst[o]})

(* Chains do not cross: a cluster has one predecessor.                     *)
ChainsDoNotCross ==
  \A c, d \in Clusters : IsLink(fat[c]) /\ fat[c] = fat[d] => c = d

(* No link, entry or handle leads to a cluster that is free, bad or        *)
(* reserved.                                                               *)
NothingDangles ==
  /\ \A c \in Clusters : IsLink(fat[c]) => InUse(fat[c])
  /\ \A o \in Owners : /\ entryFirst[o] # NoCluster => InUse(entryFirst[o])
                       /\ held[o] # NoCluster => InUse(held[o])

(* The first cluster of an entry or a handle is the first of its chain,    *)
(* and two owners have two chains.                                         *)
HeadsAreHeads ==
  /\ \A c \in Clusters : Referenced(c) => ~ HasPredecessor(c)
  /\ \A o, p \in Owners :
       /\ entryFirst[o] = entryFirst[p] /\ entryFirst[o] # NoCluster => o = p
       /\ held[o] = held[p] /\ held[o] # NoCluster => o = p
       /\ held[o] = entryFirst[p] /\ held[o] # NoCluster => o = p

(* No entry, handle or chain shows bytes that were written for a deleted   *)
(* owner.                                                                  *)
NoStaleExposure ==
  \A c \in dirty : ~ HasPredecessor(c) /\ ~ Referenced(c)

(* Every cluster in use belongs to an entry, a handle or the call that     *)
(* runs; NoLeak: as long as no call of this module failed.                 *)
Roots == {entryFirst[o] : o \in Owners} \cup {held[o] : o \in Owners} \cup {head, cur}
AllReached == \A c \in Clusters : InUse(c) => c \in Reach(Roots)
NoLeak == failed \/ AllReached

-----------------------------------------------------------------------------
NoCall ==
  /\ pc = "idle" /\ owner = NoOwner
  /\ need = 0 /\ count = 0
  /\ head = NoCluster /\ tail = NoCluster /\ cur = NoCluster

(* A volume that a formatter or this library left behind: proper chains,   *)
(* all of them owned, bad clusters anywhere, and old bytes in every free   *)
(* cluster.                                                                *)
Init ==
  /\ fat \in [Clusters -> FatEntries]
  /\ ChainsDoNotCross
  /\ dirty = {c \in Clusters : fat[c] = Free}
  /\ entryFirst \in [Owners -> Clusters \cup {NoCluster}]
  /\ held = entryFirst
  /\ NothingDangles
  /\ HeadsAreHeads
  /\ NoCall
  /\ failed = FALSE
  /\ NoLeak

(* Any image at all: cyclic, crossing or dangling chains.                  *)
CorruptInit ==
  /\ fat \in [Clusters -> FatEntries]
  /\ dirty = {}
  /\ entryFirst \in [Owners -> Clusters \cup {NoCluster}]
  /\ held = entryFirst
  /\ NoCall
  /\ failed = FALSE

-----------------------------------------------------------------------------
Call ==
  \E o \in Owners :
    \/ \E k \in 1 .. MaxRequired : EnsureChainLength(o, k)
    \/ \E k \in 0 .. MaxRequired : BeginShrink(o, k)
    \/ PersistFileInfo(o)
    \/ BeginRemove(o)

Step ==
  \/ ChainTailAndLength
  \/ MarkAllocated
  \/ AllocationRefused
  \/ ClearCluster
  \/ LinkCluster
  \/ AdoptChain
  \/ PersistShrink
  \/ ClusterAt
  \/ CutChain
  \/ FreeChain
  \/ DeleteFoundEntry

Interrupt == CallAborted \/ Remount

Next == Call \/ Step \/ Interrupt

Spec == Init /\ [][Next]_vars
CorruptSpec == CorruptInit /\ [][Next]_vars /\ WF_vars(Step)
-----------------------------------------------------------------------------
(* The steps that may leave clusters in use for nobody, interruptions      *)
(* apart: NoSpace while a first chain is built, whose clusters only the    *)
(* local `first` of the caller knows, and the removal of a file whose      *)
(* handle has a chain that was never stored.                               *)
LeavesClusters ==
  \/ pc = "mark" /\ pc' = "idle" /\ head \notin {NoCluster, held[owner]}
  \/ pc = "idle" /\ pc' = "unlink" /\ held[owner'] # entryFirst[owner']

-----------------------------------------------------------------------------
(* Types.                                                                  *)
ChainTypeOK ==
  /\ fat \in [Clusters -> FatEntries]
  /\ dirty \subseteq Clusters
  /\ entryFirst \in [Owners -> Clusters \cup {NoCluster}]
  /\ held \in [Owners -> Clusters \cup {NoCluster}]
  /\ pc \in PCs
  /\ owner \in Owners \cup {NoOwner}
  /\ owner = NoOwner <=> pc = "idle"
  /\ need \in 0 .. MaxRequired
  /\ head \in Clusters \cup {NoCluster}
  /\ tail \in Clusters \cup {NoCluster}
  /\ cur \in Clusters \cup {NoCluster}
  /\ count \in Nat

TypeOK == ChainTypeOK /\ failed \in BOOLEAN

-----------------------------------------------------------------------------
(* What a running call relies on.  WalkInv holds on any image: which       *)
(* clusters the call's locals stand for.                                   *)
WalkInv ==
  /\ ChainTypeOK
  /\ pc \in {"length", "clear", "link", "seek", "free"} => cur \in Clusters
  /\ pc \in {"clear", "link"} => fat[cur] = EndOfChain /\ cur # tail
  /\ pc \in {"mark", "clear", "link"} /\ tail # NoCluster => fat[tail] = EndOfChain
  /\ pc \in {"link", "cut"} => tail \in Clusters
  /\ pc = "cut" => IsLink(fat[tail])
  /\ pc = "shrink" => head \in Clusters
  /\ pc = "idle" => tail = NoCluster

(* No other entry refers to the cluster.                                   *)
OwnedBy(o, c) == \A p \in Owners : (entryFirst[p] = c \/ held[p] = c) => p = o

(* On a consistent volume: the chain that is being built hangs from head   *)
(* and is nobody else's, the cluster that is being allocated or freed      *)
(* hangs from nothing.                                                     *)
CallInv ==
  /\ pc \in {"length", "seek", "free"} => InUse(cur)
  /\ pc \in {"clear", "link", "free"} => ~ HasPredecessor(cur) /\ ~ Referenced(cur)
  /\ pc \in {"clear", "link"} => cur # head
  /\ pc = "link" => cur \notin dirty
  /\ pc = "length" => head = held[owner] /\ head # NoCluster
  /\ pc \in {"mark", "clear", "link", "adopt", "shrink"} /\ head # NoCluster =>
       /\ InUse(head) /\ ~ HasPredecessor(head)
       /\ head \notin dirty
       /\ OwnedBy(owner, head)
  /\ pc = "shrink" /\ need = 0 => held[owner] = NoCluster
  /\ pc = "unlink" => head = entryFirst[owner] /\ held[owner] = NoCluster

(* The inductive invariant.                                                *)
ChainInv ==
  /\ WalkInv
  /\ ChainsDoNotCross
  /\ NothingDangles
  /\ HeadsAreHeads
  /\ NoStaleExposure
  /\ CallInv

(* On a consistent volume the walks count clusters they have not counted   *)
(* before: those of chain_tail_and_length lie between head and cur, those  *)
(* free_chain has released are free.                                       *)
WalkedInv ==
  /\ pc = "length" =>
       \E W \in SUBSET Clusters :
         /\ Cardinality(W) = count
         /\ head \in W /\ cur \in W
         /\ \A c \in W \ {head} : \E d \in W \ {cur} : fat[d] = c
  /\ pc = "free" =>
       \E F \in SUBSET Clusters :
         /\ Cardinality(F) = count - 1
         /\ \A c \in F : fat[c] = Free

(* Where the clusters a call holds in its locals hang: those it has walked *)
(* to hang from head, and head is what the handle held when it began.      *)
PathInv ==
  /\ pc \in {"length", "seek"} => cur \in Reach({head})
  /\ pc \in {"mark", "clear", "link", "cut"} /\ tail # NoCluster =>
       tail \in Reach({head})
  /\ pc = "cut" => cur = tail
  /\ pc \in {"seek", "cut"} => need # 0
  /\ pc \in {"seek", "cut", "shrink"} /\ need # 0 => head = held[owner]
  /\ pc \in {"mark", "clear"} /\ tail = NoCluster => head = NoCluster
  /\ pc \in {"length", "mark", "clear", "link", "adopt"} =>
       held[owner] \in {NoCluster, head}
  /\ pc \in {"idle", "mark", "adopt", "shrink", "unlink"} => cur = NoCluster
  /\ pc = "idle" => head = NoCluster
  /\ pc \in {"seek", "cut", "free"} => head # NoCluster
  /\ pc = "free" => head \in {held[owner], cur} \/ fat[head] = Free

(* An entry lags its handle only by a chain that is not stored yet, or     *)
(* that the running call is about to release: while no call has failed.    *)
EntryLags ==
  \A o \in Owners :
    \/ entryFirst[o] \in {NoCluster, held[o]}
    \/ o = owner /\ pc \in {"shrink", "unlink"} /\ entryFirst[o] = head
EntryInv == failed \/ EntryLags

-----------------------------------------------------------------------------
(* The bounded walks of chain_tail_and_length and free_chain reach the end *)
(* of the chain, and allocate_cluster finds its tail at the end: none of   *)
(* them reports CorruptChain.                                              *)
NeverCorrupt ==
  /\ pc \in {"length", "free"} =>
       \/ fat[cur] = EndOfChain
       \/ IsLink(fat[cur]) /\ count < ClusterCount
  /\ pc \in {"mark", "link"} /\ tail # NoCluster => fat[tail] = EndOfChain

(* A step leaves the chains of the other owners, and their bytes, alone.   *)
OthersKeptByStep ==
  \A o \in Owners \ {owner, owner'} :
    /\ entryFirst'[o] \in {entryFirst[o], held[o]}
    /\ \A c \in ChainOf(o) : fat'[c] = fat[c] /\ (c \in dirty' => c \in dirty)
OthersUntouched == [][OthersKeptByStep]_vars

(* Bad and reserved FAT entries keep their value, on any image.            *)
MarkersPreserved ==
  [][\A c \in Clusters : fat[c] \in {Bad, Reserved} => fat'[c] = fat[c]]_vars

(* Every routine returns, on any image: chain_tail_and_length and          *)
(* free_chain are bounded by the number of clusters, even where the links  *)
(* form a cycle; cluster_at and the allocations by what was asked for.     *)
CallReturns == (pc # "idle") ~> (pc = "idle")
=============================================================================
