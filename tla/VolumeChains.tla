---------------------------- MODULE VolumeChains ----------------------------
(***************************************************************************)
(* The cluster chains under all calls of FileWrite and DirectoryWrite:     *)
(* those of FatChains, and the two that are made of several parts.         *)
(*                                                                         *)
(* create_directory allocates a cluster, writes dot entries into it,       *)
(* writes an entry into the parent, which may have to grow for it, and     *)
(* frees the cluster again if that fails.  rename writes a second entry    *)
(* for a chain and then deletes the first; in between, and after a rename  *)
(* that ended early, two entries lead to one chain.                        *)
(*                                                                         *)
(* Both come to the routines of FatChains through write_directory_at,      *)
(* when a directory grows for a slot of the entry, or for the end marker   *)
(* behind it.  `doing` is where such a call is, pc the routine it runs.    *)
(***************************************************************************)
EXTENDS FatChains

CONSTANT
  Twins        \* entries beyond the first of each file, as many as renames may leave

ASSUME VolumeAssumption == MaxRequired # 0

VARIABLES
  twin,        \* Twins -> first cluster in that entry, NoCluster if there is none
  doing,       \* part of the composed call that runs, "nothing" if none does
  subject,     \* file or directory it creates or renames
  lost,        \* history: clusters may be in use for nobody
  spoilt       \* history: a chain was freed that another visible entry leads to

composedVars == <<doing, subject>>
historyVars  == <<lost, spoilt>>
volumeVars   == <<vars, twin, composedVars, historyVars>>

Parts == {"nothing", "make", "undo", "rename", "renamed"}
TwinClusters == {twin[t] : t \in Twins} \ {NoCluster}

(* The composed call is over.                                              *)
Done == doing' = "nothing" /\ subject' = NoOwner

-----------------------------------------------------------------------------
(* A call of FatChains by itself.                                          *)
PlainCall ==
  /\ doing = "nothing"
  /\ Call
  /\ lost' = (lost \/ LeavesClusters)
  /\ UNCHANGED <<twin, composedVars, spoilt>>

(* write_directory_at: the directory p, which has a chain, grows to hold a *)
(* slot.  p is not below the subject: directory_contains refuses that.     *)
GrowDirectory(p, k) ==
  /\ doing \in {"make", "rename", "renamed"}
  /\ p # subject
  /\ held[p] # NoCluster /\ held[p] = entryFirst[p]
  /\ EnsureChainLength(p, k)
  /\ UNCHANGED <<twin, composedVars, historyVars>>

(* What a composed call does next when its routine returns an error:       *)
(* create_directory frees its cluster if it has it, rename just returns.   *)
AfterError ==
  IF doing = "make" /\ owner # subject
    THEN doing' = "undo" /\ UNCHANGED subject
    ELSE Done

(* A step of the routine that runs.  A chain that a removal, or a file cut *)
(* to nothing, starts to free is spoilt for an entry that shares it.       *)
RoutineStep ==
  /\ Step
  /\ IF doing # "nothing" /\ pc # "adopt" /\ pc' = "idle"
       THEN AfterError
       ELSE UNCHANGED composedVars
  /\ lost' = (lost \/ LeavesClusters)
  /\ spoilt' = (spoilt \/ (pc \in {"shrink", "unlink"} /\ pc' = "free"
                             /\ head \in TwinClusters))
  /\ UNCHANGED twin

-----------------------------------------------------------------------------
(* create_directory: allocate_cluster(None) first.                         *)
CreateDirectory(o) ==
  /\ doing = "nothing"
  /\ held[o] = NoCluster /\ entryFirst[o] = NoCluster
  /\ EnsureChainLength(o, 1)
  /\ doing' = "make" /\ subject' = o
  /\ UNCHANGED <<twin, historyVars>>

(* create_named_entry writes the short entry, and the directory is there;  *)
(* the end marker behind it comes after.                                   *)
PublishDirectory ==
  /\ doing = "make"
  /\ PersistFileInfo(subject)
  /\ UNCHANGED <<twin, composedVars, historyVars>>

DirectoryMade ==
  /\ pc = "idle" /\ doing = "make"
  /\ entryFirst[subject] = held[subject]
  /\ Done
  /\ UNCHANGED <<vars, twin, historyVars>>

(* Mutant: the error is returned and the cluster stays in use.             *)
UndoDirectory_KeepCluster ==
  /\ pc = "idle" /\ doing \in {"make", "undo"}
  /\ held' = [held EXCEPT ![subject] = entryFirst[subject]]
  /\ failed' = TRUE
  /\ Done
  /\ UNCHANGED <<chainVars, entryFirst, callVars, twin, historyVars>>

(* create_named_entry failed, of its own or with the device, and           *)
(* create_directory frees the cluster: also when the entry is visible      *)
(* already and only the end marker behind it was missing.                  *)
UndoDirectory ==
  /\ pc = "idle" /\ doing \in {"make", "undo"}
  /\ pc' = "free"
  /\ owner' = subject
  /\ head' = held[subject] /\ cur' = held[subject] /\ count' = 1
  /\ held' = [held EXCEPT ![subject] = NoCluster]
  /\ failed' = TRUE
  /\ spoilt' = (spoilt \/ entryFirst[subject] # NoCluster)
  /\ Done
  /\ UNCHANGED <<chainVars, entryFirst, need, tail, twin, lost>>

-----------------------------------------------------------------------------
(* rename: the entry is read; the application's handle on the file is of   *)
(* no use any more.  A rename is taken up while Twins has room for the     *)
(* entry it makes.                                                         *)
Rename(o) ==
  /\ pc = "idle" /\ doing = "nothing"
  /\ entryFirst[o] # NoCluster
  /\ \E t \in Twins : twin[t] = NoCluster
  /\ held' = [held EXCEPT ![o] = entryFirst[o]]
  /\ failed' = (failed \/ held[o] # entryFirst[o])
  /\ lost' = (lost \/ held[o] # entryFirst[o])
  /\ doing' = "rename" /\ subject' = o
  /\ UNCHANGED <<chainVars, entryFirst, callVars, twin, spoilt>>

PublishTwin ==
  /\ pc = "idle" /\ doing = "rename"
  /\ \E t \in Twins :
       /\ twin[t] = NoCluster
       /\ twin' = [twin EXCEPT ![t] = entryFirst[subject]]
  /\ doing' = "renamed"
  /\ UNCHANGED <<vars, subject, historyVars>>

(* Mutant: the source is not deleted.                                      *)
HideSource_Skipped ==
  /\ pc = "idle" /\ doing = "renamed"
  /\ Done
  /\ UNCHANGED <<vars, twin, historyVars>>

(* delete_found_entry(source).  Two entries with the same first cluster    *)
(* differ in nothing here: the one that stays is called the first.         *)
HideSource ==
  /\ pc = "idle" /\ doing = "renamed"
  /\ \E t \in Twins :
       /\ twin[t] = entryFirst[subject]
       /\ twin' = [twin EXCEPT ![t] = NoCluster]
  /\ Done
  /\ UNCHANGED <<vars, historyVars>>

-----------------------------------------------------------------------------
(* The device refuses an access of the growing parent's chain: the error   *)
(* comes out of create_named_entry.                                        *)
GrowthFails ==
  /\ doing = "make" /\ pc # "idle" /\ owner # subject
  /\ CallAborted
  /\ AfterError
  /\ lost' = TRUE
  /\ UNCHANGED <<twin, spoilt>>

(* A dropped future, or an error after which nothing more is done: the     *)
(* cluster create_directory has not stored yet is forgotten.               *)
Abandon ==
  /\ Return
  /\ held' = IF doing \in {"make", "undo"}
               THEN [held EXCEPT ![subject] = entryFirst[subject]]
               ELSE held
  /\ failed' = TRUE /\ lost' = TRUE
  /\ Done
  /\ UNCHANGED <<chainVars, entryFirst, twin, spoilt>>

RemountVolume ==
  /\ Remount
  /\ lost' = TRUE
  /\ Done
  /\ UNCHANGED <<twin, spoilt>>

-----------------------------------------------------------------------------
VolumeInit ==
  /\ Init
  /\ twin = [t \in Twins |-> NoCluster]
  /\ doing = "nothing" /\ subject = NoOwner
  /\ lost = FALSE /\ spoilt = FALSE

ComposedStep ==
  \/ PublishDirectory \/ DirectoryMade \/ UndoDirectory
  \/ PublishTwin \/ HideSource

VolumeNext ==
  \/ PlainCall
  \/ \E o \in Owners : CreateDirectory(o) \/ Rename(o)
  \/ \E p \in Owners, k \in 1 .. MaxRequired : GrowDirectory(p, k)
  \/ ComposedStep
  \/ RoutineStep
  \/ GrowthFails \/ Abandon \/ RemountVolume

VolumeSpec == VolumeInit /\ [][VolumeNext]_volumeVars

-----------------------------------------------------------------------------
VolumeTypeOK ==
  /\ TypeOK
  /\ twin \in [Twins -> Clusters \cup {NoCluster}]
  /\ doing \in Parts
  /\ subject \in Owners \cup {NoOwner}
  /\ subject = NoOwner <=> doing = "nothing"
  /\ lost \in BOOLEAN /\ spoilt \in BOOLEAN

(***************************************************************************)
(* The invariants hold until a chain was freed that another visible entry  *)
(* leads to.  Two steps do that: create_directory frees the cluster of an  *)
(* entry that is already visible, and one of the two entries a rename left *)
(* is removed, or its file cut to nothing.                                 *)
(***************************************************************************)

(* No cluster has two predecessors, however calls were interrupted: each   *)
(* cluster is marked before the next is looked for, a tail is cut off      *)
(* before it is freed, and a removed entry is gone before its chain is.    *)
NoCrossedChains == spoilt \/ ChainsDoNotCross

(* No link, handle or entry, a rename's second one included, leads to a    *)
(* cluster that is not in use, at any device write of any call.            *)
NoDanglingEntry ==
  spoilt \/ (NothingDangles /\ \A c \in TwinClusters : InUse(c))

(* Two entries share a chain only between the two ends of a rename, or     *)
(* where one ended early: a rename that returns Ok leaves one.  The chains *)
(* of two files are never one, and no entry leads into the middle of one.  *)
OnlyRenameShares ==
  spoilt \/ /\ HeadsAreHeads
            /\ \A c \in TwinClusters : ~ HasPredecessor(c)
            /\ failed \/ doing = "renamed" \/ TwinClusters = {}

(* A cluster is cleared before an entry, a handle or a chain leads to it.  *)
NoStaleBytes ==
  spoilt \/ (NoStaleExposure /\ TwinClusters \cap dirty = {})

(* A call that is not interrupted loses no cluster, whether it returns Ok, *)
(* NoSpace or another error of its own, but in the two cases of            *)
(* LeavesClusters and where a rename ends the use of a handle whose chain  *)
(* was not stored.  Otherwise an extension that finds no space keeps what  *)
(* it appended, and create_directory frees what it allocated.              *)
OnlyKnownLeaks == spoilt \/ lost \/ AllReached

(* The walks of every call reach the end of the chain, also over what      *)
(* interrupted calls left: CorruptChain is not reported.                   *)
WalksComplete == spoilt \/ NeverCorrupt

(* A call that extends, cuts, frees, renames or removes one file leaves    *)
(* the chains of all others, and their bytes, alone.                       *)
OtherChainsKept == [][spoilt' \/ OthersKeptByStep]_volumeVars

-----------------------------------------------------------------------------
(* What a composed call relies on, on any image: create_directory has its  *)
(* cluster once the routine that allocates it is over, and what else runs  *)
(* below a composed call extends the chain of another directory.           *)
ComposedInv ==
  /\ doing # "nothing" /\ owner = subject =>
       /\ doing = "make"
       /\ pc \in {"mark", "clear", "link", "adopt"}
       /\ tail # NoCluster \/ pc = "adopt" => head # NoCluster
  /\ doing # "nothing" /\ owner # subject =>
       /\ pc \in {"idle", "length", "mark", "clear", "link", "adopt"}
       /\ doing \in {"make", "undo"} => held[subject] # NoCluster

(* On a consistent volume: a second entry leads to the first cluster of a  *)
(* chain, never to one that is being allocated or freed, and never to the  *)
(* cluster of a directory that is being made.                              *)
TwinInv ==
  /\ \A c \in TwinClusters :
       /\ InUse(c) /\ ~ HasPredecessor(c) /\ c \notin dirty
       /\ pc \in {"clear", "link", "free"} => c # cur
       /\ doing \in {"make", "undo"} =>
            /\ c # held[subject]
            /\ owner = subject => c # head
  /\ doing \in {"rename", "renamed"} =>
       held[subject] = entryFirst[subject] /\ entryFirst[subject] # NoCluster
  /\ \/ failed \/ TwinClusters = {}
     \/ doing = "renamed" /\ \E t \in Twins : \A u \in Twins \ {t} : twin[u] = NoCluster

(* The inductive invariant: always the types and what routines rely on on  *)
(* any image; until a chain is freed under another entry, what consistency *)
(* needs, how far walks have come, and what lags what while it is known.   *)
VolumeInv ==
  /\ VolumeTypeOK
  /\ WalkInv
  /\ ComposedInv
  /\ \/ spoilt
     \/ /\ ChainInv /\ TwinInv
        /\ WalkedInv /\ PathInv
        /\ lost \/ EntryLags
=============================================================================
