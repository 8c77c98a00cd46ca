------------------------------ MODULE Namespace ------------------------------
(***************************************************************************)
(* The tree of directories: create_directory, remove_directory, rename and *)
(* the walks along paths and along "..".                                   *)
(*                                                                         *)
(* A directory is known by its first cluster, and holds at most one entry  *)
(* for a name (the Directory module says how).  Its ".." is an entry like  *)
(* any other: a cluster number, written by create_directory and rename and *)
(* followed by directory_contains and by paths.  Paths are abstract: a     *)
(* call gets a directory that some path opens, and a name in it.           *)
(***************************************************************************)
EXTENDS Integers, FiniteSets

CONSTANTS
  Names,
  Up,            \* the name ".."
  Dirs,          \* clusters that directories may begin at
  Root,          \* volume.root_directory(), whatever it is stored in
  Zero,          \* cluster 0, which names the root in a ".." entry
  File, None,    \* an entry of a file; no entry
  Fat32,         \* TRUE: the root is a cluster chain and has a number
  DotSources,    \* TRUE: callers also pass source paths that end in ".."
  MaxFaults      \* bound on device errors and power cuts

ASSUME NamespaceAssumption ==
  /\ Up \notin Names
  /\ Root \notin Dirs /\ Zero \notin Dirs \cup {Root}
  /\ {File, None} \cap (Dirs \cup {Root, Zero}) = {}
  /\ File # None
  /\ Fat32 \in BOOLEAN /\ DotSources \in BOOLEAN
  /\ MaxFaults \in Nat

VARIABLES
  entries,  \* directory -> name -> cluster of a directory, File or None
  free,     \* clusters that are not allocated
  phase,    \* where the call is
  call,     \* its source entry, its destination and the directory it is about
  faults,   \* device errors and power cuts so far
  intact    \* history: no call was interrupted or went through a ".." entry

nsVars == <<entries, free, phase, call, faults, intact>>

Places == Dirs \cup {Root}
Entry == Places \cup {Zero, File, None}
NoCall == [dir |-> Root, name |-> Up, to |-> Root, as |-> Up, about |-> None]

-----------------------------------------------------------------------------
(* directory_location, entry_cluster: cluster 0 in a ".." is the root.     *)
Location(x) == IF x = Zero THEN Root ELSE x

(* directory_cluster: what is stored to refer to a directory.              *)
Reference(d) == IF d = Root /\ ~ Fat32 THEN Zero ELSE d

HasParent(d) == entries[d][Up] \in Places \cup {Zero}
Parent(d) == Location(entries[d][Up])

(* The directories that the loop of directory_contains comes to from d: it *)
(* follows ".." until the root, and its bound, the number of clusters, is  *)
(* enough to come to each of them.                                         *)
UpClosed(S) == \A e \in S \ {Root} : HasParent(e) => Parent(e) \in S
Ancestors(d) ==
  {a \in Places : \A S \in SUBSET Places : d \in S /\ UpClosed(S) => a \in S}

(* directory_contains answers FALSE only when it comes to the root without *)
(* meeting the other directory.                                            *)
(* Mutant: the parent of the destination is not walked up, only compared.  *)
IsOutside_Shallow(d, c) == d # c /\ Root \in Ancestors(d)

IsOutside(d, c) == c \notin Ancestors(d) /\ Root \in Ancestors(d)

(* find_entry_by_path, open_directory: the directories some path leads to. *)
PathClosed(S) ==
  \A d \in S, n \in Names \cup {Up} :
     entries[d][n] \in Places \cup {Zero} => Location(entries[d][n]) \in S
Opened ==
  {d \in Places : \A S \in SUBSET Places : Root \in S /\ PathClosed(S) => d \in S}

(* directory_is_empty                                                      *)
IsEmpty(d) == \A n \in Names : entries[d][n] = None

SourceNames == Names \cup (IF DotSources THEN {Up} ELSE {})

-----------------------------------------------------------------------------
Return == phase' = "idle" /\ call' = NoCall

SetEntry(d, n, x) == entries' = [entries EXCEPT ![d][n] = x]

CreateFile(q, m) ==
  /\ phase = "idle"
  /\ entries[q][m] = None /\ q \in Opened
  /\ SetEntry(q, m, File)
  /\ UNCHANGED <<free, phase, call, faults, intact>>

(* create_directory: a cluster is allocated, ...                           *)
CreateDirectory(q, m) ==
  /\ phase = "idle"
  /\ entries[q][m] = None /\ q \in Opened
  /\ \E c \in free :
       /\ free' = free \ {c}
       /\ call' = [NoCall EXCEPT !.to = q, !.as = m, !.about = c]
  /\ phase' = "dots"
  /\ UNCHANGED <<entries, faults, intact>>

(* ... its dot entries and end marker are written, ...                     *)
WriteDotEntries ==
  /\ phase = "dots"
  /\ entries' = [entries EXCEPT ![call.about] =
                   [n \in Names \cup {Up} |->
                      IF n = Up THEN Reference(call.to) ELSE None]]
  /\ phase' = "name"
  /\ UNCHANGED <<free, call, faults, intact>>

(* ... and only then it gets its entry.                                    *)
NameDirectory ==
  /\ phase = "name"
  /\ SetEntry(call.to, call.as, call.about)
  /\ Return
  /\ UNCHANGED <<free, faults, intact>>

(* create_named_entry finds no room (NoSpace, DirectoryFull).              *)
UndoDirectory ==
  /\ phase = "name"
  /\ free' = free \cup {call.about}
  /\ Return
  /\ UNCHANGED <<entries, faults, intact>>

RemoveFile(p, n) ==
  /\ phase = "idle"
  /\ entries[p][n] = File /\ p \in Opened
  /\ SetEntry(p, n, None)
  /\ UNCHANGED <<free, phase, call, faults, intact>>

(* remove_directory: the entry is deleted, then the chain is freed.        *)
(* Mutant: the directory need not be empty.                                *)
RemoveDirectory_Full(p, n) ==
  /\ phase = "idle"
  /\ entries[p][n] \in Dirs /\ p \in Opened
  /\ SetEntry(p, n, None)
  /\ phase' = "free"
  /\ call' = [NoCall EXCEPT !.dir = p, !.name = n, !.about = entries[p][n]]
  /\ intact' = (intact /\ n # Up)
  /\ UNCHANGED <<free, faults>>

RemoveDirectory(p, n) ==
  /\ phase = "idle"
  /\ entries[p][n] \in Dirs /\ p \in Opened
  /\ IsEmpty(entries[p][n])
  /\ SetEntry(p, n, None)
  /\ phase' = "free"
  /\ call' = [NoCall EXCEPT !.dir = p, !.name = n, !.about = entries[p][n]]
  /\ intact' = (intact /\ n # Up)
  /\ UNCHANGED <<free, faults>>

FreeChain ==
  /\ phase = "free"
  /\ free' = free \cup {call.about}
  /\ Return
  /\ UNCHANGED <<entries, faults, intact>>

-----------------------------------------------------------------------------
(* Mutant: ".." is left as it is.                                          *)
Rename_KeepDotDot(p, n, q, m) ==
  /\ phase = "idle"
  /\ entries[p][n] \in Dirs \cup {File} /\ entries[q][m] = None
  /\ {p, q} \subseteq Opened
  /\ entries[p][n] \in Dirs => IsOutside(q, entries[p][n])
  /\ SetEntry(q, m, entries[p][n])
  /\ phase' = "delete"
  /\ call' = [dir |-> p, name |-> n, to |-> q, as |-> m, about |-> entries[p][n]]
  /\ intact' = (intact /\ n # Up)
  /\ UNCHANGED <<free, faults>>

(* Mutant: ".." of a file that gets a new parent is rewritten too.         *)
Rename_FileDotDot(p, n, q, m) ==
  /\ phase = "idle"
  /\ entries[p][n] \in Dirs \cup {File} /\ entries[q][m] = None
  /\ {p, q} \subseteq Opened
  /\ entries[p][n] \in Dirs => IsOutside(q, entries[p][n])
  /\ SetEntry(q, m, entries[p][n])
  /\ phase' = IF p # q THEN "dotdot" ELSE "delete"
  /\ call' = [dir |-> p, name |-> n, to |-> q, as |-> m, about |-> entries[p][n]]
  /\ intact' = (intact /\ n # Up)
  /\ UNCHANGED <<free, faults>>

(* rename publishes the new entry, ...                                     *)
Rename(p, n, q, m) ==
  /\ phase = "idle"
  /\ entries[p][n] \in Dirs \cup {File} /\ entries[q][m] = None
  /\ {p, q} \subseteq Opened
  /\ entries[p][n] \in Dirs => IsOutside(q, entries[p][n])
  /\ SetEntry(q, m, entries[p][n])
  /\ phase' = IF entries[p][n] \in Dirs /\ p # q THEN "dotdot" ELSE "delete"
  /\ call' = [dir |-> p, name |-> n, to |-> q, as |-> m, about |-> entries[p][n]]
  /\ intact' = (intact /\ n # Up)
  /\ UNCHANGED <<free, faults>>

(* ... rewrites the second slot of a directory that gets a new parent      *)
(* (a deleted ".." stays deleted), ...                                     *)
RewriteDotDot ==
  /\ phase = "dotdot"
  /\ IF entries[call.about][Up] # None
       THEN SetEntry(call.about, Up, Reference(call.to))
       ELSE UNCHANGED entries
  /\ phase' = "delete"
  /\ UNCHANGED <<free, call, faults, intact>>

(* ... and deletes the old entry.                                          *)
DeleteSource ==
  /\ phase = "delete"
  /\ SetEntry(call.dir, call.name, None)
  /\ Return
  /\ UNCHANGED <<free, faults, intact>>

(* A call ends early: a device error, a power cut, or NoSpace for the end  *)
(* marker behind an entry that was written (the Directory module has it).  *)
(* create_directory frees its cluster on an error of create_named_entry,   *)
(* also when the entry is there already.                                   *)
Interrupt ==
  /\ phase # "idle"
  /\ faults < MaxFaults
  /\ faults' = faults + 1
  /\ intact' = FALSE
  /\ \/ UNCHANGED <<entries, free>>
     \/ /\ phase = "name"
        /\ SetEntry(call.to, call.as, call.about)
        /\ free' = free \cup {call.about}
  /\ Return

-----------------------------------------------------------------------------
(* A volume that is empty, or holds one directory that another program     *)
(* made; its ".." may be 0 on FAT32 too.                                   *)
Init ==
  /\ LET empty == [d \in Places |-> [n \in Names \cup {Up} |-> None]]
     IN  \/ entries = empty /\ free = Dirs
         \/ \E d \in Dirs, n \in Names, up \in {Zero, Reference(Root)} :
              /\ entries = [empty EXCEPT ![Root][n] = d, ![d][Up] = up]
              /\ free = Dirs \ {d}
  /\ phase = "idle" /\ call = NoCall
  /\ faults = 0 /\ intact = TRUE

Call ==
  \/ \E q \in Places, m \in Names :
       \/ CreateFile(q, m) \/ CreateDirectory(q, m) \/ RemoveFile(q, m)
       \/ \E p \in Places, n \in SourceNames : Rename(p, n, q, m)
  \/ \E p \in Places, n \in SourceNames : RemoveDirectory(p, n)

Step ==
  \/ WriteDotEntries \/ NameDirectory \/ UndoDirectory \/ FreeChain
  \/ RewriteDotDot \/ DeleteSource

Next == Call \/ Step \/ Interrupt
Spec == Init /\ [][Next]_nsVars

-----------------------------------------------------------------------------
Holders(c) == {h \in Places \X Names : entries[h[1]][h[2]] = c}
Used == {c \in Dirs : \E p \in Places, n \in Names : entries[p][n] = c}

DownClosed(S) == \A d \in S, n \in Names : entries[d][n] \in Dirs => entries[d][n] \in S
Below(c) ==
  {d \in Places : \A S \in SUBSET Places : c \in S /\ DownClosed(S) => d \in S}

TypeOK ==
  /\ entries \in [Places -> [Names \cup {Up} -> Entry]]
  /\ \A d \in Places, n \in Names : entries[d][n] \in Dirs \cup {File, None}
  /\ free \subseteq Dirs
  /\ phase \in {"idle", "dots", "name", "free", "dotdot", "delete"}
  /\ call \in [dir : Places, name : Names \cup {Up}, to : Places,
               as : Names \cup {Up}, about : Dirs \cup {File, None}]
  /\ phase \in {"dots", "name", "free", "dotdot"} => call.about \in Dirs
  /\ faults \in 0 .. MaxFaults
  /\ intact \in BOOLEAN

(* The directories are a tree between calls: each has one entry, in the    *)
(* directory its ".." names, and every cluster is a directory of the tree  *)
(* or free (rename, remove_directory and create_directory; the test moves  *)
(* a directory across its parent, tests/behavior.rs:590).                  *)
Tree ==
  intact /\ phase = "idle" =>
     /\ \A c \in Used : \E n \in Names : Holders(c) = {<<Parent(c), n>>}
     /\ Used = Dirs \ free

(* At every instant, so also when a call is cut there for the first time,  *)
(* each directory can be reached from the root and its ".." names one that *)
(* has an entry for it: rename publishes the new entry before it deletes   *)
(* the old one.                                                            *)
NeverDetached ==
  intact => \A c \in Used : /\ c \in Below(Root)
                            /\ HasParent(c) /\ Parent(c) \in {h[1] : h \in Holders(c)}

(* The walk up along ".." says of any two directories what the walk down   *)
(* along the entries says, so directory_contains refuses exactly the moves *)
(* that would put a directory below itself.                                *)
WalkUpIsWalkDown ==
  intact /\ phase = "idle" =>
     \A c \in Used, d \in Used \cup {Root} : c \in Ancestors(d) <=> d \in Below(c)

(* A rename whose source is a directory never has its destination in that  *)
(* directory or below it: ARCHITECTURE.md:222 promises that a move into a  *)
(* descendant is refused.                                                  *)
MovesIntoDescendantsRefused ==
  [][phase = "idle" /\ phase' \in {"dotdot", "delete"} /\ call'.about \in Dirs
       => call'.to \notin Below(call'.about)]_nsVars
=============================================================================
