--------------------------- MODULE Namespace_proofs ---------------------------
(***************************************************************************)
(* The directories of Namespace stay a tree, for any number of directories *)
(* and names, as long as no call is interrupted and no source path ends in *)
(* "..".  The inductive invariant IInv says what ".." and the entries look *)
(* like between the steps of a call.                                       *)
(***************************************************************************)
EXTENDS Namespace, TLAPS

Moving(c) == phase \in {"dotdot", "delete"} /\ c = call.about
Pending == IF phase \in {"dots", "name", "free"} THEN {call.about} ELSE {}

(* The entries and ".." of everything that is not being moved.             *)
Shape ==
  /\ entries[Root][Up] = None
  /\ \A c \in Dirs \ Used : IsEmpty(c)
  /\ \A c \in Used : HasParent(c) /\ Root \in Ancestors(c)
  /\ \A p \in Places, n \in Names :
        entries[p][n] \in Dirs /\ ~ Moving(entries[p][n]) =>
          /\ p = Parent(entries[p][n])
          /\ \A k \in Names : entries[p][k] = entries[p][n] => k = n

(* An entry that is being moved has two places.                            *)
MoveShape ==
  phase \in {"dotdot", "delete"} =>
    /\ call.name \in Names /\ call.as \in Names
    /\ call.to # call.dir \/ call.as # call.name
    /\ entries[call.dir][call.name] = call.about
    /\ entries[call.to][call.as] = call.about
    /\ call.about \in Dirs =>
         /\ \A p \in Places, n \in Names : entries[p][n] = call.about =>
              \/ p = call.dir /\ n = call.name
              \/ p = call.to /\ n = call.as
         /\ Parent(call.about) = IF phase = "dotdot" THEN call.dir ELSE call.to
    /\ phase = "dotdot" =>
         /\ call.about \notin Ancestors(call.to)
         /\ Root \in Ancestors(call.to)

(* Every cluster is a directory, free, or the one a call is about.         *)
Account ==
  /\ Used = Dirs \ (free \cup Pending)
  /\ Pending \cap free = {}
  /\ phase \in {"dots", "name"} =>
       /\ call.as \in Names
       /\ entries[call.to][call.as] = None
       /\ call.to \in Used \cup {Root}
  /\ phase = "name" => HasParent(call.about) /\ Parent(call.about) = call.to

EntriesType ==
  /\ entries \in [Places -> [Names \cup {Up} -> Entry]]
  /\ \A d \in Places, n \in Names : entries[d][n] \in Dirs \cup {File, None}

IInv == TypeOK /\ (intact => Shape /\ MoveShape /\ Account)

USE NamespaceAssumption DEF Places, Entry, EntriesType

-----------------------------------------------------------------------------
LEMMA CallTypes ==
  ASSUME TypeOK
  PROVE  /\ call.dir \in Places /\ call.to \in Places
         /\ call.name \in Names \cup {Up} /\ call.as \in Names \cup {Up}
         /\ \A p \in Places, n \in Names \cup {Up} : entries[p][n] \in Entry
         /\ \A d \in Dirs : HasParent(d) => Parent(d) \in Places
BY DEF TypeOK, HasParent, Parent, Location

(* The type invariant is inductive.                                        *)
LEMMA TypeInit == Init => TypeOK
<1> SUFFICES ASSUME Init PROVE TypeOK
  OBVIOUS
<1> DEFINE empty == [d \in Places |-> [n \in Names \cup {Up} |-> None]]
<1>1. EntriesType /\ free \subseteq Dirs
  <2>1. CASE entries = empty /\ free = Dirs
    BY <2>1
  <2>2. ASSUME NEW d \in Dirs, NEW n \in Names, NEW up \in {Zero, Reference(Root)},
               entries = [empty EXCEPT ![Root][n] = d, ![d][Up] = up], free = Dirs \ {d}
        PROVE  EntriesType /\ free \subseteq Dirs
    <3>1. up \in Entry
      BY DEF Reference
    <3>2. [empty EXCEPT ![Root][n] = d] \in [Places -> [Names \cup {Up} -> Entry]]
      OBVIOUS
    <3> QED BY <2>2, <3>1, <3>2
  <2> QED BY <2>1, <2>2 DEF Init
<1>2. call \in [dir : Places, name : Names \cup {Up}, to : Places,
                as : Names \cup {Up}, about : Dirs \cup {File, None}]
  BY DEF Init, NoCall
<1>3. phase = "idle" /\ intact \in BOOLEAN
  BY DEF Init
<1>4. faults \in 0 .. MaxFaults
  BY DEF Init
<1> QED BY <1>1, <1>2, <1>3, <1>4 DEF TypeOK

LEMMA SetEntryType ==
  ASSUME TypeOK, NEW d \in Places, NEW n \in Names \cup {Up}, NEW x \in Entry, SetEntry(d, n, x),
         n \in Names => x \in Dirs \cup {File, None}
  PROVE  EntriesType'
<1>1. entries' \in [Places -> [Names \cup {Up} -> Entry]]
  BY DEF TypeOK, SetEntry
<1>2. ASSUME NEW p \in Places, NEW k \in Names
      PROVE  entries'[p][k] \in Dirs \cup {File, None}
  <2>1. entries'[p][k] = IF p = d /\ k = n THEN x ELSE entries[p][k]
    BY DEF TypeOK, SetEntry
  <2> QED BY <2>1 DEF TypeOK
<1> QED BY <1>1, <1>2

LEMMA TypeNext == TypeOK /\ [Next]_nsVars => TypeOK'
<1> SUFFICES ASSUME TypeOK, [Next]_nsVars PROVE TypeOK'
  OBVIOUS
<1>1. ASSUME NEW q \in Places, NEW m \in Names, CreateFile(q, m) PROVE TypeOK'
  BY <1>1, SetEntryType DEF CreateFile, TypeOK
<1>2. ASSUME NEW q \in Places, NEW m \in Names, CreateDirectory(q, m) PROVE TypeOK'
  <2>1. PICK c \in free : free' = free \ {c} /\ call' = [NoCall EXCEPT !.to = q, !.as = m, !.about = c]
    BY <1>2 DEF CreateDirectory
  <2>2. c \in Dirs /\ free' \subseteq Dirs
    BY <2>1 DEF TypeOK
  <2>3. call' = [dir |-> Root, name |-> Up, to |-> q, as |-> m, about |-> c]
    BY <2>1 DEF NoCall
  <2> QED BY <1>2, <2>2, <2>3 DEF CreateDirectory, TypeOK
<1>3. ASSUME NEW q \in Places, NEW m \in Names, RemoveFile(q, m) PROVE TypeOK'
  BY <1>3, SetEntryType DEF RemoveFile, TypeOK
<1>4. ASSUME NEW p \in Places, NEW n \in Names \cup {Up}, NEW q \in Places, NEW m \in Names,
             Rename(p, n, q, m)
      PROVE  TypeOK'
  <2>1. EntriesType'
    BY <1>4, SetEntryType DEF Rename
  <2>2. call' \in [dir : Places, name : Names \cup {Up}, to : Places,
                   as : Names \cup {Up}, about : Dirs \cup {File, None}]
    BY <1>4 DEF Rename
  <2>3. phase' \in {"dotdot", "delete"} /\ (phase' = "dotdot" => call'.about \in Dirs)
    BY <1>4 DEF Rename
  <2> QED BY <1>4, <2>1, <2>2, <2>3 DEF Rename, TypeOK
<1>5. ASSUME NEW p \in Places, NEW n \in Names \cup {Up}, RemoveDirectory(p, n) PROVE TypeOK'
  <2>1. EntriesType'
    BY <1>5, SetEntryType DEF RemoveDirectory
  <2> QED BY <1>5, <2>1 DEF RemoveDirectory, TypeOK, NoCall
<1>6. CASE WriteDotEntries
  BY <1>6 DEF WriteDotEntries, TypeOK, Reference
<1>7. CASE NameDirectory
  BY <1>7, CallTypes, SetEntryType DEF NameDirectory, Return, TypeOK, NoCall
<1>8. CASE UndoDirectory
  BY <1>8 DEF UndoDirectory, Return, TypeOK, NoCall
<1>9. CASE FreeChain
  BY <1>9 DEF FreeChain, Return, TypeOK, NoCall
<1>10. CASE RewriteDotDot
  <2>1. EntriesType'
    BY <1>10, CallTypes, SetEntryType DEF RewriteDotDot, Reference, TypeOK
  <2> QED BY <1>10, <2>1 DEF RewriteDotDot, TypeOK
<1>11. CASE DeleteSource
  <2>1. EntriesType'
    BY <1>11, CallTypes, SetEntryType DEF DeleteSource, TypeOK
  <2> QED BY <1>11, <2>1 DEF DeleteSource, Return, TypeOK, NoCall
<1>12. CASE Interrupt
  <2>1. phase = "name" /\ SetEntry(call.to, call.as, call.about) =>
          EntriesType'
    BY CallTypes, SetEntryType DEF TypeOK
  <2>2. EntriesType' /\ free' \subseteq Dirs
    BY <1>12, <2>1 DEF Interrupt, TypeOK
  <2>3. faults' \in 0 .. MaxFaults
    BY <1>12 DEF Interrupt, TypeOK
  <2>4. phase' = "idle" /\ call' = NoCall /\ intact' \in BOOLEAN
    BY <1>12 DEF Interrupt, Return
  <2> QED BY <2>2, <2>3, <2>4 DEF TypeOK, NoCall
<1>13. CASE UNCHANGED nsVars
  BY <1>13 DEF nsVars, TypeOK
<1> QED
  BY <1>1, <1>2, <1>3, <1>4, <1>5, <1>6, <1>7, <1>8, <1>9, <1>10, <1>11, <1>12, <1>13
     DEF Next, Call, Step, SourceNames

-----------------------------------------------------------------------------
(* Ancestors is the least set that holds a directory and is closed under   *)
(* "..".                                                                   *)
LEMMA AncestorsClosed ==
  ASSUME TypeOK, NEW d \in Places
  PROVE  d \in Ancestors(d) /\ UpClosed(Ancestors(d)) /\ Ancestors(d) \subseteq Places
<1>1. ASSUME NEW e \in Ancestors(d) \ {Root}, HasParent(e) PROVE Parent(e) \in Ancestors(d)
  BY <1>1, CallTypes DEF Ancestors, UpClosed
<1> QED BY <1>1 DEF Ancestors, UpClosed

(* A step that leaves every ".." alone leaves the ancestors alone.         *)
LEMMA SameUp ==
  ASSUME \A d \in Places : entries'[d][Up] = entries[d][Up]
  PROVE  \A d \in Places : /\ HasParent(d)' <=> HasParent(d)
                           /\ Parent(d)' = Parent(d)
                           /\ Ancestors(d)' = Ancestors(d)
<1>1. \A d \in Places : (HasParent(d)' <=> HasParent(d)) /\ Parent(d)' = Parent(d)
  BY DEF HasParent, Parent
<1>2. \A S \in SUBSET Places : UpClosed(S)' <=> UpClosed(S)
  BY <1>1 DEF UpClosed
<1>3. \A d \in Places : Ancestors(d)' = Ancestors(d)
  BY <1>2 DEF Ancestors
<1> QED BY <1>1, <1>3

(* A directory in use has an entry in the directory its ".." names, which  *)
(* is in use too; so every directory a path opens is.                      *)
LEMMA ParentHolds ==
  ASSUME TypeOK, Shape, MoveShape, NEW c \in Used
  PROVE  /\ HasParent(c) /\ Parent(c) \in Used \cup {Root}
         /\ \E n \in Names : entries[Parent(c)][n] = c
<1>1. c \in Dirs /\ HasParent(c) /\ Parent(c) \in Places
  BY CallTypes DEF Used, Shape
<1>2. \E n \in Names : entries[Parent(c)][n] = c
  <2>1. CASE ~ Moving(c)
    BY <1>1, <2>1 DEF Used, Shape
  <2>2. CASE Moving(c)
    BY <1>1, <2>2 DEF Moving, MoveShape
  <2> QED BY <2>1, <2>2
<1>3. Parent(c) \in Used \cup {Root}
  BY <1>1, <1>2 DEF Shape, IsEmpty
<1> QED BY <1>1, <1>2, <1>3

LEMMA OpenedUsed ==
  ASSUME TypeOK, Shape, MoveShape
  PROVE  Opened \subseteq Used \cup {Root}
<1> DEFINE S == Used \cup {Root}
<1>1. ASSUME NEW d \in S, NEW n \in Names \cup {Up}, entries[d][n] \in Places \cup {Zero}
      PROVE  Location(entries[d][n]) \in S
  <2>1. CASE n = Up
    <3>1. d \in Used
      BY <1>1, <2>1 DEF Shape
    <3> QED BY <2>1, <3>1, ParentHolds DEF Parent
  <2>2. CASE n \in Names
    <3>1. entries[d][n] \in Dirs /\ d \in Places
      BY <1>1, <2>2 DEF TypeOK, Used
    <3> QED BY <2>2, <3>1 DEF Used, Location
  <2> QED BY <1>1, <2>1, <2>2
<1> QED BY <1>1 DEF Opened, PathClosed, Used

-----------------------------------------------------------------------------
LEMMA InitInv == Init => IInv
<1> SUFFICES ASSUME Init PROVE Shape /\ MoveShape /\ Account
  BY TypeInit DEF IInv
<1> USE DEF Init
<1>1. phase = "idle" /\ Pending = {} /\ \A c : ~ Moving(c)
  BY DEF Pending, Moving
<1> DEFINE empty == [d \in Places |-> [n \in Names \cup {Up} |-> None]]
<1>2. CASE entries = empty /\ free = Dirs
  <2>1. Used = {}
    BY <1>2 DEF Used
  <2> QED BY <1>1, <1>2, <2>1 DEF Shape, MoveShape, Account, IsEmpty
<1>3. ASSUME NEW d \in Dirs, NEW m \in Names, NEW up \in {Zero, Reference(Root)},
             entries = [empty EXCEPT ![Root][m] = d, ![d][Up] = up], free = Dirs \ {d}
      PROVE  Shape /\ MoveShape /\ Account
  <2>1. \A p \in Places, n \in Names \cup {Up} :
           entries[p][n] = IF p = Root /\ n = m THEN d
                           ELSE IF p = d /\ n = Up THEN up ELSE None
    BY <1>3
  <2>2. Used = {d}
    BY <2>1 DEF Used
  <2>3. HasParent(d) /\ Parent(d) = Root
    BY <2>1 DEF HasParent, Parent, Location, Reference
  <2>4. Root \in Ancestors(d)
    BY <2>3 DEF Ancestors, UpClosed
  <2>5. Shape
    BY <2>1, <2>2, <2>3, <2>4 DEF Shape, IsEmpty
  <2>6. Account
    BY <1>1, <1>3, <2>2 DEF Account
  <2> QED BY <1>1, <2>5, <2>6 DEF MoveShape
<1> QED BY <1>2, <1>3

(* The ".." of a directory that is in no one's path may change.            *)
LEMMA NewDotDot ==
  ASSUME TypeOK, Shape, MoveShape, NEW x \in Dirs \ Used,
         \A d \in Places \ {x} : entries'[d][Up] = entries[d][Up]
  PROVE  \A c \in Used : Root \in Ancestors(c)'
<1> SUFFICES ASSUME NEW c \in Used, NEW S \in SUBSET Places, c \in S, UpClosed(S)', Root \notin S
             PROVE  FALSE
  BY DEF Ancestors
<1> DEFINE T == S \cap Used
<1>1. ASSUME NEW e \in T PROVE Parent(e) \in T
  <2>1. Parent(e) \in Used \cup {Root} /\ HasParent(e) /\ e # Root /\ e \in Places
    BY ParentHolds DEF Used
  <2>2. HasParent(e)' /\ Parent(e)' = Parent(e)
    BY <2>1 DEF HasParent, Parent
  <2>3. Parent(e) \in S
    BY <2>1, <2>2 DEF UpClosed
  <2> QED BY <2>1, <2>3
<1>2. UpClosed(T)
  BY <1>1 DEF UpClosed
<1>3. Root \in Ancestors(c)
  BY DEF Shape
<1> QED BY <1>2, <1>3 DEF Ancestors

(* A directory gets a new ".." that names one it is not an ancestor of.    *)
LEMMA MovedDotDot ==
  ASSUME TypeOK, NEW x \in Dirs, NEW q \in Places, x \notin Ancestors(q), Root \in Ancestors(q),
         \A d \in Places \ {x} : entries'[d][Up] = entries[d][Up],
         HasParent(x)', Parent(x)' = q
  PROVE  \A c \in Places : Root \in Ancestors(c) => Root \in Ancestors(c)'
<1> SUFFICES ASSUME NEW c \in Places, Root \in Ancestors(c),
                    NEW S \in SUBSET Places, c \in S, UpClosed(S)', Root \notin S
             PROVE  FALSE
  BY DEF Ancestors
<1>1. \A d \in Places \ {x} : (HasParent(d)' <=> HasParent(d)) /\ Parent(d)' = Parent(d)
  BY DEF HasParent, Parent
<1>2. CASE x \notin S
  <2>1. UpClosed(S)
    BY <1>1, <1>2 DEF UpClosed
  <2> QED BY <2>1 DEF Ancestors
<1>3. CASE x \in S
  <2> DEFINE T == S \cap Ancestors(q)
  <2>1. q \in S
    BY <1>3 DEF UpClosed
  <2>2. q \in T /\ T \subseteq Places
    BY <2>1, AncestorsClosed
  <2>3. UpClosed(T)
    BY <1>1, AncestorsClosed DEF UpClosed
  <2> QED BY <2>2, <2>3 DEF Ancestors
<1> QED BY <1>2, <1>3

-----------------------------------------------------------------------------
(* The steps of an undisturbed call keep the invariant.                    *)
LEMMA CallInv ==
  ASSUME IInv, intact, Call, intact'
  PROVE  Shape' /\ MoveShape' /\ Account'
<1> USE DEF IInv
<1>0. Opened \subseteq Used \cup {Root} /\ TypeOK
  BY OpenedUsed
<1>1. ASSUME NEW q \in Places, NEW m \in Names,
             CreateFile(q, m) \/ RemoveFile(q, m)
      PROVE  Shape' /\ MoveShape' /\ Account'
  <2> PICK x \in {File, None} : SetEntry(q, m, x) /\ (x = None <=> entries[q][m] = File)
                                /\ (x = File <=> entries[q][m] = None)
    BY <1>1 DEF CreateFile, RemoveFile
  <2>1. q \in Used \cup {Root} /\ phase = "idle"
        /\ UNCHANGED <<free, phase, call, faults, intact>>
    BY <1>0, <1>1 DEF CreateFile, RemoveFile
  <2>2. \A p \in Places, k \in Names \cup {Up} :
           entries'[p][k] = IF p = q /\ k = m THEN x ELSE entries[p][k]
    BY DEF SetEntry, TypeOK
  <2>3. \A p \in Places, k \in Names, c \in Dirs : entries'[p][k] = c <=> entries[p][k] = c
    BY <2>2
  <2>4. Used' = Used
    BY <2>3 DEF Used
  <2>5. \A d \in Places : /\ HasParent(d)' <=> HasParent(d)
                          /\ Parent(d)' = Parent(d)
                          /\ Ancestors(d)' = Ancestors(d)
    BY <2>2, SameUp
  <2>6. Shape'
    <3>1. entries'[Root][Up] = None
      BY <2>2 DEF Shape
    <3>2. \A c \in Dirs \ Used : IsEmpty(c)'
      BY <2>1, <2>2 DEF Shape, IsEmpty
    <3>3. \A c \in Used : HasParent(c)' /\ Root \in Ancestors(c)'
      BY <2>5 DEF Shape, Used
    <3>4. ASSUME NEW p \in Places, NEW n \in Names, entries'[p][n] \in Dirs
          PROVE  /\ (p = Parent(entries[p][n]))'
                 /\ \A k \in Names : entries'[p][k] = entries'[p][n] => k = n
      <4>1. entries'[p][n] = entries[p][n] /\ ~ Moving(entries[p][n])
        BY <2>1, <2>3, <3>4 DEF Moving
      <4> QED BY <2>3, <2>5, <3>4, <4>1 DEF Shape
    <3> QED BY <2>4, <3>1, <3>2, <3>3, <3>4 DEF Shape
  <2> QED BY <2>1, <2>4, <2>6 DEF MoveShape, Account, Pending
<1>2. ASSUME NEW q \in Places, NEW m \in Names, CreateDirectory(q, m)
      PROVE  Shape' /\ MoveShape' /\ Account'
  <2>1. PICK c \in free : free' = free \ {c} /\ call' = [NoCall EXCEPT !.to = q, !.as = m, !.about = c]
    BY <1>2 DEF CreateDirectory
  <2>2. call'.to = q /\ call'.as = m /\ call'.about = c /\ phase' = "dots" /\ phase = "idle"
        /\ UNCHANGED entries
    BY <1>2, <2>1 DEF CreateDirectory, NoCall
  <2>3. Used' = Used
    BY <2>2 DEF Used
  <2>4. Shape'
    BY <2>2, <2>3, SameUp DEF Shape, Moving, IsEmpty, Used
  <2>5. Account'
    BY <1>0, <1>2, <2>1, <2>2, <2>3 DEF Account, Pending, CreateDirectory
  <2> QED BY <2>2, <2>4, <2>5 DEF MoveShape
<1>3. ASSUME NEW p \in Places, NEW n \in SourceNames, RemoveDirectory(p, n)
      PROVE  Shape' /\ MoveShape' /\ Account'
  <2> PICK x \in Entry : x = entries[p][n]
    BY DEF TypeOK, SourceNames
  <2>0. n \in Names
    BY <1>3 DEF RemoveDirectory, SourceNames
  <2>1. n \in Names /\ x \in Dirs /\ IsEmpty(x) /\ phase = "idle" /\ phase' = "free"
        /\ call'.about = x /\ free' = free /\ SetEntry(p, n, None)
    BY <1>3, <2>0 DEF RemoveDirectory
  <2>2. \A d \in Places, k \in Names \cup {Up} :
           entries'[d][k] = IF d = p /\ k = n THEN None ELSE entries[d][k]
    BY <2>1 DEF SetEntry, TypeOK
  <2>3. \A d \in Places, k \in Names : entries[d][k] = x => d = p /\ k = n
    BY <2>1 DEF Shape, Moving
  <2>4. Used' = Used \ {x} /\ x \in Used
    BY <2>1, <2>2, <2>3 DEF Used
  <2>5. \A d \in Places : /\ HasParent(d)' <=> HasParent(d)
                          /\ Parent(d)' = Parent(d)
                          /\ Ancestors(d)' = Ancestors(d)
    BY <2>1, <2>2, SameUp
  <2>6. Shape'
    <3>1. entries'[Root][Up] = None
      BY <2>1, <2>2 DEF Shape
    <3>2. \A c \in Dirs \ Used' : IsEmpty(c)'
      BY <2>1, <2>2, <2>4 DEF Shape, IsEmpty
    <3>3. \A c \in Used' : HasParent(c)' /\ Root \in Ancestors(c)'
      BY <2>4, <2>5 DEF Shape, Used
    <3>4. ASSUME NEW d \in Places, NEW k \in Names, entries'[d][k] \in Dirs
          PROVE  /\ (d = Parent(entries[d][k]))'
                 /\ \A j \in Names : entries'[d][j] = entries'[d][k] => j = k
      <4>1. entries'[d][k] = entries[d][k] /\ ~ Moving(entries[d][k])
        BY <2>1, <2>2, <3>4 DEF Moving
      <4> QED BY <2>1, <2>2, <2>5, <3>4, <4>1 DEF Shape
    <3> QED BY <3>1, <3>2, <3>3, <3>4 DEF Shape
  <2>7. Account'
    BY <2>1, <2>4 DEF Account, Pending, Used
  <2> QED BY <2>1, <2>6, <2>7 DEF MoveShape
<1>4. ASSUME NEW p \in Places, NEW n \in SourceNames, NEW q \in Places, NEW m \in Names,
             Rename(p, n, q, m)
      PROVE  Shape' /\ MoveShape' /\ Account'
  <2> PICK x \in Entry : x = entries[p][n]
    BY DEF TypeOK, SourceNames
  <2>1. n \in Names /\ x \in Dirs \cup {File} /\ phase = "idle" /\ phase' \in {"dotdot", "delete"}
        /\ entries[q][m] = None /\ free' = free /\ SetEntry(q, m, x) /\ q \in Used \cup {Root}
        /\ (phase' = "dotdot" <=> x \in Dirs /\ p # q)
        /\ (x \in Dirs => IsOutside(q, x))
    BY <1>0, <1>4 DEF Rename, SourceNames
  <2>2. call'.dir = p /\ call'.name = n /\ call'.to = q /\ call'.as = m /\ call'.about = x
    BY <1>4 DEF Rename
  <2>3. \A d \in Places, k \in Names \cup {Up} :
           entries'[d][k] = IF d = q /\ k = m THEN x ELSE entries[d][k]
    BY <2>1 DEF SetEntry, TypeOK
  <2>4. <<p, n>> # <<q, m>> /\ entries'[p][n] = x /\ entries'[q][m] = x
    BY <2>1, <2>3
  <2>5. Used' = Used
    BY <2>1, <2>3, <2>4 DEF Used
  <2>6. \A d \in Places : /\ HasParent(d)' <=> HasParent(d)
                          /\ Parent(d)' = Parent(d)
                          /\ Ancestors(d)' = Ancestors(d)
    BY <2>1, <2>3, SameUp
  <2>7. x \in Dirs => /\ \A d \in Places, k \in Names : entries[d][k] = x => d = p /\ k = n
                      /\ Parent(x) = p
    BY <2>1 DEF Shape, Moving
  <2>8. Shape'
    <3>1. entries'[Root][Up] = None
      BY <2>1, <2>3 DEF Shape
    <3>2. \A c \in Dirs \ Used : IsEmpty(c)'
      BY <2>1, <2>3 DEF Shape, IsEmpty
    <3>3. \A c \in Used : HasParent(c)' /\ Root \in Ancestors(c)'
      BY <2>6 DEF Shape, Used
    <3>4. ASSUME NEW d \in Places, NEW k \in Names, entries'[d][k] \in Dirs,
                 ~ Moving(entries[d][k])'
          PROVE  /\ (d = Parent(entries[d][k]))'
                 /\ \A j \in Names : entries'[d][j] = entries'[d][k] => j = k
      <4>1. entries'[d][k] = entries[d][k] /\ ~ Moving(entries[d][k]) /\ entries'[d][k] # x
        BY <2>1, <2>2, <2>3, <3>4 DEF Moving
      <4> QED BY <2>1, <2>3, <2>6, <3>4, <4>1 DEF Shape
    <3> QED BY <2>5, <3>1, <3>2, <3>3, <3>4 DEF Shape
  <2>9. MoveShape'
    <3>1. ASSUME x \in Dirs, NEW d \in Places, NEW k \in Names, entries'[d][k] = x
          PROVE  (d = p /\ k = n) \/ (d = q /\ k = m)
      <4>1. entries'[d][k] = IF d = q /\ k = m THEN x ELSE entries[d][k]
        BY <2>3
      <4> QED BY <2>7, <3>1, <4>1
    <3>2. x \in Dirs => Parent(x)' = IF phase' = "dotdot" THEN p ELSE q
      BY <2>1, <2>6, <2>7
    <3>3. phase' = "dotdot" => x \notin Ancestors(q)' /\ Root \in Ancestors(q)'
      BY <2>1, <2>6 DEF IsOutside
    <3> QED BY <2>1, <2>2, <2>4, <3>1, <3>2, <3>3 DEF MoveShape
  <2>10. Account'
    BY <2>1, <2>5 DEF Account, Pending
  <2> QED BY <2>8, <2>9, <2>10
<1> QED
  BY <1>1, <1>2, <1>3, <1>4 DEF Call

LEMMA StepInv ==
  ASSUME IInv, intact, Step
  PROVE  Shape' /\ MoveShape' /\ Account'
<1> USE DEF IInv
<1>1. CASE WriteDotEntries
  <2> PICK x \in Dirs : x = call.about
    BY <1>1 DEF WriteDotEntries, TypeOK
  <2>1. phase = "dots" /\ phase' = "name" /\ UNCHANGED <<free, call>>
        /\ call.to \in Used \cup {Root} /\ x \in Dirs \ Used /\ x \notin free
    BY <1>1 DEF WriteDotEntries, Account, Pending
  <2>2. \A p \in Places, k \in Names \cup {Up} :
           entries'[p][k] = IF p = x THEN IF k = Up THEN Reference(call.to) ELSE None
                            ELSE entries[p][k]
    BY <1>1 DEF WriteDotEntries, TypeOK
  <2>3. \A p \in Places, k \in Names : entries'[p][k] = entries[p][k]
    BY <2>1, <2>2 DEF Shape, IsEmpty
  <2>4. Used' = Used
    BY <2>3 DEF Used
  <2>5. \A d \in Places \ {x} : /\ HasParent(d)' <=> HasParent(d)
                                /\ Parent(d)' = Parent(d)
    BY <2>2 DEF HasParent, Parent
  <2>6. HasParent(x)' /\ Parent(x)' = call.to
    BY <2>1, <2>2, CallTypes DEF HasParent, Parent, Location, Reference
  <2>7. \A c \in Used : Root \in Ancestors(c)'
    BY <2>1, <2>2, NewDotDot
  <2>8. Shape'
    <3>1. entries'[Root][Up] = None
      BY <2>2 DEF Shape
    <3>2. \A c \in Dirs \ Used : IsEmpty(c)'
      BY <2>3 DEF Shape, IsEmpty
    <3>3. \A c \in Used : HasParent(c)'
      BY <2>1, <2>5 DEF Shape, Used
    <3>4. ASSUME NEW p \in Places, NEW n \in Names, entries'[p][n] \in Dirs
          PROVE  /\ (p = Parent(entries[p][n]))'
                 /\ \A k \in Names : entries'[p][k] = entries'[p][n] => k = n
      <4>1. entries'[p][n] = entries[p][n] /\ ~ Moving(entries[p][n]) /\ entries[p][n] # x
        BY <2>1, <2>3, <3>4 DEF Moving, Used
      <4> QED BY <2>3, <2>5, <3>4, <4>1 DEF Shape
    <3> QED BY <2>4, <2>7, <3>1, <3>2, <3>3, <3>4 DEF Shape
  <2>9. Account'
    BY <2>1, <2>3, <2>4, <2>6, CallTypes DEF Account, Pending
  <2> QED BY <2>1, <2>8, <2>9 DEF MoveShape
<1>2. CASE NameDirectory
  <2> PICK x \in Dirs : x = call.about
    BY <1>2 DEF NameDirectory, TypeOK
  <2> PICK q \in Places : q = call.to
    BY CallTypes
  <2> PICK m \in Names : m = call.as
    BY <1>2 DEF NameDirectory, Account
  <2>1. phase = "name" /\ phase' = "idle" /\ free' = free /\ SetEntry(q, m, x)
        /\ entries[q][m] = None /\ q \in Used \cup {Root} /\ x \in Dirs \ Used /\ x \notin free
        /\ HasParent(x) /\ Parent(x) = q
    BY <1>2 DEF NameDirectory, Return, Account, Pending
  <2>2. \A p \in Places, k \in Names \cup {Up} :
           entries'[p][k] = IF p = q /\ k = m THEN x ELSE entries[p][k]
    BY <2>1 DEF SetEntry, TypeOK
  <2>3. Used' = Used \cup {x}
    BY <2>1, <2>2 DEF Used
  <2>4. \A d \in Places : /\ HasParent(d)' <=> HasParent(d)
                          /\ Parent(d)' = Parent(d)
                          /\ Ancestors(d)' = Ancestors(d)
    BY <2>2, SameUp
  <2>5. Root \in Ancestors(x)
    <3>1. Root \in Ancestors(q)
      BY <2>1, AncestorsClosed DEF Shape
    <3>2. ASSUME NEW S \in SUBSET Places, x \in S, UpClosed(S) PROVE Root \in S
      <4>1. q \in S
        BY <2>1, <3>2 DEF UpClosed
      <4> QED BY <3>1, <3>2, <4>1 DEF Ancestors
    <3> QED BY <3>2 DEF Ancestors
  <2>6. Shape'
    <3>1. entries'[Root][Up] = None
      BY <2>2 DEF Shape
    <3>2. \A c \in Dirs \ Used' : IsEmpty(c)'
      BY <2>1, <2>2, <2>3 DEF Shape, IsEmpty
    <3>3. \A c \in Used' : HasParent(c)' /\ Root \in Ancestors(c)'
      BY <2>1, <2>3, <2>4, <2>5 DEF Shape, Used
    <3>4. ASSUME NEW p \in Places, NEW n \in Names, entries'[p][n] \in Dirs
          PROVE  /\ (p = Parent(entries[p][n]))'
                 /\ \A k \in Names : entries'[p][k] = entries'[p][n] => k = n
      <4>1. \A k \in Names : entries[p][k] # x
        BY <2>1 DEF Used
      <4>2. CASE p = q /\ n = m
        BY <2>1, <2>2, <2>4, <4>1, <4>2
      <4>3. CASE ~ (p = q /\ n = m)
        <5>1. entries'[p][n] = entries[p][n] /\ ~ Moving(entries[p][n])
          BY <2>1, <2>2, <4>3 DEF Moving
        <5> QED BY <2>2, <2>4, <3>4, <4>1, <5>1 DEF Shape
      <4> QED BY <4>2, <4>3
    <3> QED BY <3>1, <3>2, <3>3, <3>4 DEF Shape
  <2>7. Account'
    BY <2>1, <2>3 DEF Account, Pending
  <2> QED BY <2>1, <2>6, <2>7 DEF MoveShape
<1>3. CASE UndoDirectory \/ FreeChain
  <2>1. phase \in {"name", "free"} /\ phase' = "idle" /\ free' = free \cup {call.about}
        /\ entries' = entries
    BY <1>3 DEF UndoDirectory, FreeChain, Return
  <2>2. Used' = Used
    BY <2>1 DEF Used
  <2>3. Shape'
    BY <2>1, <2>2, SameUp DEF Shape, Moving, IsEmpty, Used
  <2>4. Account'
    BY <2>1, <2>2 DEF Account, Pending
  <2> QED BY <2>1, <2>3, <2>4 DEF MoveShape
<1>4. CASE RewriteDotDot
  <2> PICK x \in Dirs : x = call.about
    BY <1>4 DEF RewriteDotDot, TypeOK
  <2> PICK q \in Places : q = call.to
    BY CallTypes
  <2>1. phase = "dotdot" /\ phase' = "delete" /\ UNCHANGED <<free, call>>
        /\ x \notin Ancestors(q) /\ Root \in Ancestors(q)
    BY <1>4 DEF RewriteDotDot, MoveShape
  <2>2. x \in Used
    BY <2>1, CallTypes DEF MoveShape, Used
  <2>3. entries[x][Up] # None
    BY <2>2 DEF Shape, HasParent
  <2>4. \A p \in Places, k \in Names \cup {Up} :
           entries'[p][k] = IF p = x /\ k = Up THEN Reference(q) ELSE entries[p][k]
    BY <1>4, <2>3 DEF RewriteDotDot, SetEntry, TypeOK
  <2>5. \A p \in Places, k \in Names : entries'[p][k] = entries[p][k]
    BY <2>4
  <2>6. Used' = Used
    BY <2>5 DEF Used
  <2>7. \A d \in Places \ {x} : /\ HasParent(d)' <=> HasParent(d)
                                /\ Parent(d)' = Parent(d)
    BY <2>4 DEF HasParent, Parent
  <2>8. HasParent(x)' /\ Parent(x)' = q
    BY <2>4 DEF HasParent, Parent, Location, Reference
  <2>9. \A c \in Places : Root \in Ancestors(c) => Root \in Ancestors(c)'
    BY <2>1, <2>4, <2>8, MovedDotDot
  <2>10. Shape'
    <3>1. entries'[Root][Up] = None
      BY <2>4 DEF Shape
    <3>2. \A c \in Dirs \ Used : IsEmpty(c)'
      BY <2>5 DEF Shape, IsEmpty
    <3>3. \A c \in Used : HasParent(c)' /\ Root \in Ancestors(c)'
      BY <2>7, <2>8, <2>9 DEF Shape, Used
    <3>4. ASSUME NEW p \in Places, NEW n \in Names, entries'[p][n] \in Dirs,
                 ~ Moving(entries[p][n])'
          PROVE  /\ (p = Parent(entries[p][n]))'
                 /\ \A k \in Names : entries'[p][k] = entries'[p][n] => k = n
      <4>1. entries'[p][n] = entries[p][n] /\ ~ Moving(entries[p][n]) /\ entries[p][n] # x
        BY <2>1, <2>5, <3>4 DEF Moving
      <4> QED BY <2>5, <2>7, <3>4, <4>1 DEF Shape
    <3> QED BY <2>6, <3>1, <3>2, <3>3, <3>4 DEF Shape
  <2>11. MoveShape'
    BY <2>1, <2>5, <2>8, CallTypes DEF MoveShape
  <2>12. Account'
    BY <2>1, <2>6 DEF Account, Pending
  <2> QED BY <2>10, <2>11, <2>12
<1>5. CASE DeleteSource
  <2> PICK p \in Places : p = call.dir
    BY CallTypes
  <2> PICK n \in Names : n = call.name
    BY <1>5 DEF DeleteSource, MoveShape
  <2> PICK q \in Places : q = call.to
    BY CallTypes
  <2> PICK m \in Names : m = call.as
    BY <1>5 DEF DeleteSource, MoveShape
  <2> PICK x : x = call.about
    OBVIOUS
  <2>1. phase = "delete" /\ phase' = "idle" /\ free' = free /\ SetEntry(p, n, None)
        /\ entries[p][n] = x /\ entries[q][m] = x /\ (p # q \/ n # m)
    BY <1>5 DEF DeleteSource, Return, MoveShape
  <2>2. \A d \in Places, k \in Names \cup {Up} :
           entries'[d][k] = IF d = p /\ k = n THEN None ELSE entries[d][k]
    BY <2>1 DEF SetEntry, TypeOK
  <2>3. Used' = Used
    BY <2>1, <2>2 DEF Used
  <2>4. \A d \in Places : /\ HasParent(d)' <=> HasParent(d)
                          /\ Parent(d)' = Parent(d)
                          /\ Ancestors(d)' = Ancestors(d)
    BY <2>2, SameUp
  <2>5. Shape'
    <3>1. entries'[Root][Up] = None
      BY <2>2 DEF Shape
    <3>2. \A c \in Dirs \ Used : IsEmpty(c)'
      BY <2>2 DEF Shape, IsEmpty
    <3>3. \A c \in Used : HasParent(c)' /\ Root \in Ancestors(c)'
      BY <2>4 DEF Shape, Used
    <3>4. ASSUME NEW d \in Places, NEW k \in Names, entries'[d][k] \in Dirs
          PROVE  /\ (d = Parent(entries[d][k]))'
                 /\ \A j \in Names : entries'[d][j] = entries'[d][k] => j = k
      <4>1. entries'[d][k] = entries[d][k] /\ ~ (d = p /\ k = n)
        BY <2>2, <3>4
      <4>2. CASE entries[d][k] # x
        <5>1. ~ Moving(entries[d][k])
          BY <4>2 DEF Moving
        <5> QED BY <2>2, <2>4, <3>4, <4>1, <5>1 DEF Shape
      <4>3. CASE entries[d][k] = x
        <5>1. x \in Dirs /\ Parent(x) = q
          BY <2>1, <3>4, <4>1, <4>3 DEF MoveShape
        <5>2. (d = p /\ k = n) \/ (d = q /\ k = m)
          BY <2>1, <4>3, <5>1 DEF MoveShape
        <5> QED BY <2>1, <2>2, <2>4, <4>1, <4>3, <5>1, <5>2 DEF MoveShape
      <4> QED BY <4>2, <4>3
    <3> QED BY <2>3, <3>1, <3>2, <3>3, <3>4 DEF Shape
  <2>6. Account'
    BY <2>1, <2>3 DEF Account, Pending
  <2> QED BY <2>1, <2>5, <2>6 DEF MoveShape
<1> QED
  BY <1>1, <1>2, <1>3, <1>4, <1>5 DEF Step

LEMMA NextInv == IInv /\ [Next]_nsVars => IInv'
<1> SUFFICES ASSUME IInv, [Next]_nsVars, intact' PROVE Shape' /\ MoveShape' /\ Account'
  BY TypeNext DEF IInv
<1>1. intact /\ ~ Interrupt
  <2>1. CASE Call
    <3>1. ASSUME NEW q \in Places, NEW m \in Names,
                 CreateFile(q, m) \/ CreateDirectory(q, m) \/ RemoveFile(q, m)
          PROVE  intact /\ phase = "idle"
      BY <3>1 DEF CreateFile, CreateDirectory, RemoveFile
    <3>2. ASSUME NEW p \in Places, NEW n \in SourceNames, NEW q \in Places, NEW m \in Names,
                 Rename(p, n, q, m)
          PROVE  intact /\ phase = "idle"
      BY <3>2 DEF Rename
    <3>3. ASSUME NEW p \in Places, NEW n \in SourceNames, RemoveDirectory(p, n)
          PROVE  intact /\ phase = "idle"
      BY <3>3 DEF RemoveDirectory
    <3>4. intact /\ phase = "idle"
      BY <2>1, <3>1, <3>2, <3>3 DEF Call
    <3> QED BY <3>4 DEF Interrupt
  <2>2. CASE Step
    BY <2>2 DEF Step, WriteDotEntries, NameDirectory, UndoDirectory, FreeChain,
                RewriteDotDot, DeleteSource, Interrupt
  <2>3. CASE Interrupt
    BY <2>3 DEF Interrupt
  <2>4. CASE UNCHANGED nsVars
    BY <2>4 DEF nsVars, Interrupt, IInv, TypeOK
  <2> QED BY <2>1, <2>2, <2>3, <2>4 DEF Next
<1>2. CASE Call
  BY <1>1, <1>2, CallInv
<1>3. CASE Step
  BY <1>1, <1>3, StepInv
<1>4. CASE UNCHANGED nsVars
  <2>1. Used' = Used
    BY <1>4 DEF nsVars, Used
  <2>2. Shape'
    BY <1>1, <1>4, <2>1, SameUp DEF IInv, nsVars, Shape, Moving, IsEmpty, Used
  <2>3. MoveShape'
    BY <1>1, <1>4, SameUp, CallTypes DEF IInv, nsVars, MoveShape
  <2>4. Account'
    <3>1. call.about \in Places => Parent(call.about)' = Parent(call.about)
      BY <1>4 DEF nsVars, Parent
    <3> QED BY <1>1, <1>4, <2>1 DEF IInv, nsVars, Account, Pending, HasParent, Parent
  <2> QED BY <2>2, <2>3, <2>4
<1> QED
  BY <1>1, <1>2, <1>3, <1>4 DEF Next

(* The inductive invariant holds at every instant.                         *)
THEOREM Invariant == Spec => []IInv
<1>1. Init => IInv
  BY InitInv
<1>2. IInv /\ [Next]_nsVars => IInv'
  BY NextInv
<1> QED BY <1>1, <1>2, PTL DEF Spec

(* The type invariant of the tree of directories.                          *)
THEOREM TypeCorrect == Spec => []TypeOK
<1>1. IInv => TypeOK
  BY DEF IInv
<1> QED BY <1>1, Invariant, PTL

(* Between undisturbed calls the directories are a tree, and each cluster  *)
(* is one of them or free.                                                 *)
THEOREM TreeHolds == Spec => []Tree
<1>1. IInv => Tree
  <2> SUFFICES ASSUME IInv, intact, phase = "idle"
               PROVE  /\ \A c \in Used : \E n \in Names : Holders(c) = {<<Parent(c), n>>}
                      /\ Used = Dirs \ free
    BY DEF Tree
  <2> USE DEF IInv
  <2>1. Used = Dirs \ free
    BY DEF Account, Pending
  <2>2. ASSUME NEW c \in Used PROVE \E n \in Names : Holders(c) = {<<Parent(c), n>>}
    <3> PICK n \in Names : entries[Parent(c)][n] = c
      BY ParentHolds
    <3>1. \A p \in Places, k \in Names : entries[p][k] = c => p = Parent(c) /\ k = n
      BY DEF Shape, Moving, Used
    <3>2. Parent(c) \in Places
      BY ParentHolds DEF Used
    <3> QED BY <3>1, <3>2 DEF Holders
  <2> QED BY <2>1, <2>2
<1> QED BY <1>1, Invariant, PTL

(* Whenever an undisturbed call is cut, each directory is reachable and    *)
(* its ".." names a directory that holds it.                               *)
THEOREM NeverDetachedHolds == Spec => []NeverDetached
<1>1. IInv => NeverDetached
  <2> SUFFICES ASSUME IInv, intact, NEW c \in Used
               PROVE  /\ c \in Below(Root)
                      /\ HasParent(c) /\ Parent(c) \in {h[1] : h \in Holders(c)}
    BY DEF NeverDetached
  <2> USE DEF IInv
  <2>1. HasParent(c) /\ Parent(c) \in {h[1] : h \in Holders(c)}
    <3> PICK n \in Names : entries[Parent(c)][n] = c
      BY ParentHolds
    <3>1. <<Parent(c), n>> \in Holders(c)
      BY ParentHolds DEF Holders, Used
    <3> QED BY <3>1, ParentHolds
  <2>2. ASSUME NEW S \in SUBSET Places, Root \in S, DownClosed(S), c \notin S PROVE FALSE
    <3> DEFINE T == Used \ S
    <3>1. ASSUME NEW e \in T PROVE Parent(e) \in T
      <4>1. Parent(e) \in Used \cup {Root} /\ e \in Dirs
        BY ParentHolds DEF Used
      <4> PICK n \in Names : entries[Parent(e)][n] = e
        BY ParentHolds
      <4>2. Parent(e) \notin S
        BY <2>2, <4>1 DEF DownClosed
      <4> QED BY <2>2, <4>1, <4>2
    <3>2. UpClosed(T) /\ T \subseteq Places /\ Root \notin T
      BY <2>2, <3>1 DEF UpClosed, Used
    <3> QED BY <2>2, <3>2 DEF Shape, Ancestors
  <2> QED BY <2>1, <2>2 DEF Below, Used
<1> QED BY <1>1, Invariant, PTL

(* What directory_contains finds along ".." is what the entries say, so it *)
(* refuses exactly the moves that would put a directory below itself.      *)
THEOREM WalkUpIsWalkDownHolds == Spec => []WalkUpIsWalkDown
<1>1. IInv => WalkUpIsWalkDown
  <2> SUFFICES ASSUME IInv, intact, phase = "idle", NEW c \in Used, NEW d \in Used \cup {Root}
               PROVE  c \in Ancestors(d) <=> d \in Below(c)
    BY DEF WalkUpIsWalkDown
  <2> USE DEF IInv
  <2>0. c \in Places /\ d \in Places /\ c # Root
    BY DEF Used
  <2>1. ASSUME c \in Ancestors(d), NEW S \in SUBSET Places, c \in S, DownClosed(S), d \notin S
        PROVE  FALSE
    <3> DEFINE T == (Used \cup {Root}) \ S
    <3>1. ASSUME NEW e \in T \ {Root} PROVE Parent(e) \in T
      <4>1. Parent(e) \in Used \cup {Root} /\ e \in Dirs
        BY ParentHolds DEF Used
      <4>2. Parent(e) \notin S
        BY <2>1, <4>1, ParentHolds DEF DownClosed
      <4> QED BY <4>1, <4>2
    <3>2. UpClosed(T) /\ T \subseteq Places /\ d \in T
      BY <2>1, <3>1 DEF UpClosed, Used
    <3> QED BY <2>1, <3>2 DEF Ancestors
  <2>2. ASSUME d \in Below(c), NEW S \in SUBSET Places, d \in S, UpClosed(S), c \notin S
        PROVE  FALSE
    <3> DEFINE T == Places \ S
    <3>1. ASSUME NEW p \in T, NEW n \in Names, entries[p][n] \in Dirs PROVE entries[p][n] \in T
      <4>1. Parent(entries[p][n]) = p /\ HasParent(entries[p][n])
        BY <3>1 DEF Shape, Moving, Used
      <4> QED BY <2>2, <3>1, <4>1 DEF UpClosed
    <3>2. DownClosed(T)
      BY <3>1 DEF DownClosed
    <3> QED BY <2>0, <2>2, <3>2 DEF Below
  <2> QED BY <2>0, <2>1, <2>2 DEF Ancestors, Below
<1> QED BY <1>1, Invariant, PTL
=============================================================================
