----------------------------- MODULE MCDirectory -----------------------------
(* Names for TLC, and what the code makes of them: readme and setup are    *)
(* 8.3 names; letter and letterHome take one and two pieces of a long      *)
(* name, and have the same aliases, of which tilde is the first; capital   *)
(* is letter in capital letters, which makes it an 8.3 name.               *)
EXTENDS Directory, ShortName, TLC

CONSTANTS readme, setup, capital, letter, tilde, letterHome, accent, underscore

Spelling ==
     readme     :> <<"R", "E", "A", "D", "M", "E", ".", "T", "X", "T">>
  @@ setup      :> <<"S", "E", "T", "U", "P">>
  @@ capital    :> <<"L", "E", "T", "T", "E", "R", ".", "T", "X", "T">>
  @@ letter     :> <<"l", "e", "t", "t", "e", "r", ".", "t", "x", "t">>
  @@ tilde      :> <<"L", "E", "T", "T", "E", "R", "~", "1", ".", "T", "X", "T">>
  @@ letterHome :> <<"l", "e", "t", "t", "e", "r", " ", "t", "o", " ",
                     "h", "o", "m", "e", ".", "t", "x", "t">>
  @@ accent     :> <<"\\acute e">>
  @@ underscore :> <<"_">>

(* What the code makes of them, computed once.  Two ordinals are enough:   *)
(* no run has three names with the same aliases.                           *)
Canonical == [n \in Names |-> CanonicalShortName(Spelling[n])]
AliasesOf == [n \in Names |-> <<ShortAlias(Spelling[n], 1), ShortAlias(Spelling[n], 2)>>]
AllShortNames ==
  ({Canonical[n] : n \in Names} \ {NoName})
    \cup {AliasesOf[n][ordinal] : n \in Names, ordinal \in 1 .. 2}
AnswersOf == [short \in AllShortNames |-> {n \in Names : ShortMatches(short, Spelling[n])}]
Pieces == [n \in Names |-> LongNamePieces(Spelling[n])]
Sums == [short \in AllShortNames |-> ChecksumOf(short)]

MCCanonicalShort == Canonical
MCAliases == AliasesOf
MCShortNames == AllShortNames
MCAnswers == AnswersOf
MCLfnCount == Pieces
MCChecksum == Sums

Symmetry == Permutations(Clusters)

(* The directory has no more clusters than there are.  Only where an entry *)
(* leads to a freed cluster (spoilt) could it get one of them twice.       *)
WithinClusters ==
  Len(slots) <= InitialSlots + SlotsPerCluster * Cardinality(Clusters)

(* A name finds an entry by its long name, or by its short name when that  *)
(* is the same up to the case of letters (ARCHITECTURE.md:325).            *)
LookupByTheRule ==
  \A n \in Names : \A i \in Found(n) :
    HasLongName(i, n) \/ SameIgnoringCase(Displayed(slots[i].short), Spelling[n])
=============================================================================
