-------------------------- MODULE FileWrites_proofs --------------------------
(***************************************************************************)
(* Proofs about FileWrites: its calls use the cluster chains as FatChains  *)
(* allows, so that what is proved there holds for the chains of files,     *)
(* whatever the cluster size, the lengths and the number of files; what    *)
(* the index of a cluster on its chain says about the bytes a file may     *)
(* have; and, from there, what files show: the calls implement FileStore,  *)
(* and a call that does not fail does what it was asked for.               *)
(***************************************************************************)
EXTENDS FileWrites, FatChains_proofs, SequenceTheorems

(* The clusters a call asks for are within the bound of FatChains: one at  *)
(* least for a byte at least.                                              *)
LEMMA RequiredRange ==
  ASSUME NEW n \in 0 .. MaxLength
  PROVE  Required(n) \in 0 .. MaxRequired /\ (n > 0 => Required(n) \in 1 .. MaxRequired)
<1> DEFINE q == (n + ClusterSize - 1) \div ClusterSize
<1> USE ChainAssumption, FileAssumption
<1>1. q \in Int /\ ClusterSize * q <= n + ClusterSize - 1
        /\ n + ClusterSize - 1 < ClusterSize * q + ClusterSize
  OBVIOUS
<1>2. q >= 0
  BY <1>1
<1>3. ClusterSize * q < ClusterSize * (MaxRequired + 1)
  BY <1>1
<1>4. q <= MaxRequired
  BY <1>1, <1>2, <1>3
<1>5. n > 0 => q >= 1
  BY <1>1, <1>2
<1> QED
  BY <1>1, <1>2, <1>4, <1>5 DEF Required

(* Every step of a file call is a step of FatChains, or leaves the chains  *)
(* and the entries alone.                                                  *)
LEMMA StepUsesChains == FileInv /\ [FileNext]_fileVars => [Next]_vars
<1> SUFFICES ASSUME FileInv, FileNext PROVE [Next]_vars
  BY DEF fileVars
<1> USE DEF FileInv, CallProgress, Next, Call, Step, Interrupt
<1>1. ASSUME NEW o \in Owners, NEW at \in 0 .. MaxLength - 1, NEW end \in 1 .. MaxLength,
             NEW value \in Values, WriteFileAt(o, at, end, value)
      PROVE  [Next]_vars
  <2>1. Required(end) \in 1 .. MaxRequired
    BY RequiredRange, FileAssumption
  <2> QED
    BY <1>1, <2>1 DEF WriteFileAt
<1>2. ASSUME NEW o \in Owners, TruncateSame(o) PROVE [Next]_vars
  BY <1>2 DEF TruncateSame
<1>3. ASSUME NEW o \in Owners, NEW length \in 0 .. MaxLength, TruncateLonger(o, length)
      PROVE  [Next]_vars
  <2>1. hlen[o] \in Nat
    BY FileAssumption DEF FileTypeOK
  <2>2. length > 0
    BY <1>3, <2>1, FileAssumption DEF TruncateLonger
  <2>3. Required(length) \in 1 .. MaxRequired
    BY <2>2, RequiredRange
  <2> QED
    BY <1>3, <2>3 DEF TruncateLonger
<1>4. ASSUME NEW o \in Owners, NEW length \in 0 .. MaxLength, TruncateShorter(o, length)
      PROVE  [Next]_vars
  <2>1. Required(length) \in 0 .. MaxRequired
    BY RequiredRange
  <2> QED
    BY <1>4, <2>1 DEF TruncateShorter
<1>5. ASSUME NEW o \in Owners, RemoveFile(o) PROVE [Next]_vars
  BY <1>5 DEF RemoveFile
<1>6. CASE Extend
  BY <1>6 DEF Extend
<1>7. CASE Adopt
  BY <1>7 DEF Adopt
<1>8. CASE PersistFirst
  <2>1. call.file \in Owners
    BY <1>8 DEF PersistFirst, CallTyped
  <2> QED
    BY <1>8, <2>1 DEF PersistFirst, PersistEntry
<1>9. CASE WriteZeros
  BY <1>9 DEF WriteZeros
<1>10. CASE WriteFileDataAt
  BY <1>10 DEF WriteFileDataAt
<1>11. CASE PersistLength
  <2>1. call.file \in Owners
    BY <1>11 DEF PersistLength, CallTyped
  <2> QED
    BY <1>11, <2>1 DEF PersistLength, PersistEntry
<1>12. CASE PersistShorter
  BY <1>12 DEF PersistShorter
<1>13. CASE TruncateChain
  BY <1>13 DEF TruncateChain
<1>14. CASE DeleteEntry
  BY <1>14 DEF DeleteEntry
<1>15. CASE FreeRemoved
  BY <1>15 DEF FreeRemoved
<1>16. CASE Abort
  BY <1>16 DEF Abort
<1>17. CASE RemountVolume
  BY <1>17 DEF RemountVolume
<1> QED
  BY <1>1, <1>2, <1>3, <1>4, <1>5, <1>6, <1>7, <1>8, <1>9, <1>10, <1>11, <1>12,
     <1>13, <1>14, <1>15, <1>16, <1>17
     DEF FileNext, FileCall, FileStep

(* What is written to the cells of a cluster is a byte.                    *)
LEMMA PutByteTyped ==
  ASSUME BytesOK, NEW o, NEW position, NEW byte \in Values \cup {Zero}, PutByte(o, position, byte)
  PROVE  BytesOK'
<1> DEFINE c == ClusterOf(held[o], position \div ClusterSize)
           i == position % ClusterSize
<1>1. data' = [data EXCEPT ![c] = [data[c] EXCEPT ![i] = byte]]
  BY DEF PutByte
<1> HIDE DEF c, i
<1>2. CASE c \in Clusters
  <2>1. [data[c] EXCEPT ![i] = byte] \in [0 .. ClusterSize - 1 -> Values \cup {Zero, Stale}]
    BY <1>2 DEF BytesOK
  <2> QED
    BY <1>1, <2>1 DEF BytesOK
<1>3. CASE c \notin Clusters
  BY <1>1, <1>3 DEF BytesOK
<1> QED
  BY <1>2, <1>3

(* So is what clear_cluster writes, and what a freed cluster still holds.  *)
LEMMA FillBytesTyped ==
  ASSUME BytesOK, NEW c, NEW byte \in {Zero, Stale},
         data' = [data EXCEPT ![c] = [i \in DOMAIN data[c] |-> byte]]
  PROVE  BytesOK'
<1>1. CASE c \in Clusters
  <2>1. [i \in DOMAIN data[c] |-> byte] \in [0 .. ClusterSize - 1 -> Values \cup {Zero, Stale}]
    BY <1>1 DEF BytesOK
  <2> QED
    BY <2>1 DEF BytesOK
<1>2. CASE c \notin Clusters
  BY <1>2 DEF BytesOK
<1> QED
  BY <1>1, <1>2

(* The assumption without its product, which distracts the solver.         *)
LEMMA Lengths == MaxLength \in Nat
BY FileAssumption

(* A length that is stored keeps the table of lengths typed.               *)
LEMMA SetLength ==
  ASSUME NEW f \in [Owners -> 0 .. MaxLength], NEW x, NEW n \in 0 .. MaxLength
  PROVE  [f EXCEPT ![x] = n] \in [Owners -> 0 .. MaxLength]
OBVIOUS

(* A call knows its range and its progress from step to step.              *)
LEMMA FileNextInv == FileInv /\ TypeOK' /\ [FileNext]_fileVars => FileInv'
<1> SUFFICES ASSUME FileInv, TypeOK', [FileNext]_fileVars PROVE FileInv'
  OBVIOUS
<1> USE ChainAssumption, Lengths
<1> USE DEF FileInv, FileTypeOK, CallProgress, CallTyped, Phases, Interrupted, ReturnOk,
            byteVars, opVars
<1>0. /\ NoOp.file = NoOwner
      /\ call.file \in Owners => call # NoOp
      /\ call'.file \in Owners => call' # NoOp
  BY DEF NoOp
<1> USE <1>0
<1>1. ASSUME NEW o \in Owners, NEW at \in 0 .. MaxLength - 1, NEW end \in 1 .. MaxLength,
             NEW value \in Values, at < end, WriteFileAt(o, at, end, value)
      PROVE  FileInv'
  BY <1>1 DEF WriteFileAt, EnsureChainLength, BytesOK
<1>2. ASSUME NEW o \in Owners, TruncateSame(o) PROVE FileInv'
  BY <1>2 DEF TruncateSame, BytesOK, vars, callVars
<1>3. ASSUME NEW o \in Owners, NEW length \in 0 .. MaxLength, TruncateLonger(o, length)
      PROVE  FileInv'
  BY <1>3 DEF TruncateLonger, EnsureChainLength, BytesOK
<1>4. ASSUME NEW o \in Owners, NEW length \in 0 .. MaxLength, TruncateShorter(o, length)
      PROVE  FileInv'
  BY <1>4 DEF TruncateShorter, BeginShrink, BytesOK
<1>5. ASSUME NEW o \in Owners, RemoveFile(o) PROVE FileInv'
  BY <1>5 DEF RemoveFile, BeginRemove, BytesOK
<1>6. CASE Extend
  <2>1. BytesOK'
    BY <1>6, FillBytesTyped DEF Extend, BytesOK
  <2>2. pc' # "idle" => owner' = owner
    BY <1>6
       DEF Extend, ChainTailAndLength, MarkAllocated, AllocationRefused, ClearCluster,
           LinkCluster, Return, ReturnError
  <2>3. CASE pc' = "idle"
    BY <1>6, <2>1, <2>3 DEF Extend
  <2>4. CASE pc' # "idle"
    BY <1>6, <2>1, <2>2, <2>4 DEF Extend
  <2> QED
    BY <2>3, <2>4
<1>7. CASE Adopt
  BY <1>7 DEF Adopt, Fill, BytesOK
<1>8. CASE PersistFirst
  BY <1>8 DEF PersistFirst, PersistEntry, Fill, BytesOK
<1>9. CASE WriteZeros
  <2>1. BytesOK'
    BY <1>9, PutByteTyped DEF WriteZeros
  <2> QED
    BY <1>9, <2>1 DEF WriteZeros
<1>10. CASE WriteFileDataAt
  <2>1. BytesOK'
    BY <1>10, PutByteTyped DEF WriteFileDataAt
  <2> QED
    BY <1>10, <2>1 DEF WriteFileDataAt
<1>11. CASE PersistLength
  BY <1>11 DEF PersistLength, PersistEntry, BytesOK
<1>12. CASE PersistShorter
  BY <1>12 DEF PersistShorter, PersistShrink, BytesOK
<1>13. CASE TruncateChain
  <2>1. BytesOK'
    BY <1>13, FillBytesTyped DEF TruncateChain, OldBytes, BytesOK
  <2>2. pc' # "idle" => owner' = owner
    BY <1>13 DEF TruncateChain, ClusterAt, CutChain, FreeChain, Return, ReturnError
  <2> QED
    BY <1>13, <2>1, <2>2 DEF TruncateChain
<1>14. CASE DeleteEntry
  <2>0. /\ dlen' = [dlen EXCEPT ![owner] = 0]
        /\ data' = data
        /\ hlen' = hlen
    BY <1>14 DEF DeleteEntry
  <2>1. BytesOK'
    BY <2>0 DEF BytesOK
  <2>4. dlen' \in [Owners -> 0 .. MaxLength]
    BY <2>0, SetLength, 0 \in 0 .. MaxLength
  <2>2. CASE pc' = "idle"
    BY <1>14, <2>1, <2>2, <2>4 DEF DeleteEntry
  <2>3. CASE pc' # "idle"
    BY <1>14, <2>1, <2>3, <2>4 DEF DeleteEntry, DeleteFoundEntry, Return
  <2> QED
    BY <2>2, <2>3
<1>15. CASE FreeRemoved
  <2>1. BytesOK'
    BY <1>15, FillBytesTyped DEF FreeRemoved, OldBytes
  <2>2. pc' # "idle" => owner' = owner
    BY <1>15 DEF FreeRemoved, FreeChain, Return, ReturnError
  <2> QED
    BY <1>15, <2>1, <2>2 DEF FreeRemoved
<1>16. CASE Abort
  BY <1>16 DEF Abort, BytesOK
<1>17. CASE RemountVolume
  BY <1>17 DEF RemountVolume, BytesOK
<1>18. CASE UNCHANGED fileVars
  BY <1>18 DEF fileVars, vars, callVars, BytesOK
<1> QED
  BY <1>1, <1>2, <1>3, <1>4, <1>5, <1>6, <1>7, <1>8, <1>9, <1>10, <1>11, <1>12,
     <1>13, <1>14, <1>15, <1>16, <1>17, <1>18
     DEF FileNext, FileCall, FileStep

(* Between calls nothing is in progress.                                   *)
LEMMA FileInitInv == FileInit => FileInv
<1> SUFFICES ASSUME FileInit PROVE FileInv
  OBVIOUS
<1>1. TypeOK
  BY ChainInit DEF FileInit, Init, ChainInv, WalkInv, TypeOK
<1>2. BytesOK
  BY DEF FileInit, BytesOK
<1> QED
  BY <1>1, <1>2, Lengths DEF FileInit, FileInv, FileTypeOK, CallProgress, Phases

(* The chains of files and the progress of calls are invariant together:   *)
(* each needs the other.                                                   *)
LEMMA FilesInv == FileSpec => [](FileInv /\ ChainInv) /\ Spec
<1>1. FileInit => FileInv /\ ChainInv /\ Init
  BY FileInitInv, ChainInit DEF FileInit
<1>2. FileInv /\ ChainInv /\ [FileNext]_fileVars => FileInv' /\ ChainInv' /\ [Next]_vars
  <2> SUFFICES ASSUME FileInv, ChainInv, [FileNext]_fileVars
               PROVE  FileInv' /\ ChainInv' /\ [Next]_vars
    OBVIOUS
  <2>1. [Next]_vars
    BY StepUsesChains
  <2>2. ChainInv'
    BY <2>1, ChainNext
  <2>3. failed \in BOOLEAN
    BY DEF FileInv, FileTypeOK, TypeOK
  <2>4. TypeOK'
    BY <2>1, <2>2, <2>3, FailedBoolean DEF ChainInv, WalkInv, TypeOK
  <2> QED
    BY <2>1, <2>2, <2>4, FileNextInv
<1> QED
  BY <1>1, <1>2, PTL DEF FileSpec, Spec

-----------------------------------------------------------------------------
(* write_file_at, truncate_file and remove_file reach the FAT only through *)
(* the routines of FatChains, in an order that FatChains allows, with      *)
(* lengths within its bound.                                               *)
THEOREM FilesUseChains == FileSpec => ChainsRefined
BY FilesInv, PTL DEF ChainsRefined

(* Every variable keeps its type, and a call knows its range and progress. *)
THEOREM FileInvariant == FileSpec => []FileInv
BY FilesInv, PTL

(* Lengths, bytes and the call in progress stay within their types.        *)
THEOREM FileTypeCorrect == FileSpec => []FileTypeOK
BY FilesInv, PTL DEF FileInv

-----------------------------------------------------------------------------
(* The clusters of a chain by their index.  ClusterOf is computed by a     *)
(* recursive function of its own for each index: these functions agree.    *)
Walk(first, k, g) ==
  g = [n \in 0 .. k |->
         IF n = 0 THEN first
         ELSE IF g[n - 1] # NoCluster /\ IsLink(fat[g[n - 1]]) THEN fat[g[n - 1]] ELSE NoCluster]
Follow(c) == IF c # NoCluster /\ IsLink(fat[c]) THEN fat[c] ELSE NoCluster

(* The values of a walk along the FAT.                                     *)
LEMMA WalkValues ==
  ASSUME NEW first, NEW k \in Nat, NEW g, Walk(first, k, g)
  PROVE  /\ g[0] = first
         /\ \A n \in Nat : n < k => g[n + 1] = Follow(g[n])
<1>1. g[0] = first
  BY DEF Walk
<1>2. ASSUME NEW n \in Nat, n < k PROVE g[n + 1] = Follow(g[n])
  <2>1. n + 1 \in 0 .. k /\ n + 1 # 0 /\ (n + 1) - 1 = n
    BY <1>2
  <2> QED
    BY <2>1 DEF Walk, Follow
<1> QED
  BY <1>1, <1>2

(* There is a walk of every length, whatever the chain.                    *)
LEMMA WalkExists ==
  ASSUME NEW first, NEW k \in Nat
  PROVE  \E g : Walk(first, k, g)
<1> DEFINE S == {n \in Nat : \E g : Walk(first, n, g)}
<1>1. 0 \in S
  <2> DEFINE g == [n \in 0 .. 0 |-> first]
  <2>1. Walk(first, 0, g)
    BY DEF Walk
  <2> QED
    BY <2>1
<1>2. ASSUME NEW n \in Nat, n \in S PROVE n + 1 \in S
  <2>1. PICK g : Walk(first, n, g)
    BY <1>2
  <2> DEFINE h == [i \in 0 .. n + 1 |-> IF i = n + 1 THEN Follow(g[n]) ELSE g[i]]
  <2>2. ASSUME NEW i \in 0 .. n + 1
        PROVE  h[i] = IF i = 0 THEN first ELSE Follow(h[i - 1])
    <3>1. CASE i = n + 1
      <4>1. h[i - 1] = g[n] /\ h[i] = Follow(g[n]) /\ i # 0
        BY <3>1
      <4> QED
        BY <4>1
    <3>2. CASE i # n + 1 /\ i # 0
      <4>1. i \in 0 .. n /\ i - 1 \in 0 .. n + 1 /\ i - 1 # n + 1
        BY <3>2
      <4>2. h[i] = g[i] /\ h[i - 1] = g[i - 1]
        BY <4>1
      <4> QED
        BY <2>1, <3>2, <4>1, <4>2 DEF Walk, Follow
    <3>3. CASE i = 0
      <4>1. h[i] = g[i] /\ i \in 0 .. n
        BY <3>3
      <4> QED
        BY <2>1, <3>3, <4>1 DEF Walk
    <3> QED
      BY <3>1, <3>2, <3>3
  <2>3. Walk(first, n + 1, h)
    BY <2>2 DEF Walk, Follow
  <2> QED
    BY <2>3
<1> HIDE DEF S
<1>3. k \in S
  BY <1>1, <1>2, SetInduction
<1> QED
  BY <1>3 DEF S

(* A longer walk takes the same steps.                                     *)
LEMMA WalksAgree ==
  ASSUME NEW first, NEW k \in Nat, NEW m \in Nat, k <= m,
         NEW g, Walk(first, k, g), NEW h, Walk(first, m, h)
  PROVE  g[k] = h[k]
<1> DEFINE S == {n \in Nat : n <= k => g[n] = h[n]}
<1>1. 0 \in S
  BY WalkValues
<1>2. ASSUME NEW n \in Nat, n \in S PROVE n + 1 \in S
  <2>1. SUFFICES ASSUME n + 1 <= k PROVE g[n + 1] = h[n + 1]
    OBVIOUS
  <2>2. n < k /\ n < m /\ n <= k
    BY <2>1
  <2>3. g[n] = h[n]
    BY <1>2, <2>2
  <2>4. g[n + 1] = Follow(g[n]) /\ h[n + 1] = Follow(h[n])
    BY <2>2, WalkValues
  <2> QED
    BY <2>3, <2>4
<1> HIDE DEF S
<1>3. k \in S
  BY <1>1, <1>2, SetInduction
<1> QED
  BY <1>3 DEF S

(* ClusterOf is the end of such a walk.                                    *)
LEMMA ClusterOfWalk ==
  ASSUME NEW first, NEW k \in Nat
  PROVE  \E g : Walk(first, k, g) /\ ClusterOf(first, k) = g[k]
<1> DEFINE f == CHOOSE g : Walk(first, k, g)
<1>1. Walk(first, k, f)
  BY WalkExists
<1>2. ClusterOf(first, k) = f[k]
  BY DEF ClusterOf, Walk
<1> QED
  BY <1>1, <1>2

(* The cluster at index 0 is the first, and each next one is linked.       *)
LEMMA Positions ==
  \A first :
    /\ ClusterOf(first, 0) = first
    /\ \A n \in Nat : ClusterOf(first, n + 1) = Follow(ClusterOf(first, n))
<1> TAKE first
<1>1. ClusterOf(first, 0) = first
  BY ClusterOfWalk, WalkValues, 0 \in Nat
<1>2. ASSUME NEW n \in Nat PROVE ClusterOf(first, n + 1) = Follow(ClusterOf(first, n))
  <2>1. PICK g : Walk(first, n, g) /\ ClusterOf(first, n) = g[n]
    BY ClusterOfWalk
  <2>2. n + 1 \in Nat /\ n <= n + 1 /\ n < n + 1
    OBVIOUS
  <2>3. PICK h : Walk(first, n + 1, h) /\ ClusterOf(first, n + 1) = h[n + 1]
    BY <2>2, ClusterOfWalk
  <2>4. g[n] = h[n]
    BY <2>1, <2>2, <2>3, WalksAgree
  <2>5. h[n + 1] = Follow(h[n])
    BY <2>2, <2>3, WalkValues
  <2> QED
    BY <2>1, <2>3, <2>4, <2>5
<1> QED
  BY <1>1, <1>2

(* Nothing hangs from no cluster, and no cluster hangs behind none.        *)
LEMMA PositionOfNone == \A n \in Nat : ClusterOf(NoCluster, n) = NoCluster
<1> DEFINE S == {n \in Nat : ClusterOf(NoCluster, n) = NoCluster}
<1>1. 0 \in S
  BY Positions
<1>2. ASSUME NEW n \in Nat, n \in S PROVE n + 1 \in S
  BY <1>2, Positions DEF Follow
<1> HIDE DEF S
<1>3. Nat \subseteq S
  BY <1>1, <1>2, SetInduction
<1> QED
  BY <1>3 DEF S

(* A chain that has a cluster at a position has one at each before it.     *)
LEMMA PositionBelow ==
  ASSUME NEW first, NEW n \in Nat, NEW m \in 0 .. n, ClusterOf(first, n) # NoCluster
  PROVE  ClusterOf(first, m) # NoCluster
<1> DEFINE S == {k \in Nat : ClusterOf(first, k) # NoCluster =>
                               \A i \in 0 .. k : ClusterOf(first, i) # NoCluster}
<1>1. 0 \in S
  OBVIOUS
<1>2. ASSUME NEW k \in Nat, k \in S PROVE k + 1 \in S
  <2>1. SUFFICES ASSUME ClusterOf(first, k + 1) # NoCluster, NEW i \in 0 .. k + 1
                 PROVE  ClusterOf(first, i) # NoCluster
    OBVIOUS
  <2>2. ClusterOf(first, k) # NoCluster
    BY <2>1, Positions DEF Follow
  <2>3. i \in 0 .. k \/ i = k + 1
    OBVIOUS
  <2> QED
    BY <1>2, <2>1, <2>2, <2>3
<1> HIDE DEF S
<1>3. n \in S
  BY <1>1, <1>2, SetInduction
<1> QED
  BY <1>3 DEF S

(* A cluster of a chain is reached from its first.                         *)
LEMMA PositionReached ==
  ASSUME fat \in [Clusters -> FatEntries], NEW first \in Clusters \cup {NoCluster}
  PROVE  \A n \in Nat : ClusterOf(first, n) # NoCluster =>
           ClusterOf(first, n) \in Clusters /\ ClusterOf(first, n) \in Reach({first})
<1> DEFINE S == {n \in Nat : ClusterOf(first, n) # NoCluster =>
           ClusterOf(first, n) \in Clusters /\ ClusterOf(first, n) \in Reach({first})}
<1>1. 0 \in S
  BY Positions, ReachClosed
<1>2. ASSUME NEW n \in Nat, n \in S PROVE n + 1 \in S
  <2>1. SUFFICES ASSUME ClusterOf(first, n + 1) # NoCluster
                 PROVE  /\ ClusterOf(first, n + 1) \in Clusters
                        /\ ClusterOf(first, n + 1) \in Reach({first})
    OBVIOUS
  <2>2. PICK c : c = ClusterOf(first, n)
    OBVIOUS
  <2>3. c # NoCluster /\ IsLink(fat[c]) /\ ClusterOf(first, n + 1) = fat[c]
    BY <2>1, <2>2, Positions DEF Follow
  <2>4. c \in Reach({first})
    BY <1>2, <2>2, <2>3
  <2>5. Closed(Reach({first}))
    BY ReachClosed
  <2> QED
    BY <2>3, <2>4, <2>5 DEF Closed, IsLink
<1> HIDE DEF S
<1>3. Nat \subseteq S
  BY <1>1, <1>2, SetInduction
<1> QED
  BY <1>3 DEF S

(* A chain visits no cluster twice.                                        *)
LEMMA PositionsDiffer ==
  ASSUME ChainInv, NEW h \in Clusters, ~ HasPredecessor(h)
  PROVE  \A i, j \in Nat : i < j /\ ClusterOf(h, j) # NoCluster =>
           ClusterOf(h, i) # ClusterOf(h, j)
<1> DEFINE S == {i \in Nat : \A j \in Nat : i < j /\ ClusterOf(h, j) # NoCluster =>
                                ClusterOf(h, i) # ClusterOf(h, j)}
<1>t. fat \in [Clusters -> FatEntries]
  BY DEF ChainInv, WalkInv, ChainTypeOK
<1>0. ASSUME NEW j \in Nat, j > 0, ClusterOf(h, j) # NoCluster
      PROVE  \E c \in Clusters : /\ c = ClusterOf(h, j - 1) /\ c # NoCluster
                                 /\ IsLink(fat[c]) /\ ClusterOf(h, j) = fat[c]
  <2>1. j - 1 \in Nat /\ (j - 1) + 1 = j
    BY <1>0
  <2>2. ClusterOf(h, j) = Follow(ClusterOf(h, j - 1))
    BY <2>1, Positions
  <2>3. ClusterOf(h, j - 1) # NoCluster /\ IsLink(fat[ClusterOf(h, j - 1)])
        /\ ClusterOf(h, j) = fat[ClusterOf(h, j - 1)]
    BY <1>0, <2>2 DEF Follow
  <2> QED
    BY <1>t, <2>1, <2>3, PositionReached
<1>1. 0 \in S
  <2>1. ASSUME NEW j \in Nat, 0 < j, ClusterOf(h, j) # NoCluster
        PROVE  ClusterOf(h, 0) # ClusterOf(h, j)
    BY <1>0, <2>1, Positions DEF HasPredecessor
  <2> QED
    BY <2>1
<1>2. ASSUME NEW i \in Nat, i \in S PROVE i + 1 \in S
  <2>1. SUFFICES ASSUME NEW j \in Nat, i + 1 < j, ClusterOf(h, j) # NoCluster,
                        ClusterOf(h, i + 1) = ClusterOf(h, j)
                 PROVE  FALSE
    OBVIOUS
  <2>2. PICK c \in Clusters : /\ c = ClusterOf(h, j - 1) /\ c # NoCluster
                              /\ IsLink(fat[c]) /\ ClusterOf(h, j) = fat[c]
    BY <1>0, <2>1
  <2>3. i + 1 \in Nat /\ i + 1 > 0 /\ (i + 1) - 1 = i /\ i < j - 1 /\ j - 1 \in Nat
    BY <2>1
  <2>4. PICK d \in Clusters : /\ d = ClusterOf(h, i) /\ IsLink(fat[d])
                              /\ ClusterOf(h, i + 1) = fat[d]
    BY <1>0, <2>1, <2>3
  <2>5. c = d
    BY <2>1, <2>2, <2>4 DEF ChainInv, ChainsDoNotCross
  <2> QED
    BY <1>2, <2>2, <2>3, <2>4, <2>5
<1> HIDE DEF S
<1>3. Nat \subseteq S
  BY <1>1, <1>2, SetInduction
<1> QED
  BY <1>3 DEF S

-----------------------------------------------------------------------------
(* A step that keeps the links of the clusters before an index keeps the   *)
(* cluster at the index.                                                   *)
LEMMA PositionsNext ==
  (\A first :
    /\ ClusterOf(first, 0) = first
    /\ \A n \in Nat : ClusterOf(first, n + 1) = Follow(ClusterOf(first, n)))'
BY Positions, PTL

(* A position depends only on the links in front of it.                    *)
LEMMA PositionAgrees ==
  ASSUME fat \in [Clusters -> FatEntries], NEW first \in Clusters \cup {NoCluster}, NEW n \in Nat,
         \A j \in Nat : j < n /\ ClusterOf(first, j) # NoCluster =>
           fat'[ClusterOf(first, j)] = fat[ClusterOf(first, j)]
  PROVE  ClusterOf(first, n)' = ClusterOf(first, n)
<1> DEFINE S == {k \in Nat : k <= n => ClusterOf(first, k)' = ClusterOf(first, k)}
<1>1. 0 \in S
  BY Positions, PositionsNext
<1>2. ASSUME NEW k \in Nat, k \in S PROVE k + 1 \in S
  <2>1. SUFFICES ASSUME k + 1 <= n
                 PROVE  ClusterOf(first, k + 1)' = ClusterOf(first, k + 1)
    OBVIOUS
  <2>2. k < n /\ k <= n
    BY <2>1
  <2>3. PICK c : c = ClusterOf(first, k)
    OBVIOUS
  <2>4. ClusterOf(first, k)' = c
    BY <1>2, <2>2, <2>3
  <2>5. c # NoCluster => fat'[c] = fat[c]
    BY <2>2, <2>3
  <2>6. Follow(c)' = Follow(c)
    BY <2>5 DEF Follow, IsLink
  <2>7. ClusterOf(first, k + 1)' = Follow(c)'
    BY <2>4, PositionsNext DEF Follow, IsLink
  <2>8. ClusterOf(first, k + 1) = Follow(c)
    BY <2>3, Positions
  <2> QED
    BY <2>6, <2>7, <2>8
<1> HIDE DEF S
<1>3. n \in S
  BY <1>1, <1>2, SetInduction
<1> QED
  BY <1>3 DEF S

(* So does a step that takes no link away.                                 *)
LEMMA PositionKept ==
  ASSUME fat \in [Clusters -> FatEntries],
         \A c \in Clusters : IsLink(fat[c]) => fat'[c] = fat[c],
         NEW first \in Clusters \cup {NoCluster}, NEW n \in Nat, ClusterOf(first, n) # NoCluster
  PROVE  ClusterOf(first, n)' = ClusterOf(first, n)
<1>1. ASSUME NEW j \in Nat, j < n, ClusterOf(first, j) # NoCluster
      PROVE  fat'[ClusterOf(first, j)] = fat[ClusterOf(first, j)]
  <2>1. j + 1 \in 0 .. n
    BY <1>1
  <2>2. ClusterOf(first, j + 1) # NoCluster
    BY <2>1, PositionBelow
  <2>3. IsLink(fat[ClusterOf(first, j)])
    BY <2>2, Positions DEF Follow
  <2>4. ClusterOf(first, j) \in Clusters
    BY <1>1, PositionReached
  <2> QED
    BY <2>3, <2>4
<1> QED
  BY <1>1, PositionAgrees

-----------------------------------------------------------------------------
(* The index of a byte's cluster.                                          *)
LEMMA IndexOf ==
  ASSUME NEW n \in Nat \ {0}
  PROVE  /\ (n - 1) \div ClusterSize \in Nat
         /\ (n - 1) \div ClusterSize = Required(n) - 1
         /\ \A m \in Nat \ {0} : m <= n =>
              (m - 1) \div ClusterSize <= (n - 1) \div ClusterSize
<1> DEFINE i(m) == (m - 1) \div ClusterSize
<1>0. ClusterSize \in Nat /\ ClusterSize > 0
  BY FileAssumption
<1>1. \A m \in Nat \ {0} : i(m) \in Int /\ ClusterSize * i(m) <= m - 1
                            /\ m - 1 < ClusterSize * i(m) + ClusterSize
  BY <1>0
<1>2. i(n) \in Nat
  BY <1>0
<1>3. Required(n) = i(n) + 1
  BY <1>0 DEF Required
<1>4. ASSUME NEW m \in Nat \ {0}, m <= n PROVE i(m) <= i(n)
  <2>1. ClusterSize * i(m) < ClusterSize * (i(n) + 1)
    BY <1>0, <1>1, <1>4
  <2>2. i(m) \in Int /\ i(n) \in Int
    BY <1>1
  <2> HIDE DEF i
  <2> QED
    BY <1>0, <2>1, <2>2
<1> QED
  BY <1>2, <1>3, <1>4

(* Only the empty file needs no cluster.                                   *)
LEMMA RequiredZero ==
  ASSUME NEW n \in Nat PROVE Required(n) = 0 <=> n = 0
<1>0. ClusterSize \in Nat /\ ClusterSize > 0
  BY FileAssumption
<1>1. CASE n = 0
  BY <1>0, <1>1 DEF Required
<1>2. CASE n # 0
  BY <1>2, IndexOf
<1> QED
  BY <1>1, <1>2

(* A chain that holds so many bytes holds fewer, and so many as its        *)
(* clusters take.                                                          *)
LEMMA HoldsLess ==
  ASSUME NEW first, NEW n \in Nat, NEW m \in Nat, m <= n, Holds(first, n)
  PROVE  Holds(first, m)
<1>1. SUFFICES ASSUME m > 0 PROVE ClusterOf(first, (m - 1) \div ClusterSize) # NoCluster
  BY DEF Holds
<1>2. /\ (m - 1) \div ClusterSize \in 0 .. (n - 1) \div ClusterSize
      /\ (n - 1) \div ClusterSize \in Nat
  <2>1. m \in Nat \ {0} /\ n \in Nat \ {0}
    BY <1>1
  <2>2. PICK a \in Nat, b \in Nat : a = (m - 1) \div ClusterSize /\ b = (n - 1) \div ClusterSize
    BY <2>1, IndexOf
  <2>3. a <= b
    BY <2>1, <2>2, IndexOf
  <2> QED
    BY <2>2, <2>3
<1>3. ClusterOf(first, (n - 1) \div ClusterSize) # NoCluster
  BY <1>1 DEF Holds
<1> QED
  BY <1>2, <1>3, PositionBelow

(* A chain with k + 1 clusters holds what k + 1 clusters hold.             *)
LEMMA HoldsClusters ==
  ASSUME NEW first, NEW k \in Nat, ClusterOf(first, k) # NoCluster,
         NEW n \in Nat, Required(n) <= k + 1
  PROVE  Holds(first, n)
<1>1. SUFFICES ASSUME n > 0 PROVE ClusterOf(first, (n - 1) \div ClusterSize) # NoCluster
  BY DEF Holds
<1>2. (n - 1) \div ClusterSize \in 0 .. k
  <2>1. PICK a \in Nat : a = (n - 1) \div ClusterSize /\ a = Required(n) - 1
    BY <1>1, IndexOf
  <2>2. a + 1 = Required(n)
    <3>1. Required(n) \in Int
      BY <1>1, FileAssumption DEF Required
    <3> QED
      BY <2>1, <3>1
  <2> QED
    BY <2>1, <2>2
<1> QED
  BY <1>2, PositionBelow

(* Without a cluster there is room for no byte.                            *)
LEMMA HoldsNothing == \A n \in Nat : Holds(NoCluster, n) <=> n = 0
<1> TAKE n \in Nat
<1>1. CASE n = 0
  BY <1>1 DEF Holds
<1>2. CASE n # 0
  BY <1>2, IndexOf, PositionOfNone DEF Holds
<1> QED
  BY <1>1, <1>2

(* Chains with the same positions hold the same.                           *)
LEMMA HoldsSame ==
  ASSUME NEW first, \A n \in Nat : ClusterOf(first, n)' = ClusterOf(first, n)
  PROVE  \A n \in Nat : Holds(first, n) => Holds(first, n)'
<1> SUFFICES ASSUME NEW n \in Nat, Holds(first, n), n > 0 PROVE Holds(first, n)'
  BY DEF Holds
<1>1. PICK k \in Nat : k = (n - 1) \div ClusterSize
  BY IndexOf
<1>2. ClusterOf(first, k) # NoCluster
  BY <1>1 DEF Holds
<1>3. ClusterOf(first, k)' # NoCluster
  BY <1>2
<1> QED
  BY <1>1, <1>3 DEF Holds

(* As long as no link changes, chains hold what they held.                 *)
LEMMA HoldsKept ==
  ASSUME fat \in [Clusters -> FatEntries],
         \A c \in Clusters : IsLink(fat[c]) => fat'[c] = fat[c]
  PROVE  \A first \in Clusters \cup {NoCluster} : \A n \in Nat : Holds(first, n) => Holds(first, n)'
<1> SUFFICES ASSUME NEW first \in Clusters \cup {NoCluster}, NEW n \in Nat, Holds(first, n)
             PROVE  Holds(first, n)'
  OBVIOUS
<1>1. CASE n = 0
  BY <1>1 DEF Holds
<1>2. CASE n # 0
  <2>1. PICK k \in Nat : k = (n - 1) \div ClusterSize
    BY <1>2, IndexOf
  <2>2. ClusterOf(first, k) # NoCluster
    BY <1>2, <2>1 DEF Holds
  <2>3. ClusterOf(first, k)' = ClusterOf(first, k)
    BY <2>2, PositionKept
  <2>4. ClusterOf(first, k)' # NoCluster
    BY <2>2, <2>3
  <2> QED
    BY <2>1, <2>4 DEF Holds
<1> QED
  BY <1>1, <1>2

-----------------------------------------------------------------------------
(* The chains depend on the links only.                                    *)
LEMMA ClusterOfSame ==
  ASSUME fat' = fat
  PROVE  \A n \in Nat : \A first : ClusterOf(first, n)' = ClusterOf(first, n)
<1> DEFINE S == {n \in Nat : \A first : ClusterOf(first, n)' = ClusterOf(first, n)}
<1>1. 0 \in S
  BY Positions, PositionsNext
<1>2. ASSUME NEW n \in Nat, n \in S PROVE n + 1 \in S
  <2>1. SUFFICES ASSUME NEW first PROVE ClusterOf(first, n + 1)' = ClusterOf(first, n + 1)
    OBVIOUS
  <2>2. PICK c : c = ClusterOf(first, n)
    OBVIOUS
  <2>3. ClusterOf(first, n)' = c
    BY <1>2, <2>2
  <2>4. ClusterOf(first, n + 1)' = Follow(c)'
    BY <2>3, PositionsNext DEF Follow, IsLink
  <2>5. ClusterOf(first, n + 1) = Follow(c)
    BY <2>2, Positions
  <2> QED
    BY <2>4, <2>5 DEF Follow, IsLink
<1> HIDE DEF S
<1>3. Nat \subseteq S
  BY <1>1, <1>2, SetInduction
<1> QED
  BY <1>3 DEF S

(* Which routine of FatChains runs in which phase, from step to step.      *)
LEMMA RoutineNext ==
  ASSUME FileInv, PathInv, RoutineInv, [FileNext]_fileVars
  PROVE  RoutineInv'
<1> USE DEF FileInv, CallProgress, CallTyped, RoutineInv, Interrupted, ReturnOk, Return,
            ReturnError, vars, chainVars, refVars, callVars, byteVars, opVars
<1>t. /\ hlen \in [Owners -> 0 .. MaxLength] /\ dlen \in [Owners -> 0 .. MaxLength]
      /\ entryFirst \in [Owners -> Clusters \cup {NoCluster}]
      /\ pc # "idle" => owner \in Owners
      /\ phase \in Phases /\ pc \in PCs
  BY DEF FileTypeOK, TypeOK, ChainTypeOK
<1>1. ASSUME NEW o \in Owners, NEW at \in 0 .. MaxLength - 1, NEW end \in 1 .. MaxLength,
             NEW value \in Values, WriteFileAt(o, at, end, value)
      PROVE  RoutineInv'
  BY <1>1 DEF WriteFileAt, EnsureChainLength, Required
<1>2. ASSUME NEW o \in Owners, TruncateSame(o) PROVE RoutineInv'
  BY <1>2 DEF TruncateSame
<1>3. ASSUME NEW o \in Owners, NEW length \in 0 .. MaxLength, TruncateLonger(o, length)
      PROVE  RoutineInv'
  BY <1>3 DEF TruncateLonger, EnsureChainLength, Required
<1>4. ASSUME NEW o \in Owners, NEW length \in 0 .. MaxLength, TruncateShorter(o, length)
      PROVE  RoutineInv'
  <2>1. /\ phase' = "shrink" /\ pc' = "shrink" /\ owner' = o /\ need' = Required(length)
        /\ hlen' = [hlen EXCEPT ![o] = length]
    BY <1>4 DEF TruncateShorter, BeginShrink
  <2>2. hlen'[owner'] = length
    BY <1>t, <2>1
  <2>3. need' = Required(hlen'[owner'])
    BY <2>1, <2>2
  <2> QED
    BY <2>1, <2>3 DEF Required
<1>5. ASSUME NEW o \in Owners, RemoveFile(o) PROVE RoutineInv'
  BY <1>t, <1>5 DEF RemoveFile, BeginRemove
<1>6. CASE Extend
  <2>1. CASE ChainTailAndLength \/ ClearCluster \/ LinkCluster
    BY <1>6, <2>1
       DEF Extend, ChainTailAndLength, ClearCluster, LinkCluster, Required
  <2>2. CASE MarkAllocated \/ AllocationRefused
    BY <1>6, <2>2 DEF Extend, MarkAllocated, AllocationRefused, Required
  <2> QED
    BY <1>6, <2>1, <2>2 DEF Extend
<1>7. CASE Adopt
  BY <1>7 DEF Adopt, AdoptChain, Fill
<1>8. CASE PersistFirst
  BY <1>8 DEF PersistFirst, PersistEntry, PersistFileInfo, Fill
<1>9. CASE WriteZeros
  BY <1>9 DEF WriteZeros
<1>10. CASE WriteFileDataAt
  BY <1>10 DEF WriteFileDataAt
<1>11. CASE PersistLength
  BY <1>11 DEF PersistLength, PersistEntry, PersistFileInfo
<1>12. CASE PersistShorter
  <2>1. /\ pc = "shrink" /\ phase' = "shrink" /\ owner' = owner /\ head' = head /\ need' = need
        /\ hlen' = hlen
        /\ pc' = (IF need = 0 THEN "free" ELSE "seek")
        /\ entryFirst' = [entryFirst EXCEPT ![owner] = held[owner]]
        /\ dlen' = [dlen EXCEPT ![owner] = hlen[owner]]
    BY <1>12 DEF PersistShorter, PersistShrink
  <2>2. need # 0 => held[owner] = head
    BY <2>1 DEF PathInv
  <2>3. owner \in Owners /\ phase = "shrink"
    BY <1>12, <1>t, <2>1 DEF PersistShorter
  <2>4. entryFirst'[owner'] = held[owner] /\ dlen'[owner'] = hlen'[owner']
    BY <1>t, <2>1, <2>3
  <2>5. need' = Required(hlen'[owner'])
    BY <2>1, <2>3
  <2> QED
    BY <2>1, <2>2, <2>3, <2>4, <2>5 DEF Required
<1>13. CASE TruncateChain
  BY <1>13 DEF TruncateChain, ClusterAt, CutChain, FreeChain, Required
<1>14. CASE DeleteEntry
  BY <1>14 DEF DeleteEntry, DeleteFoundEntry
<1>15. CASE FreeRemoved
  BY <1>15 DEF FreeRemoved, FreeChain
<1>16. CASE Abort
  BY <1>16 DEF Abort, CallAborted
<1>17. CASE RemountVolume
  BY <1>17 DEF RemountVolume, Remount
<1>18. CASE UNCHANGED fileVars
  BY <1>18 DEF fileVars, Required
<1> QED
  BY <1>1, <1>2, <1>3, <1>4, <1>5, <1>6, <1>7, <1>8, <1>9, <1>10, <1>11, <1>12,
     <1>13, <1>14, <1>15, <1>16, <1>17, <1>18
     DEF FileNext, FileCall, FileStep

(* The index of the cluster a walk is at, from step to step.               *)
LEMMA PlaceNext ==
  ASSUME ChainInv, PathInv, PlaceInv, [Next]_vars
  PROVE  PlaceInv'
<1> USE DEF vars, chainVars, refVars, callVars, Return, ReturnError
<1>0. ASSUME pc' \in {"idle", "shrink", "unlink", "free"} PROVE PlaceInv'
  BY <1>0 DEF PlaceInv
<1>t. /\ fat \in [Clusters -> FatEntries]
      /\ head \in Clusters \cup {NoCluster}
      /\ count \in Nat /\ need \in Nat /\ pc \in PCs
      /\ held \in [Owners -> Clusters \cup {NoCluster}]
  BY ChainAssumption DEF ChainInv, WalkInv, ChainTypeOK
(* Links are kept: the cluster at an index that was there stays there.     *)
<1>h. PICK h \in Clusters \cup {NoCluster} : h = head
  BY <1>t
<1>k. ASSUME \A c \in Clusters : IsLink(fat[c]) => fat'[c] = fat[c],
             NEW n \in Nat, ClusterOf(h, n) # NoCluster
      PROVE  ClusterOf(h, n)' = ClusterOf(h, n)
  BY <1>k, <1>t, PositionKept
(* The first cluster of a chain, and what a place in the locals means.     *)
<1>p. ASSUME NEW g, NEW n \in Nat, head' = g, count' = n + 1
      PROVE  ClusterOf(head, count - 1)' = ClusterOf(g, n)'
  <2>1. count' - 1 = n
    BY <1>p
  <2> QED
    BY <1>p, <2>1
<1>z. ASSUME NEW g, head' = g, count' = 1 PROVE ClusterOf(head, count - 1)' = g
  <2>1. ClusterOf(head, count - 1)' = ClusterOf(g, 0)'
    BY <1>p, <1>z
  <2> QED
    BY <2>1, PositionsNext
<1>n. PICK n \in Int : n = count - 1 /\ (count # 0 => n \in Nat) /\ count = n + 1
  BY <1>t
<1>1. ASSUME NEW o \in Owners, NEW k \in 1 .. MaxRequired, EnsureChainLength(o, k)
      PROVE  PlaceInv'
  <2>1. CASE held[o] = NoCluster
    BY <1>1, <2>1 DEF EnsureChainLength, PlaceInv, ChainInv, WalkInv
  <2>2. CASE held[o] # NoCluster
    <3>1. pc' = "length" /\ cur' = held[o] /\ head' = held[o] /\ count' = 1
      BY <1>1, <2>2 DEF EnsureChainLength
    <3>2. PICK g : g = held[o]
      OBVIOUS
    <3>3. ClusterOf(head, count - 1)' = g
      BY <1>z, <3>1, <3>2
    <3> QED
      BY <3>1, <3>2, <3>3 DEF PlaceInv
  <2> QED
    BY <2>1, <2>2
<1>2. CASE ChainTailAndLength
  <2>0. pc = "length" /\ count # 0 /\ cur = ClusterOf(head, count - 1) /\ cur \in Clusters
    BY <1>2 DEF ChainTailAndLength, PlaceInv, ChainInv, WalkInv
  <2>n. n \in Nat /\ count = n + 1 /\ cur # NoCluster /\ ClusterOf(h, n) = cur
    BY <1>h, <1>n, <2>0, MarkersDistinct
  <2>1. CASE IsLink(fat[cur]) /\ count < ClusterCount
    <3>1. pc' = "length" /\ head' = head /\ fat' = fat /\ cur' = fat[cur] /\ count' = count + 1
      BY <1>2, <2>1, MarkersDistinct DEF ChainTailAndLength, IsLink
    <3>2. ClusterOf(h, n + 1) = fat[cur]
      BY <2>1, <2>n, Positions DEF Follow
    <3>3. fat[cur] # NoCluster /\ n + 1 \in Nat
      BY <2>1, <2>n, MarkersDistinct DEF IsLink
    <3>4. ClusterOf(h, n + 1)' = fat[cur]
      BY <1>k, <3>1, <3>2, <3>3
    <3>5. ClusterOf(head, count - 1)' = ClusterOf(h, n + 1)'
      BY <1>h, <1>p, <2>n, <3>1, <3>3
    <3> QED
      BY <1>t, <3>1, <3>4, <3>5 DEF PlaceInv
  <2>2. CASE fat[cur] = EndOfChain
    <3>1. /\ pc' = (IF count < need THEN "mark" ELSE "adopt")
          /\ head' = head /\ fat' = fat /\ tail' = cur /\ count' = count /\ need' = need
      BY <1>2, <2>2, MarkersDistinct DEF ChainTailAndLength, IsLink
    <3>2. ClusterOf(h, n)' = cur
      BY <1>k, <2>n, <3>1
    <3>3. ClusterOf(head, count - 1)' = ClusterOf(h, n)'
      BY <1>h, <1>p, <2>n, <3>1
    <3> QED
      BY <1>t, <2>0, <2>n, <3>1, <3>2, <3>3 DEF PlaceInv
  <2>3. CASE ~ (IsLink(fat[cur]) /\ count < ClusterCount) /\ fat[cur] # EndOfChain
    BY <1>0, <1>2, <2>3 DEF ChainTailAndLength
  <2> QED
    BY <2>1, <2>2, <2>3
<1>3. CASE MarkAllocated
  <2>1. PICK c \in Clusters : fat[c] = Free /\ fat' = [fat EXCEPT ![c] = EndOfChain]
    BY <1>3 DEF MarkAllocated, IsNextFree
  <2>2. pc = "mark" /\ pc' = "clear" /\ head' = head /\ tail' = tail /\ count' = count
    BY <1>3 DEF MarkAllocated
  <2>3. CASE tail = NoCluster
    BY <2>2, <2>3 DEF PlaceInv
  <2>4. CASE tail # NoCluster
    <3>1. count # 0 /\ tail = ClusterOf(h, n) /\ n \in Nat
      BY <1>h, <1>n, <2>2, <2>4 DEF PlaceInv
    <3>2. \A d \in Clusters : IsLink(fat[d]) => fat'[d] = fat[d]
      BY <1>t, <2>1, MarkersDistinct DEF IsLink
    <3>3. ClusterOf(h, n)' = tail
      BY <1>k, <2>4, <3>1, <3>2
    <3>4. ClusterOf(head, count - 1)' = ClusterOf(h, n)'
      BY <1>h, <1>n, <1>p, <2>2, <3>1
    <3> QED
      BY <2>2, <3>1, <3>3, <3>4 DEF PlaceInv
  <2> QED
    BY <2>3, <2>4
<1>4. CASE ClearCluster
  <2>0. pc = "clear" /\ fat' = fat /\ need' = need
    BY <1>4 DEF ClearCluster
  <2>1. CASE tail # NoCluster
    <3>1. pc' = "link" /\ head' = head /\ tail' = tail /\ count' = count
      BY <1>4, <2>1 DEF ClearCluster
    <3>2. count # 0 /\ tail = ClusterOf(h, n) /\ n \in Nat
      BY <1>h, <1>n, <2>0, <2>1 DEF PlaceInv
    <3>3. ClusterOf(h, n)' = tail
      BY <1>k, <2>0, <2>1, <3>2
    <3>4. ClusterOf(head, count - 1)' = ClusterOf(h, n)'
      BY <1>h, <1>n, <1>p, <3>1, <3>2
    <3> QED
      BY <2>1, <3>1, <3>2, <3>3, <3>4 DEF PlaceInv
  <2>2. CASE tail = NoCluster
    <3>1. /\ pc' = (IF 1 < need THEN "mark" ELSE "adopt")
          /\ head' = cur /\ tail' = cur /\ count' = 1
      BY <1>4, <2>2 DEF ClearCluster
    <3>2. PICK g : g = cur
      OBVIOUS
    <3>3. ClusterOf(head, count - 1)' = g
      BY <1>z, <3>1, <3>2
    <3>4. cur # NoCluster
      BY <2>0, MarkersDistinct DEF ChainInv, WalkInv
    <3> QED
      BY <1>t, <2>0, <3>1, <3>2, <3>3, <3>4 DEF PlaceInv
  <2> QED
    BY <2>1, <2>2
<1>5. CASE LinkCluster
  <2>1. /\ pc = "link" /\ head' = head /\ tail' = cur /\ count' = count + 1 /\ need' = need
        /\ fat' = [fat EXCEPT ![tail] = cur]
        /\ pc' = (IF count + 1 < need THEN "mark" ELSE "adopt")
    BY <1>5 DEF LinkCluster
  <2>2. /\ tail \in Clusters /\ cur \in Clusters /\ fat[tail] = EndOfChain
        /\ tail # NoCluster /\ cur # NoCluster
    BY <2>1, MarkersDistinct DEF ChainInv, WalkInv
  <2>3. count # 0 /\ tail = ClusterOf(h, n) /\ n \in Nat
    BY <1>h, <1>n, <2>1, <2>2 DEF PlaceInv
  <2>4. \A d \in Clusters : IsLink(fat[d]) => fat'[d] = fat[d]
    BY <1>t, <2>1, <2>2, MarkersDistinct DEF IsLink
  <2>5. PICK t, c : t = tail /\ c = cur
    OBVIOUS
  <2>6. ClusterOf(h, n)' = t
    BY <1>k, <2>2, <2>3, <2>4, <2>5
  <2>7. ClusterOf(h, n + 1)' = Follow(t)'
    BY <2>3, <2>6, PositionsNext DEF Follow, IsLink
  <2>8. Follow(t)' = c
    <3>1. fat'[t] = c /\ t # NoCluster /\ c \in Clusters
      BY <1>t, <2>1, <2>2, <2>5
    <3> QED
      BY <3>1 DEF Follow, IsLink
  <2>9. n + 1 \in Nat /\ count' = (n + 1) + 1 /\ head' = h
    BY <1>h, <1>n, <2>1, <2>3
  <2>10. ClusterOf(head, count - 1)' = ClusterOf(h, n + 1)'
    BY <1>p, <2>9
  <2> QED
    BY <1>t, <2>1, <2>2, <2>5, <2>7, <2>8, <2>9, <2>10 DEF PlaceInv
<1>6. CASE PersistShrink
  <2>1. CASE need = 0
    BY <1>0, <1>6, <2>1 DEF PersistShrink
  <2>2. CASE need # 0
    <3>1. pc' = "seek" /\ cur' = head /\ head' = head /\ count' = 1 /\ need' = need
      BY <1>6, <2>2 DEF PersistShrink
    <3>2. ClusterOf(head, count - 1)' = h
      BY <1>h, <1>z, <3>1
    <3> QED
      BY <1>h, <1>t, <2>2, <3>1, <3>2 DEF PlaceInv
  <2> QED
    BY <2>1, <2>2
<1>7. CASE ClusterAt
  <2>0. /\ pc = "seek" /\ count # 0 /\ cur = ClusterOf(head, count - 1) /\ cur \in Clusters
        /\ count <= need
    BY <1>7 DEF ClusterAt, PlaceInv, ChainInv, WalkInv
  <2>n. n \in Nat /\ count = n + 1 /\ cur # NoCluster /\ ClusterOf(h, n) = cur
    BY <1>h, <1>n, <2>0, MarkersDistinct
  <2>1. CASE pc' = "seek"
    <3>1. /\ head' = head /\ fat' = fat /\ cur' = fat[cur] /\ count' = count + 1
          /\ IsLink(fat[cur]) /\ count < need /\ need' = need
      BY <1>7, <2>1 DEF ClusterAt
    <3>2. ClusterOf(h, n + 1) = fat[cur]
      BY <2>n, <3>1, Positions DEF Follow
    <3>3. fat[cur] # NoCluster /\ n + 1 \in Nat
      BY <2>n, <3>1, MarkersDistinct DEF IsLink
    <3>4. ClusterOf(h, n + 1)' = fat[cur]
      BY <1>k, <3>1, <3>2, <3>3
    <3>5. ClusterOf(head, count - 1)' = ClusterOf(h, n + 1)'
      BY <1>h, <1>p, <2>n, <3>1, <3>3
    <3> QED
      BY <1>t, <2>1, <3>1, <3>4, <3>5 DEF PlaceInv
  <2>2. CASE pc' = "cut"
    <3>1. head' = head /\ fat' = fat /\ tail' = cur /\ count = need /\ need' = need
      BY <1>7, <2>2 DEF ClusterAt
    <3>2. ClusterOf(h, n)' = cur
      BY <1>k, <2>n, <3>1
    <3>3. need' - 1 = n /\ head' = h
      BY <1>h, <1>n, <2>n, <3>1
    <3>4. ClusterOf(head, need - 1)' = ClusterOf(h, n)'
      BY <3>3
    <3> QED
      BY <2>2, <3>1, <3>2, <3>4 DEF PlaceInv
  <2>3. CASE pc' = "idle"
    BY <1>0, <2>3
  <2> QED
    BY <1>7, <2>0, <2>1, <2>2, <2>3 DEF ClusterAt
<1>8. ASSUME \/ \E o \in Owners : BeginRemove(o) \/ \E k \in 0 .. MaxRequired : BeginShrink(o, k)
             \/ AllocationRefused \/ AdoptChain \/ CutChain \/ FreeChain \/ DeleteFoundEntry
             \/ Interrupt
      PROVE  PlaceInv'
  <2>1. pc' \in {"idle", "shrink", "unlink", "free"}
    BY <1>8
       DEF BeginRemove, BeginShrink, AllocationRefused, AdoptChain, CutChain, FreeChain,
           DeleteFoundEntry, Interrupt, CallAborted, Remount
  <2> QED
    BY <1>0, <2>1
<1>9. CASE \E o \in Owners : PersistFileInfo(o)
  BY <1>0, <1>9 DEF PersistFileInfo
<1>10. CASE UNCHANGED vars
  <2>1. \A i \in Nat : \A f : ClusterOf(f, i)' = ClusterOf(f, i)
    BY <1>10, ClusterOfSame
  <2>2. pc' = pc /\ cur' = cur /\ tail' = tail /\ head' = head /\ count' = count /\ need' = need
    BY <1>10
  <2>3. /\ count # 0 => count - 1 \in Nat
        /\ pc = "cut" => need - 1 \in Nat
    BY <1>t DEF PathInv
  <2> QED
    BY <2>1, <2>2, <2>3 DEF PlaceInv
<1> QED
  BY <1>1, <1>2, <1>3, <1>4, <1>5, <1>6, <1>7, <1>8, <1>9, <1>10 DEF Next, Call, Step

(* What FreeChain frees is on no chain that an entry or a handle leads to. *)
LEMMA FreeKeepsChains ==
  ASSUME ChainInv, FreeChain, NEW first \in Clusters \cup {NoCluster}, first # cur
  PROVE  \A n \in Nat : Holds(first, n) => Holds(first, n)'
<1>t. fat \in [Clusters -> FatEntries]
  BY DEF ChainInv, WalkInv, ChainTypeOK
<1>1. ~ HasPredecessor(cur)
  BY DEF FreeChain, ChainInv, CallInv
<1>2. \A c \in Clusters : c # cur => fat'[c] = fat[c]
  BY <1>t DEF FreeChain, ReturnError, chainVars
<1>3. \A n \in Nat : ClusterOf(first, n) # NoCluster => ClusterOf(first, n) # cur
  <2> DEFINE S == Clusters \ {cur}
  <2>1. Closed(S) /\ {first} \cap Clusters \subseteq S
    BY <1>1 DEF Closed, IsLink, HasPredecessor
  <2>2. Reach({first}) \subseteq S
    BY <2>1, ReachLeast
  <2> QED
    BY <1>t, <2>2, PositionReached
<1>4. ASSUME NEW n \in Nat PROVE ClusterOf(first, n)' = ClusterOf(first, n)
  <2>1. \A j \in Nat : j < n /\ ClusterOf(first, j) # NoCluster =>
          fat'[ClusterOf(first, j)] = fat[ClusterOf(first, j)]
    BY <1>t, <1>2, <1>3, PositionReached
  <2> QED
    BY <1>t, <2>1, PositionAgrees
<1> QED
  BY <1>4, HoldsSame

(* A cut at the cluster at some index keeps the chain up to there, and all *)
(* other chains.                                                           *)
LEMMA CutKeepsPositions ==
  ASSUME ChainInv, PathInv, PlaceInv, CutChain,
         NEW first \in Clusters \cup {NoCluster}, NEW n \in Nat, Holds(first, n),
         first # NoCluster => ~ HasPredecessor(first),
         first = head => Required(n) = need
  PROVE  \A i \in Nat : i < Required(n) => ClusterOf(first, i)' = ClusterOf(first, i)
<1>t. /\ fat \in [Clusters -> FatEntries] /\ need \in Nat
      /\ held \in [Owners -> Clusters \cup {NoCluster}]
      /\ head \in Clusters \cup {NoCluster}
      /\ pc # "idle" => owner \in Owners
  BY ChainAssumption DEF ChainInv, WalkInv, ChainTypeOK
<1>0. pc = "cut" /\ fat' = [fat EXCEPT ![tail] = EndOfChain] /\ tail \in Clusters
  BY DEF CutChain, ChainInv, WalkInv
<1>1. /\ tail \in Reach({head}) /\ head # NoCluster /\ need # 0 /\ head = held[owner]
      /\ tail = ClusterOf(head, need - 1) /\ need - 1 \in Nat
  BY <1>t, <1>0, MarkersDistinct DEF PathInv, PlaceInv
<1>2. head \in Clusters /\ ~ HasPredecessor(head)
  BY <1>t, <1>0, <1>1 DEF ChainInv, HeadsAreHeads, Referenced
<1>3. \A c \in Clusters : c # tail => fat'[c] = fat[c]
  BY <1>t, <1>0
<1>4. SUFFICES ASSUME NEW i \in Nat, i < Required(n)
               PROVE  ClusterOf(first, i)' = ClusterOf(first, i)
  OBVIOUS
<1>n. n # 0
  BY <1>4, RequiredZero
<1>5. PICK k \in Nat : k = (n - 1) \div ClusterSize /\ k = Required(n) - 1
  BY <1>n, IndexOf
<1>6. ClusterOf(first, k) # NoCluster
  BY <1>n, <1>5 DEF Holds
<1>7. first # NoCluster
  BY <1>6, PositionOfNone
<1>8. ASSUME NEW j \in Nat, j < k, ClusterOf(first, j) # NoCluster
      PROVE  ClusterOf(first, j) # tail
  <2>1. CASE first = head
    <3>1. k = need - 1
      BY <1>5, <2>1
    <3>2. ClusterOf(first, j) # ClusterOf(first, k)
      BY <1>2, <1>6, <1>8, <2>1, PositionsDiffer
    <3> QED
      BY <1>1, <2>1, <3>1, <3>2
  <2>2. CASE first # head
    <3>1. Reach({head}) \cap Reach({first}) = {}
      BY <1>2, <1>7, <2>2, ChainsApart
    <3>2. ClusterOf(first, j) \in Reach({first})
      BY <1>t, <1>8, PositionReached
    <3> QED
      BY <1>1, <3>1, <3>2
  <2> QED
    BY <2>1, <2>2
<1>9. i <= k
  <2>1. Required(n) \in Nat
    BY <1>n, <1>5, RequiredZero, FileAssumption DEF Required
  <2> QED
    BY <1>4, <1>5, <2>1
<1>10. \A j \in Nat : j < i /\ ClusterOf(first, j) # NoCluster =>
         fat'[ClusterOf(first, j)] = fat[ClusterOf(first, j)]
  <2> TAKE j \in Nat
  <2>1. j < i => j < k
    BY <1>9
  <2> QED
    BY <1>t, <1>3, <1>8, <2>1, PositionReached
<1> QED
  BY <1>t, <1>10, PositionAgrees

(* So it keeps what they hold.                                             *)
LEMMA CutKeepsChains ==
  ASSUME ChainInv, PathInv, PlaceInv, CutChain,
         NEW first \in Clusters \cup {NoCluster}, NEW n \in Nat, Holds(first, n),
         first # NoCluster => ~ HasPredecessor(first),
         first = head => Required(n) = need
  PROVE  Holds(first, n)'
<1>1. SUFFICES ASSUME n # 0 PROVE Holds(first, n)'
  BY DEF Holds
<1>2. PICK k \in Nat : k = (n - 1) \div ClusterSize /\ k = Required(n) - 1
  BY <1>1, IndexOf
<1>3. k < Required(n)
  <2>1. Required(n) \in Int
    BY <1>1, FileAssumption DEF Required
  <2> QED
    BY <1>2, <2>1
<1>4. ClusterOf(first, k)' = ClusterOf(first, k)
  BY <1>3, CutKeepsPositions
<1> QED
  BY <1>1, <1>2, <1>4 DEF Holds

-----------------------------------------------------------------------------
(* A step that keeps what the chains hold keeps the files covered, when it *)
(* stores a chain and a length only where the chain holds that length.     *)
LEMMA CoverFrom ==
  ASSUME FileInv',
         \A first \in Clusters \cup {NoCluster} : \A n \in Nat :
           Holds(first, n) => Holds(first, n)',
         \A o \in Owners : Holds(entryFirst'[o], dlen'[o]) /\ Holds(held'[o], hlen'[o]),
         phase' \in {"first", "fill", "data"} => Holds(held'[call'.file], call'.end)
  PROVE  LengthCovered' /\ CallCovered'
<1>t. /\ hlen' \in [Owners -> 0 .. MaxLength] /\ dlen' \in [Owners -> 0 .. MaxLength]
      /\ entryFirst' \in [Owners -> Clusters \cup {NoCluster}]
      /\ held' \in [Owners -> Clusters \cup {NoCluster}]
      /\ phase' # "idle" => call'.file \in Owners /\ call'.end \in 0 .. MaxLength
      /\ 0 .. MaxLength \subseteq Nat
  BY Lengths DEF FileInv, FileTypeOK, TypeOK, ChainTypeOK, CallProgress, CallTyped
<1>1. LengthCovered'
  <2> SUFFICES ASSUME NEW o \in Owners
               PROVE  Holds(entryFirst[o], dlen[o])' /\ Holds(held[o], hlen[o])'
    BY DEF LengthCovered
  <2>1. PICK e \in Clusters \cup {NoCluster}, h \in Clusters \cup {NoCluster},
             m \in Nat, n \in Nat :
          e = entryFirst'[o] /\ h = held'[o] /\ m = dlen'[o] /\ n = hlen'[o]
    BY <1>t
  <2>2. Holds(e, m)' /\ Holds(h, n)'
    BY <2>1
  <2> QED
    BY <2>1, <2>2
<1>2. CallCovered'
  <2> SUFFICES ASSUME phase' \in {"first", "fill", "data"}
               PROVE  Holds(held[call.file], call.end)'
    BY DEF CallCovered
  <2>1. PICK h \in Clusters \cup {NoCluster}, n \in Nat : h = held'[call'.file] /\ n = call'.end
    BY <1>t
  <2>2. Holds(h, n)'
    BY <2>1
  <2> QED
    BY <2>1, <2>2
<1> QED
  BY <1>1, <1>2

(* Entries and handles stay covered while the chain is extended: the marks *)
(* and links of ensure_chain_length are put on free clusters and on the    *)
(* end of the chain.                                                       *)
LEMMA ExtendKeepsChains ==
  ASSUME ChainInv,
         ChainTailAndLength \/ MarkAllocated \/ AllocationRefused \/ ClearCluster \/ LinkCluster
  PROVE  /\ entryFirst' = entryFirst /\ held' = held
         /\ \A c \in Clusters : IsLink(fat[c]) => fat'[c] = fat[c]
<1>t. fat \in [Clusters -> FatEntries]
  BY DEF ChainInv, WalkInv, ChainTypeOK
<1> USE DEF refVars, chainVars, Return, ReturnError
<1>1. CASE ChainTailAndLength \/ AllocationRefused \/ ClearCluster
  BY <1>1 DEF ChainTailAndLength, AllocationRefused, ClearCluster
<1>2. CASE MarkAllocated
  <2>1. PICK c \in Clusters : fat[c] = Free /\ fat' = [fat EXCEPT ![c] = EndOfChain]
    BY <1>2 DEF MarkAllocated, IsNextFree
  <2> QED
    BY <1>t, <1>2, <2>1, MarkersDistinct DEF MarkAllocated, IsLink
<1>3. CASE LinkCluster
  <2>1. tail \in Clusters /\ fat[tail] = EndOfChain /\ fat' = [fat EXCEPT ![tail] = cur]
    BY <1>3, MarkersDistinct DEF LinkCluster, ChainInv, WalkInv
  <2> QED
    BY <1>t, <1>3, <2>1, MarkersDistinct DEF LinkCluster, IsLink
<1> QED
  BY <1>1, <1>2, <1>3

(* No device write leaves an entry or a handle with more bytes than its    *)
(* chain holds, nor a call with a range its chain does not hold.           *)
LEMMA CoverNext ==
  ASSUME FileInv, FileInv', ChainInv, PathInv, RoutineInv, ExtentInv, [FileNext]_fileVars
  PROVE  LengthCovered' /\ CallCovered'
<1> USE DEF Interrupted, ReturnOk, Return, ReturnError, vars, chainVars, refVars, callVars,
            byteVars, opVars
<1>t. /\ fat \in [Clusters -> FatEntries]
      /\ hlen \in [Owners -> Nat] /\ dlen \in [Owners -> Nat]
      /\ entryFirst \in [Owners -> Clusters \cup {NoCluster}]
      /\ held \in [Owners -> Clusters \cup {NoCluster}]
      /\ pc # "idle" => owner \in Owners
      /\ phase # "idle" => call.file \in Owners /\ call.end \in Nat
  <2>1. 0 .. MaxLength \subseteq Nat
    BY Lengths
  <2> QED
    BY <2>1 DEF FileInv, FileTypeOK, TypeOK, ChainTypeOK, CallProgress, CallTyped
(* What holds before the step.                                             *)
<1>a. \A o \in Owners : Holds(entryFirst[o], dlen[o]) /\ Holds(held[o], hlen[o])
  BY DEF ExtentInv, LengthCovered
<1>b. phase \in {"first", "fill", "data"} => Holds(held[call.file], call.end)
  BY DEF ExtentInv, CallCovered
(* Steps that take no link away.                                           *)
<1>k. ASSUME \A c \in Clusters : IsLink(fat[c]) => fat'[c] = fat[c],
             \A o \in Owners : Holds(entryFirst'[o], dlen'[o]) /\ Holds(held'[o], hlen'[o]),
             phase' \in {"first", "fill", "data"} => Holds(held'[call'.file], call'.end)
      PROVE  LengthCovered' /\ CallCovered'
  BY <1>k, <1>t, HoldsKept, CoverFrom
<1>s. ASSUME \A c \in Clusters : IsLink(fat[c]) => fat'[c] = fat[c],
             entryFirst' = entryFirst, held' = held, hlen' = hlen, dlen' = dlen,
             phase' \in {"first", "fill", "data"} => phase \in {"first", "fill", "data"} /\ call' = call
      PROVE  LengthCovered' /\ CallCovered'
  BY <1>s, <1>a, <1>b, <1>k
<1>1. ASSUME NEW o \in Owners, NEW at \in 0 .. MaxLength - 1, NEW end \in 1 .. MaxLength,
             NEW value \in Values, WriteFileAt(o, at, end, value)
      PROVE  LengthCovered' /\ CallCovered'
  BY <1>1, <1>s DEF WriteFileAt, EnsureChainLength
<1>2. ASSUME NEW o \in Owners, TruncateSame(o) PROVE LengthCovered' /\ CallCovered'
  BY <1>2, <1>s DEF TruncateSame
<1>3. ASSUME NEW o \in Owners, NEW length \in 0 .. MaxLength, TruncateLonger(o, length)
      PROVE  LengthCovered' /\ CallCovered'
  BY <1>3, <1>s DEF TruncateLonger, EnsureChainLength
<1>4. ASSUME NEW o \in Owners, NEW length \in 0 .. MaxLength, TruncateShorter(o, length)
      PROVE  LengthCovered' /\ CallCovered'
  <2>0. length \in Nat /\ length <= hlen[o]
    BY <1>t, <1>4, Lengths DEF TruncateShorter
  <2>1. /\ fat' = fat /\ entryFirst' = entryFirst /\ dlen' = dlen /\ phase' = "shrink"
        /\ hlen' = [hlen EXCEPT ![o] = length]
        /\ held' = IF Required(length) = 0 THEN [held EXCEPT ![o] = NoCluster] ELSE held
    BY <1>4 DEF TruncateShorter, BeginShrink
  <2>2. Holds(held[o], length)
    BY <1>a, <1>t, <2>0, HoldsLess
  <2>3. Holds(held'[o], hlen'[o])
    <3>1. CASE Required(length) = 0
      <4>1. length = 0
        BY <2>0, <3>1, RequiredZero
      <4> QED
        BY <1>t, <2>1, <3>1, <4>1, HoldsNothing
    <3>2. CASE Required(length) # 0
      BY <1>t, <2>1, <2>2, <3>2
    <3> QED
      BY <3>1, <3>2
  <2>4. \A p \in Owners : Holds(held'[p], hlen'[p])
    <3> TAKE p \in Owners
    <3>1. p # o => held'[p] = held[p] /\ hlen'[p] = hlen[p]
      BY <1>t, <2>1
    <3> QED
      BY <1>a, <2>3, <3>1
  <2> QED
    BY <1>a, <1>k, <2>1, <2>4
<1>5. ASSUME NEW o \in Owners, RemoveFile(o) PROVE LengthCovered' /\ CallCovered'
  <2>1. /\ fat' = fat /\ entryFirst' = entryFirst /\ dlen' = dlen /\ phase' = "remove"
        /\ hlen' = [hlen EXCEPT ![o] = 0]
        /\ held' = [held EXCEPT ![o] = NoCluster]
    BY <1>5 DEF RemoveFile, BeginRemove
  <2>2. Holds(held'[o], hlen'[o])
    BY <1>t, <2>1, HoldsNothing
  <2>3. \A p \in Owners : Holds(held'[p], hlen'[p])
    <3> TAKE p \in Owners
    <3>1. p # o => held'[p] = held[p] /\ hlen'[p] = hlen[p]
      BY <1>t, <2>1
    <3> QED
      BY <1>a, <2>2, <3>1
  <2> QED
    BY <1>a, <1>k, <2>1, <2>3
<1>6. CASE Extend
  <2>1. ChainTailAndLength \/ MarkAllocated \/ AllocationRefused \/ ClearCluster \/ LinkCluster
    BY <1>6 DEF Extend
  <2>2. phase' \in {"extend", "idle"} /\ hlen' = hlen /\ dlen' = dlen
    BY <1>6 DEF Extend
  <2> QED
    BY <1>s, <2>1, <2>2, ExtendKeepsChains
<1>7. CASE Adopt
  <2>1. /\ pc = "adopt" /\ phase = "extend" /\ fat' = fat /\ entryFirst' = entryFirst
        /\ hlen' = hlen /\ dlen' = dlen /\ call' = call
        /\ held' = [held EXCEPT ![owner] = head]
    BY <1>7 DEF Adopt, AdoptChain, Fill
  <2>2. owner = call.file /\ owner \in Owners /\ need = Required(call.end)
    BY <1>t, <2>1 DEF FileInv, CallProgress, RoutineInv
  <2>3. held[owner] = NoCluster \/ held[owner] = head
    BY <2>1 DEF PathInv
  <2>4. tail # NoCluster /\ count # 0 /\ tail = ClusterOf(head, count - 1) /\ need <= count
    BY <2>1 DEF ExtentInv, PlaceInv
  <2>5. PICK k \in Nat : k = count - 1 /\ count = k + 1
    BY <2>4 DEF ChainInv, WalkInv, ChainTypeOK
  <2>6. Holds(head, call.end)
    <3>1. ClusterOf(head, k) # NoCluster
      BY <2>4, <2>5
    <3>2. Required(call.end) <= k + 1
      BY <2>2, <2>4, <2>5
    <3> QED
      BY <1>t, <2>1, <3>1, <3>2, HoldsClusters
  <2>7. Holds(head, hlen[owner])
    <3>1. CASE held[owner] = head
      BY <1>a, <2>2, <3>1
    <3>2. CASE held[owner] = NoCluster
      <4>1. hlen[owner] = 0
        BY <1>a, <1>t, <2>2, <3>2, HoldsNothing
      <4> QED
        BY <4>1 DEF Holds
    <3> QED
      BY <2>3, <3>1, <3>2
  <2>8. \A p \in Owners : Holds(held'[p], hlen'[p])
    <3> TAKE p \in Owners
    <3>1. p # owner => held'[p] = held[p]
      BY <1>t, <2>1
    <3>2. p = owner => held'[p] = head
      BY <1>t, <2>1, <2>2
    <3> QED
      BY <1>a, <2>1, <2>7, <3>1, <3>2
  <2>9. held'[call'.file] = head
    BY <1>t, <2>1, <2>2
  <2> QED
    BY <1>a, <1>k, <2>1, <2>6, <2>8, <2>9
<1>8. ASSUME NEW f \in Owners, PersistEntry(f), hlen' = hlen,
             phase' \in {"first", "fill", "data"} => phase \in {"first", "fill", "data"} /\ call' = call
      PROVE  LengthCovered' /\ CallCovered'
  <2>1. /\ fat' = fat /\ held' = held
        /\ dlen' = [dlen EXCEPT ![f] = hlen[f]]
        /\ entryFirst' = [entryFirst EXCEPT ![f] = held[f]]
    BY <1>t, <1>8 DEF PersistEntry, PersistFileInfo
  <2>2. \A p \in Owners : Holds(entryFirst'[p], dlen'[p])
    <3> TAKE p \in Owners
    <3>1. p # f => entryFirst'[p] = entryFirst[p] /\ dlen'[p] = dlen[p]
      BY <1>t, <2>1
    <3>2. p = f => entryFirst'[p] = held[f] /\ dlen'[p] = hlen[f]
      BY <1>t, <2>1
    <3> QED
      BY <1>a, <3>1, <3>2
  <2> QED
    BY <1>a, <1>b, <1>k, <1>8, <2>1, <2>2
<1>9. CASE PersistFirst
  BY <1>t, <1>8, <1>9 DEF PersistFirst, Fill
<1>10. CASE PersistLength
  BY <1>t, <1>8, <1>10 DEF PersistLength
(* The length of a handle grows to the end of the range that was written.  *)
<1>l. ASSUME NEW f \in Owners, f = call.file, fat' = fat, entryFirst' = entryFirst, held' = held,
             dlen' = dlen, phase \in {"fill", "data"}, hlen' = [hlen EXCEPT ![f] = call.end],
             phase' = "final"
      PROVE  LengthCovered' /\ CallCovered'
  <2>1. \A p \in Owners : Holds(held'[p], hlen'[p])
    <3> TAKE p \in Owners
    <3>1. p # f => hlen'[p] = hlen[p]
      BY <1>t, <1>l
    <3>2. p = f => hlen'[p] = call.end
      BY <1>t, <1>l
    <3> QED
      BY <1>a, <1>b, <1>l, <3>1, <3>2
  <2> QED
    BY <1>a, <1>k, <1>l, <2>1
<1>11. CASE WriteZeros
  <2>1. CASE hlen' = hlen
    BY <1>s, <1>11, <2>1 DEF WriteZeros
  <2>2. CASE hlen' # hlen
    BY <1>l, <1>t, <1>11, <2>2 DEF WriteZeros
  <2> QED
    BY <2>1, <2>2
<1>12. CASE WriteFileDataAt
  <2>1. CASE hlen' = hlen
    BY <1>s, <1>12, <2>1 DEF WriteFileDataAt
  <2>2. CASE hlen' # hlen
    BY <1>l, <1>t, <1>12, <2>2 DEF WriteFileDataAt
  <2> QED
    BY <2>1, <2>2
<1>13. CASE PersistShorter
  <2>1. /\ pc = "shrink" /\ fat' = fat /\ held' = held /\ hlen' = hlen /\ phase' = "shrink"
        /\ dlen' = [dlen EXCEPT ![owner] = hlen[owner]]
        /\ entryFirst' = [entryFirst EXCEPT ![owner] = held[owner]]
    BY <1>13 DEF PersistShorter, PersistShrink
  <2>2. \A p \in Owners : Holds(entryFirst'[p], dlen'[p])
    <3> TAKE p \in Owners
    <3>1. p # owner => entryFirst'[p] = entryFirst[p] /\ dlen'[p] = dlen[p]
      BY <1>t, <2>1
    <3>2. p = owner => entryFirst'[p] = held[p] /\ dlen'[p] = hlen[p]
      BY <1>t, <2>1
    <3> QED
      BY <1>a, <3>1, <3>2
  <2> QED
    BY <1>a, <1>k, <2>1, <2>2
<1>f. ASSUME FreeChain, hlen' = hlen, dlen' = dlen, phase' \notin {"first", "fill", "data"}
      PROVE  LengthCovered' /\ CallCovered'
  <2>1. entryFirst' = entryFirst /\ held' = held
    BY <1>f DEF FreeChain
  <2>2. ~ Referenced(cur)
    BY <1>f DEF FreeChain, ChainInv, CallInv
  <2>3. ASSUME NEW o \in Owners
        PROVE  Holds(entryFirst[o], dlen[o])' /\ Holds(held[o], hlen[o])'
    <3>1. PICK e \in Clusters \cup {NoCluster}, h \in Clusters \cup {NoCluster},
               m \in Nat, n \in Nat :
            e = entryFirst[o] /\ h = held[o] /\ m = dlen[o] /\ n = hlen[o]
      BY <1>t
    <3>2. e # cur /\ h # cur
      BY <2>2, <3>1 DEF Referenced
    <3>3. Holds(e, m) /\ Holds(h, n)
      BY <1>a, <3>1
    <3>4. Holds(e, m)' /\ Holds(h, n)'
      BY <1>f, <3>2, <3>3, FreeKeepsChains
    <3>5. e = entryFirst'[o] /\ h = held'[o] /\ m = dlen'[o] /\ n = hlen'[o]
      BY <1>f, <2>1, <3>1
    <3> QED
      BY <3>4, <3>5
  <2> QED
    BY <1>f, <2>3 DEF LengthCovered, CallCovered
<1>14. CASE TruncateChain
  <2>0. phase = "shrink" /\ phase' \in {"shrink", "idle"} /\ hlen' = hlen /\ dlen' = dlen
    BY <1>14 DEF TruncateChain
  <2>1. CASE ClusterAt
    BY <1>s, <2>0, <2>1 DEF ClusterAt
  <2>2. CASE FreeChain
    BY <1>f, <2>0, <2>2
  <2>3. CASE CutChain
    <3>0. pc = "cut" /\ entryFirst' = entryFirst /\ held' = held
      BY <2>3 DEF CutChain
    <3>1. /\ need = Required(hlen[owner]) /\ entryFirst[owner] = head /\ dlen[owner] = hlen[owner]
          /\ owner \in Owners
      BY <1>t, <2>0, <3>0 DEF RoutineInv
    <3>2. head = held[owner] /\ head # NoCluster
      BY <3>0, <3>1 DEF PathInv
    <3>3. ASSUME NEW o \in Owners
          PROVE  Holds(entryFirst[o], dlen[o])' /\ Holds(held[o], hlen[o])'
      <4>1. PICK e \in Clusters \cup {NoCluster}, h \in Clusters \cup {NoCluster},
                 m \in Nat, n \in Nat :
              e = entryFirst[o] /\ h = held[o] /\ m = dlen[o] /\ n = hlen[o]
        BY <1>t
      <4>2. /\ e # NoCluster => ~ HasPredecessor(e)
            /\ h # NoCluster => ~ HasPredecessor(h)
        BY <4>1 DEF ChainInv, HeadsAreHeads, Referenced
      <4>3. /\ e = head => Required(m) = need
            /\ h = head => Required(n) = need
        <5>1. e = head => o = owner
          BY <3>1, <3>2, <4>1 DEF ChainInv, HeadsAreHeads
        <5>2. h = head => o = owner
          BY <3>1, <3>2, <4>1 DEF ChainInv, HeadsAreHeads
        <5> QED
          BY <3>1, <4>1, <5>1, <5>2
      <4>4. Holds(e, m) /\ Holds(h, n)
        BY <1>a, <4>1
      <4>5. PlaceInv
        BY DEF ExtentInv
      <4>6. Holds(e, m)'
        BY <2>3, <4>2, <4>3, <4>4, <4>5, CutKeepsChains
      <4>7. Holds(h, n)'
        BY <2>3, <4>2, <4>3, <4>4, <4>5, CutKeepsChains
      <4>8. e = entryFirst'[o] /\ h = held'[o] /\ m = dlen'[o] /\ n = hlen'[o]
        BY <2>0, <3>0, <4>1
      <4> QED
        BY <4>6, <4>7, <4>8
    <3> QED
      BY <2>0, <3>3 DEF LengthCovered, CallCovered
  <2> QED
    BY <1>14, <2>1, <2>2, <2>3 DEF TruncateChain
<1>15. CASE DeleteEntry
  <2>1. /\ pc = "unlink" /\ fat' = fat /\ held' = held /\ hlen' = hlen
        /\ phase' \in {"remove", "idle"}
        /\ dlen' = [dlen EXCEPT ![owner] = 0]
        /\ entryFirst' = [entryFirst EXCEPT ![owner] = NoCluster]
    BY <1>15 DEF DeleteEntry, DeleteFoundEntry
  <2>2. \A p \in Owners : Holds(entryFirst'[p], dlen'[p])
    <3> TAKE p \in Owners
    <3>1. p # owner => entryFirst'[p] = entryFirst[p] /\ dlen'[p] = dlen[p]
      BY <1>t, <2>1
    <3>2. p = owner => entryFirst'[p] = NoCluster /\ dlen'[p] = 0
      BY <1>t, <2>1
    <3> QED
      BY <1>a, <3>1, <3>2, HoldsNothing
  <2> QED
    BY <1>a, <1>k, <2>1, <2>2
<1>16. CASE FreeRemoved
  BY <1>f, <1>16 DEF FreeRemoved
<1>17. CASE Abort
  BY <1>s, <1>17 DEF Abort, CallAborted
<1>18. CASE RemountVolume
  <2>1. /\ fat' = fat /\ entryFirst' = entryFirst /\ dlen' = dlen
        /\ held' = entryFirst /\ hlen' = dlen /\ phase' = "idle"
    BY <1>18 DEF RemountVolume, Remount
  <2> QED
    BY <1>a, <1>k, <2>1
<1>19. CASE UNCHANGED fileVars
  BY <1>s, <1>19 DEF fileVars
<1> QED
  BY <1>1, <1>2, <1>3, <1>4, <1>5, <1>6, <1>7, <1>9, <1>10, <1>11, <1>12,
     <1>13, <1>14, <1>15, <1>16, <1>17, <1>18, <1>19
     DEF FileNext, FileCall, FileStep

(* A volume that is mounted has files no longer than their chains, and     *)
(* nothing runs on it.                                                     *)
LEMMA ExtentInit == FileInit => RoutineInv /\ ExtentInv
<1> SUFFICES ASSUME FileInit PROVE RoutineInv /\ ExtentInv
  OBVIOUS
<1>1. pc = "idle" /\ phase = "idle"
  BY DEF FileInit, Init, NoCall
<1>2. RoutineInv /\ PlaceInv /\ CallCovered
  BY <1>1 DEF RoutineInv, PlaceInv, CallCovered
<1>3. ASSUME NEW o \in Owners PROVE Holds(entryFirst[o], dlen[o]) /\ Holds(held[o], hlen[o])
  <2>1. dlen[o] \in Nat
    BY Lengths DEF FileInit
  <2>2. dlen[o] > 0 => dlen[o] \in 1 .. dlen[o]
    BY <2>1
  <2>3. Holds(entryFirst[o], dlen[o])
    BY <2>2 DEF FileInit, Holds
  <2>4. held[o] = entryFirst[o] /\ hlen[o] = dlen[o]
    BY DEF FileInit, Init
  <2> QED
    BY <2>3, <2>4
<1> QED
  BY <1>2, <1>3 DEF ExtentInv, LengthCovered

(* Where the walks are, and what the chains hold, is invariant with what   *)
(* FatChains and the progress of the calls say.                            *)
LEMMA ExtentsInv == FileSpec => [](PathInv /\ RoutineInv /\ ExtentInv)
<1>1. FileInit => PathInv /\ RoutineInv /\ ExtentInv
  BY PathInit, ExtentInit DEF FileInit
<1>2. /\ FileInv /\ ChainInv /\ FileInv' /\ PathInv /\ RoutineInv /\ ExtentInv
      /\ [FileNext]_fileVars
      => PathInv' /\ RoutineInv' /\ ExtentInv'
  <2> SUFFICES ASSUME FileInv, ChainInv, FileInv', PathInv, RoutineInv, ExtentInv,
                      [FileNext]_fileVars
               PROVE  PathInv' /\ RoutineInv' /\ ExtentInv'
    OBVIOUS
  <2>1. [Next]_vars
    BY StepUsesChains
  <2>2. PlaceInv
    BY DEF ExtentInv
  <2>3. PathInv'
    BY <2>1, PathNext
  <2>4. RoutineInv'
    BY RoutineNext
  <2>5. PlaceInv'
    BY <2>1, <2>2, PlaceNext
  <2>6. LengthCovered' /\ CallCovered'
    BY CoverNext
  <2> QED
    BY <2>3, <2>4, <2>5, <2>6 DEF ExtentInv
<1> QED
  BY <1>1, <1>2, FilesInv, PTL DEF FileSpec

-----------------------------------------------------------------------------
(* At every device write of write_file_at, truncate_file and remove_file,  *)
(* and whatever interrupts them, no entry and no handle records more bytes *)
(* than the clusters of its chain hold.                                    *)
THEOREM LengthsAreCovered == FileSpec => []LengthCovered
BY ExtentsInv, PTL DEF ExtentInv

(* Writes, truncations and removals, in sequences of these calls and       *)
(* however they are interrupted, keep the chains disjoint, each with one   *)
(* entry, in use and clean; they report no chain corrupt, leave the chains *)
(* of other files alone, and lose no cluster as long as none fails.  What  *)
(* a rename adds is in VolumeChains.                                       *)
THEOREM FilesKeepChains ==
  FileSpec => []ChainInv /\ []NeverCorrupt /\ OthersUntouched /\ []NoLeak
BY FilesInv, NeverReportsCorrupt, OthersAreUntouched, NothingLeaks, PTL

-----------------------------------------------------------------------------
(* The bytes of a file depend on the clusters of its chain, as far as the  *)
(* file takes them, and on what they hold.                                 *)
LEMMA ReadKept ==
  ASSUME NEW first, NEW n \in Nat,
         \A k \in Nat : k < Required(n) =>
           /\ ClusterOf(first, k)' = ClusterOf(first, k)
           /\ ClusterOf(first, k) # NoCluster =>
                data'[ClusterOf(first, k)] = data[ClusterOf(first, k)]
  PROVE  ReadFile(first, n)' = ReadFile(first, n)
<1> DEFINE Byte(i) == LET c == ClusterOf(first, (i - 1) \div ClusterSize)
                      IN  IF c = NoCluster THEN Stale ELSE data[c][(i - 1) % ClusterSize]
<1>1. ASSUME NEW i \in 1 .. n PROVE Byte(i)' = Byte(i)
  <2>1. PICK k \in Nat : k = (i - 1) \div ClusterSize /\ k < Required(n)
    <3>1. i \in Nat \ {0} /\ n \in Nat \ {0} /\ i <= n
      OBVIOUS
    <3>2. PICK k \in Nat, m \in Nat : /\ k = (i - 1) \div ClusterSize
                                     /\ m = (n - 1) \div ClusterSize
      BY <3>1, IndexOf
    <3>3. k <= m /\ m = Required(n) - 1
      BY <3>1, <3>2, IndexOf
    <3>4. Required(n) \in Int
      BY FileAssumption DEF Required
    <3> QED
      BY <3>2, <3>3, <3>4
  <2>2. PICK r : r = (i - 1) % ClusterSize
    OBVIOUS
  <2>3. PICK c : c = ClusterOf(first, k)
    OBVIOUS
  <2>4. ClusterOf(first, k)' = c /\ (c # NoCluster => data'[c] = data[c])
    BY <2>1, <2>3
  <2>5. Byte(i) = IF c = NoCluster THEN Stale ELSE data[c][r]
    BY <2>1, <2>2, <2>3
  <2>6. Byte(i)' = IF c = NoCluster THEN Stale ELSE data'[c][r]
    BY <2>1, <2>2, <2>4
  <2> HIDE DEF Byte
  <2> QED
    BY <2>4, <2>5, <2>6
<1>2. ReadFile(first, n) = [i \in 1 .. n |-> Byte(i)]
  BY DEF ReadFile
<1>3. ReadFile(first, n)' = [i \in 1 .. n |-> Byte(i)']
  BY DEF ReadFile
<1> HIDE DEF Byte
<1> QED
  BY <1>1, <1>2, <1>3

(* A file has as many bytes as its length says.                            *)
LEMMA ReadLength ==
  ASSUME NEW first, NEW n \in Nat
  PROVE  /\ Len(ReadFile(first, n)) = n
         /\ DOMAIN ReadFile(first, n) = 1 .. n
BY DEF ReadFile

(* The first bytes of a file are those of a shorter one on its chain.      *)
LEMMA ReadPrefix ==
  ASSUME NEW first, NEW n \in Nat, NEW m \in 0 .. n
  PROVE  /\ \A i \in 1 .. m : ReadFile(first, m)[i] = ReadFile(first, n)[i]
         /\ ReadFile(first, m) = SubSeq(ReadFile(first, n), 1, m)
<1>1. \A i \in 1 .. m : ReadFile(first, m)[i] = ReadFile(first, n)[i]
  BY DEF ReadFile
<1>2. DOMAIN ReadFile(first, m) = 1 .. m
  BY ReadLength
<1>3. PICK s : s = ReadFile(first, n)
  OBVIOUS
<1>4. PICK t : t = SubSeq(s, 1, m)
  OBVIOUS
<1>5. DOMAIN t = 1 .. m /\ \A i \in 1 .. m : t[i] = s[i]
  <2> DEFINE S == {s[i] : i \in 1 .. m}
  <2>1. \A i \in 1 .. m : s[i] \in S
    OBVIOUS
  <2>2. /\ t \in Seq(S) /\ Len(t) = (IF 1 <= m THEN m - 1 + 1 ELSE 0)
        /\ \A i \in 1 .. m - 1 + 1 : t[i] = s[1 + i - 1]
    <3> HIDE DEF S
    <3> QED
      BY <1>4, <2>1, SubSeqProperties
  <2>3. Len(t) = m /\ m - 1 + 1 = m /\ \A i \in 1 .. m : 1 + i - 1 = i
    BY <2>2
  <2> HIDE DEF S
  <2> QED
    BY <2>2, <2>3
<1>6. PICK u : u = ReadFile(first, m)
  OBVIOUS
<1>7. u = t
  <2>1. DOMAIN u = 1 .. m /\ \A i \in 1 .. m : u[i] = s[i]
    BY <1>1, <1>2, <1>3, <1>6
  <2>2. u = [i \in 1 .. m |-> u[i]]
    BY <1>6, <2>1 DEF ReadFile
  <2>3. t = [i \in 1 .. m |-> t[i]]
    BY <1>4, <1>5
  <2> QED
    BY <1>5, <2>1, <2>2, <2>3
<1> QED
  BY <1>1, <1>3, <1>4, <1>6, <1>7

-----------------------------------------------------------------------------
(* What division and remainder say of a number.                            *)
LEMMA DivideAndRemain ==
  ASSUME NEW s \in Nat, s > 0, NEW n \in Nat, NEW q \in Nat, q = n \div s,
         NEW r \in Nat, r = n % s
  PROVE  n = s * q + r
OBVIOUS

(* A byte is known by its cluster's index and its place in the cluster.    *)
LEMMA PlaceOfByte ==
  ASSUME NEW n \in Nat
  PROVE  /\ n \div ClusterSize \in Nat
         /\ n % ClusterSize \in 0 .. ClusterSize - 1
         /\ \A m \in Nat :
              m \div ClusterSize = n \div ClusterSize /\ m % ClusterSize = n % ClusterSize
              => m = n
<1>0. PICK s \in Nat : s = ClusterSize /\ s > 0
  BY FileAssumption
<1>1. \A m \in Nat : \E q \in Nat, r \in 0 .. s - 1 :
        q = m \div s /\ r = m % s /\ m = s * q + r
  <2> TAKE m \in Nat
  <2>1. PICK q \in Nat : q = m \div s
    BY <1>0
  <2>2. PICK r \in 0 .. s - 1 : r = m % s
    BY <1>0
  <2>3. r \in Nat
    BY <1>0, <2>2
  <2>4. m = s * q + r
    BY <1>0, <2>1, <2>2, <2>3, DivideAndRemain
  <2> QED
    BY <2>1, <2>2, <2>4
<1>2. ASSUME NEW m \in Nat, m \div s = n \div s, m % s = n % s PROVE m = n
  <2>1. PICK q \in Nat, r \in 0 .. s - 1 : q = m \div s /\ r = m % s /\ m = s * q + r
    BY <1>1
  <2>2. PICK t \in Nat, u \in 0 .. s - 1 : t = n \div s /\ u = n % s /\ n = s * t + u
    BY <1>1
  <2>3. q = t /\ r = u
    BY <1>2, <2>1, <2>2
  <2> QED
    BY <2>1, <2>2, <2>3
<1>3. PICK q \in Nat, r \in 0 .. s - 1 : q = n \div s /\ r = n % s
  BY <1>1
<1> QED
  BY <1>0, <1>2, <1>3

(* A byte that is written through a handle shows in every file on its      *)
(* chain that is long enough, at its position and nowhere else; files on   *)
(* other chains show what they showed.                                     *)
LEMMA PutByteShows ==
  ASSUME BytesOK, ChainInv, NEW f \in Owners, NEW h, h = held[f], NEW p \in Nat, NEW b,
         PutByte(f, p, b), fat' = fat, Holds(h, p + 1)
  PROVE  /\ \A n \in Nat : Holds(h, n) =>
              \A i \in 1 .. n :
                ReadFile(h, n)'[i] = IF i = p + 1 THEN b ELSE ReadFile(h, n)[i]
         /\ \A first \in Clusters \cup {NoCluster}, n \in Nat :
              first # h /\ (first # NoCluster => ~ HasPredecessor(first)) =>
                ReadFile(first, n)' = ReadFile(first, n)
<1>t. /\ fat \in [Clusters -> FatEntries]
      /\ h \in Clusters \cup {NoCluster}
  BY DEF ChainInv, WalkInv, ChainTypeOK
<1>1. PICK k \in Nat, r \in 0 .. ClusterSize - 1 :
        k = p \div ClusterSize /\ r = p % ClusterSize
  BY PlaceOfByte
<1>2. PICK c : c = ClusterOf(h, k)
  OBVIOUS
<1>3. c # NoCluster
  <2>1. (p + 1) - 1 = p /\ p + 1 > 0
    OBVIOUS
  <2> QED
    BY <1>1, <1>2, <2>1 DEF Holds
<1>4. c \in Clusters /\ c \in Reach({h})
  BY <1>t, <1>2, <1>3, PositionReached
<1>5. data' = [data EXCEPT ![c] = [data[c] EXCEPT ![r] = b]]
  BY <1>1, <1>2 DEF PutByte
<1>6. /\ \A d : d # c => data'[d] = data[d]
      /\ data'[c][r] = b
      /\ \A s \in 0 .. ClusterSize - 1 : s # r => data'[c][s] = data[c][s]
  <2>1. data \in [Clusters -> [0 .. ClusterSize - 1 -> Values \cup {Zero, Stale}]]
    BY DEF BytesOK
  <2>2. DOMAIN data[c] = 0 .. ClusterSize - 1
    BY <1>4, <2>1
  <2> QED
    BY <1>4, <1>5, <2>1, <2>2
<1>7. h # NoCluster /\ ~ HasPredecessor(h)
  <2>1. h # NoCluster
    BY <1>2, <1>3, PositionOfNone
  <2> QED
    BY <1>t, <2>1 DEF ChainInv, HeadsAreHeads, Referenced
<1>8. \A n \in Nat : \A first : ClusterOf(first, n)' = ClusterOf(first, n)
  BY ClusterOfSame
<1>9. ASSUME NEW n \in Nat, Holds(h, n), NEW i \in 1 .. n
      PROVE  ReadFile(h, n)'[i] = IF i = p + 1 THEN b ELSE ReadFile(h, n)[i]
  <2>1. i - 1 \in Nat /\ (i = p + 1 <=> i - 1 = p) /\ i <= n /\ i \in Nat
    OBVIOUS
  <2>2. PICK j \in Nat, s \in 0 .. ClusterSize - 1 :
          j = (i - 1) \div ClusterSize /\ s = (i - 1) % ClusterSize
    BY <2>1, PlaceOfByte
  <2>3. PICK d : d = ClusterOf(h, j)
    OBVIOUS
  <2>4. d # NoCluster
    <3>1. Holds(h, i)
      BY <1>9, <2>1, HoldsLess
    <3> QED
      BY <2>2, <2>3, <3>1 DEF Holds
  <2>5. ReadFile(h, n)[i] = data[d][s] /\ ReadFile(h, n)'[i] = data'[d][s]
    <3>1. ClusterOf(h, j)' = d
      BY <1>8, <2>3
    <3> QED
      BY <2>2, <2>3, <2>4, <3>1 DEF ReadFile
  <2>6. CASE i = p + 1
    BY <1>1, <1>2, <1>6, <2>1, <2>2, <2>3, <2>5, <2>6
  <2>7. CASE i # p + 1 /\ j = k
    <3>1. s # r
      BY <1>1, <2>1, <2>2, <2>7, PlaceOfByte
    <3> QED
      BY <1>2, <1>6, <2>3, <2>5, <2>7, <3>1
  <2>8. CASE j # k
    <3>1. d # c
      <4>1. j < k \/ k < j
        BY <2>8
      <4> QED
        BY <1>2, <1>3, <1>7, <1>t, <2>3, <2>4, <4>1, PositionsDiffer
    <3>2. i # p + 1
      BY <1>1, <2>1, <2>2, <2>8
    <3> QED
      BY <1>6, <2>5, <3>1, <3>2
  <2> QED
    BY <2>6, <2>7, <2>8
<1>10. ASSUME NEW first \in Clusters \cup {NoCluster}, NEW n \in Nat, first # h,
              first # NoCluster => ~ HasPredecessor(first)
       PROVE  ReadFile(first, n)' = ReadFile(first, n)
  <2>1. ASSUME NEW k_1 \in Nat, ClusterOf(first, k_1) # NoCluster
        PROVE  ClusterOf(first, k_1) # c
    <3>1. first # NoCluster
      BY <2>1, PositionOfNone
    <3>2. Reach({h}) \cap Reach({first}) = {}
      BY <1>t, <1>7, <1>10, <3>1, ChainsApart
    <3>3. ClusterOf(first, k_1) \in Reach({first})
      BY <1>t, <2>1, PositionReached
    <3> QED
      BY <1>4, <3>2, <3>3
  <2> QED
    BY <1>6, <1>8, <2>1, ReadKept
<1> QED
  BY <1>9, <1>10

-----------------------------------------------------------------------------
(* The files there are, through entries and handles; and the steps that    *)
(* leave what they show alone.                                             *)
IsFile(first, n) ==
  \E o \in Owners : \/ first = entryFirst[o] /\ n = dlen[o]
                    \/ first = held[o] /\ n = hlen[o]
Steady ==
  \A first \in Clusters \cup {NoCluster}, n \in Nat :
    IsFile(first, n) => ReadFile(first, n)' = ReadFile(first, n)

(* Nothing leads to the first cluster of a file, and its chain holds it.   *)
LEMMA FileFacts ==
  ASSUME ChainInv, LengthCovered, NEW first, NEW n, IsFile(first, n)
  PROVE  /\ Holds(first, n)
         /\ first # NoCluster => ~ HasPredecessor(first)
         /\ \A c : ~ Referenced(c) => first # c
<1>1. first # NoCluster => first \in Clusters /\ Referenced(first)
  BY DEF IsFile, Referenced, ChainInv, WalkInv, ChainTypeOK
<1>2. first # NoCluster => ~ HasPredecessor(first)
  BY <1>1 DEF ChainInv, HeadsAreHeads
<1>3. \A c : ~ Referenced(c) => first # c
  BY DEF IsFile, Referenced
<1> QED
  BY <1>2, <1>3 DEF IsFile, LengthCovered

(* Where no link and no byte changes, nothing does.                        *)
LEMMA SteadyUnchanged ==
  ASSUME fat' = fat, data' = data
  PROVE  \A n \in Nat : \A first : ReadFile(first, n)' = ReadFile(first, n)
<1> TAKE n \in Nat
<1> TAKE first
<1>1. \A k \in Nat : ClusterOf(first, k)' = ClusterOf(first, k)
  BY ClusterOfSame
<1> QED
  BY <1>1, ReadKept

(* A cluster that nothing leads to is on the chain of no file.             *)
LEMMA OffFiles ==
  ASSUME ChainInv, LengthCovered, NEW first \in Clusters \cup {NoCluster}, NEW n \in Nat,
         IsFile(first, n), NEW c, ~ HasPredecessor(c), ~ Referenced(c)
  PROVE  \A k \in Nat : ClusterOf(first, k) # NoCluster => ClusterOf(first, k) # c
<1> DEFINE S == Clusters \ {c}
<1>t. fat \in [Clusters -> FatEntries]
  BY DEF ChainInv, WalkInv, ChainTypeOK
<1>1. Closed(S) /\ {first} \cap Clusters \subseteq S
  BY FileFacts DEF Closed, IsLink, HasPredecessor
<1>2. Reach({first}) \subseteq S
  BY <1>1, ReachLeast
<1> QED
  BY <1>t, <1>2, PositionReached

(* Nor is anything changed by the allocation of clusters: they were free,  *)
(* and a cluster is cleared before it is linked.                           *)
LEMMA SteadyExtend ==
  ASSUME ChainInv, LengthCovered, Extend
  PROVE  Steady
<1> SUFFICES ASSUME NEW first \in Clusters \cup {NoCluster}, NEW n \in Nat, IsFile(first, n)
             PROVE  ReadFile(first, n)' = ReadFile(first, n)
  BY DEF Steady
<1>t. fat \in [Clusters -> FatEntries]
  BY DEF ChainInv, WalkInv, ChainTypeOK
<1>1. ChainTailAndLength \/ MarkAllocated \/ AllocationRefused \/ ClearCluster \/ LinkCluster
  BY DEF Extend
<1>2. \A c \in Clusters : IsLink(fat[c]) => fat'[c] = fat[c]
  BY <1>1, ExtendKeepsChains
<1>3. \A k \in Nat : ClusterOf(first, k) # NoCluster =>
        data'[ClusterOf(first, k)] = data[ClusterOf(first, k)]
  <2>1. CASE ClearCluster
    <3>1. /\ pc = "clear" /\ ~ HasPredecessor(cur) /\ ~ Referenced(cur)
      BY <2>1 DEF ClearCluster, ChainInv, CallInv
    <3>2. \A c : c # cur => data'[c] = data[c]
      <4>1. data' = [data EXCEPT ![cur] = [i \in DOMAIN data[cur] |-> Zero]]
        BY <2>1 DEF Extend, ClearCluster, ChainTailAndLength, MarkAllocated, AllocationRefused,
                    LinkCluster
      <4> QED
        BY <4>1
    <3> QED
      BY <3>1, <3>2, OffFiles
  <2>2. CASE ~ ClearCluster
    <3>1. data' = data
      BY <2>2 DEF Extend
    <3> QED
      BY <3>1
  <2> QED
    BY <2>1, <2>2
<1>4. Holds(first, n)
  BY FileFacts
<1>5. ASSUME NEW k \in Nat, k < Required(n) PROVE ClusterOf(first, k)' = ClusterOf(first, k)
  <2>1. n # 0
    BY <1>5, RequiredZero
  <2>2. PICK j \in Nat : j = (n - 1) \div ClusterSize /\ j = Required(n) - 1
    BY <2>1, IndexOf
  <2>3. k \in 0 .. j
    <3>1. Required(n) \in Int
      BY <2>1, FileAssumption DEF Required
    <3> QED
      BY <1>5, <2>2, <3>1
  <2>4. ClusterOf(first, j) # NoCluster
    BY <1>4, <2>1, <2>2 DEF Holds
  <2>5. ClusterOf(first, k) # NoCluster
    BY <2>3, <2>4, PositionBelow
  <2> QED
    BY <1>t, <1>2, <2>5, PositionKept
<1> QED
  BY <1>3, <1>5, ReadKept

(* What is freed belongs to no file any more.                              *)
LEMMA SteadyFree ==
  ASSUME ChainInv, LengthCovered, FreeChain, OldBytes(cur)
  PROVE  Steady
<1> SUFFICES ASSUME NEW first \in Clusters \cup {NoCluster}, NEW n \in Nat, IsFile(first, n)
             PROVE  ReadFile(first, n)' = ReadFile(first, n)
  BY DEF Steady
<1>t. fat \in [Clusters -> FatEntries]
  BY DEF ChainInv, WalkInv, ChainTypeOK
<1>1. ~ HasPredecessor(cur) /\ ~ Referenced(cur)
  BY DEF FreeChain, ChainInv, CallInv
<1>2. \A c \in Clusters : c # cur => fat'[c] = fat[c]
  BY <1>t DEF FreeChain, ReturnError, chainVars
<1>3. \A c : c # cur => data'[c] = data[c]
  BY DEF OldBytes
<1>4. \A k \in Nat : ClusterOf(first, k) # NoCluster => ClusterOf(first, k) # cur
  BY <1>1, OffFiles
<1>5. ASSUME NEW k \in Nat PROVE ClusterOf(first, k)' = ClusterOf(first, k)
  <2>1. \A j \in Nat : j < k /\ ClusterOf(first, j) # NoCluster =>
          fat'[ClusterOf(first, j)] = fat[ClusterOf(first, j)]
    BY <1>t, <1>2, <1>4, PositionReached
  <2> QED
    BY <1>t, <2>1, PositionAgrees
<1> QED
  BY <1>3, <1>4, <1>5, ReadKept

(* A cut leaves each file the clusters its bytes take.                     *)
LEMMA SteadyCut ==
  ASSUME FileInv, ChainInv, PathInv, RoutineInv, ExtentInv, phase = "shrink", CutChain, data' = data
  PROVE  Steady
<1> SUFFICES ASSUME NEW first \in Clusters \cup {NoCluster}, NEW n \in Nat, IsFile(first, n)
             PROVE  ReadFile(first, n)' = ReadFile(first, n)
  BY DEF Steady
<1>1. pc = "cut" /\ PlaceInv /\ LengthCovered
  BY DEF CutChain, ExtentInv
<1>2. /\ need = Required(hlen[owner]) /\ entryFirst[owner] = head /\ dlen[owner] = hlen[owner]
      /\ head = held[owner] /\ head # NoCluster /\ owner \in Owners
  <2>1. owner \in Owners
    BY <1>1 DEF FileInv, FileTypeOK, TypeOK, ChainTypeOK
  <2>2. need = Required(hlen[owner]) /\ entryFirst[owner] = head /\ dlen[owner] = hlen[owner]
    BY <1>1, Zenon DEF RoutineInv
  <2> QED
    BY <1>1, <2>1, <2>2 DEF PathInv
<1>3. first = head => Required(n) = need
  BY <1>2 DEF IsFile, ChainInv, HeadsAreHeads
<1>4. Holds(first, n) /\ (first # NoCluster => ~ HasPredecessor(first))
  BY <1>1, FileFacts
<1>5. \A k \in Nat : k < Required(n) => ClusterOf(first, k)' = ClusterOf(first, k)
  BY <1>1, <1>3, <1>4, CutKeepsPositions
<1> QED
  BY <1>5, ReadKept

(* Apart from write_zeros and write_file_data_at, no step of any call      *)
(* changes a byte of a file as its chain and length now stand.             *)
LEMMA SteadyStep ==
  ASSUME FileInv, ChainInv, PathInv, RoutineInv, ExtentInv, [FileNext]_fileVars,
         ~ WriteZeros, ~ WriteFileDataAt
  PROVE  Steady
<1> USE DEF vars, chainVars, byteVars
<1>0. LengthCovered
  BY DEF ExtentInv
<1>s. ASSUME fat' = fat, data' = data PROVE Steady
  BY <1>s, SteadyUnchanged DEF Steady
<1>1. CASE FileCall
  <2>1. ASSUME NEW o \in Owners, NEW at, NEW end, NEW value, WriteFileAt(o, at, end, value)
        PROVE  fat' = fat /\ data' = data
    BY <2>1 DEF WriteFileAt, EnsureChainLength
  <2>2. ASSUME NEW o \in Owners, TruncateSame(o) PROVE fat' = fat /\ data' = data
    BY <2>2 DEF TruncateSame
  <2>3. ASSUME NEW o \in Owners, NEW n, TruncateLonger(o, n) PROVE fat' = fat /\ data' = data
    BY <2>3 DEF TruncateLonger, EnsureChainLength
  <2>4. ASSUME NEW o \in Owners, NEW n, TruncateShorter(o, n) PROVE fat' = fat /\ data' = data
    BY <2>4 DEF TruncateShorter, BeginShrink
  <2>5. ASSUME NEW o \in Owners, RemoveFile(o) PROVE fat' = fat /\ data' = data
    BY <2>5 DEF RemoveFile, BeginRemove
  <2> QED
    BY <1>1, <1>s, <2>1, <2>2, <2>3, <2>4, <2>5 DEF FileCall
<1>2. CASE Extend
  BY <1>0, <1>2, SteadyExtend
<1>3. CASE Adopt \/ PersistFirst \/ PersistLength
  BY <1>3, <1>s DEF Adopt, AdoptChain, PersistFirst, PersistLength, PersistEntry, PersistFileInfo
<1>4. CASE PersistShorter \/ DeleteEntry
  BY <1>4, <1>s DEF PersistShorter, PersistShrink, DeleteEntry, DeleteFoundEntry
<1>5. CASE TruncateChain
  <2>1. CASE ClusterAt /\ data' = data
    BY <1>s, <2>1 DEF ClusterAt, ReturnError
  <2>2. CASE CutChain /\ data' = data
    <3>1. phase = "shrink"
      BY <1>5 DEF TruncateChain
    <3> QED
      BY <2>2, <3>1, SteadyCut
  <2>3. CASE FreeChain /\ OldBytes(cur)
    BY <1>0, <2>3, SteadyFree
  <2> QED
    BY <1>5, <2>1, <2>2, <2>3 DEF TruncateChain
<1>6. CASE FreeRemoved
  <2>1. FreeChain /\ OldBytes(cur)
    BY <1>6 DEF FreeRemoved
  <2> QED
    BY <1>0, <2>1, SteadyFree
<1>7. CASE Abort \/ RemountVolume
  BY <1>7, <1>s DEF Abort, CallAborted, ReturnError, RemountVolume, Remount
<1>8. CASE UNCHANGED fileVars
  BY <1>8, <1>s DEF fileVars
<1> QED
  BY <1>1, <1>2, <1>3, <1>4, <1>5, <1>6, <1>7, <1>8 DEF FileNext, FileStep

(* A handle that is given a chain and a length shows those bytes; so does  *)
(* an entry.                                                               *)
LEMMA Shows ==
  ASSUME NEW o, NEW first, NEW n
  PROVE  /\ held[o] = first /\ hlen[o] = n => HandleView(o) = ReadFile(first, n)
         /\ entryFirst[o] = first /\ dlen[o] = n => DiskView(o) = ReadFile(first, n)
         /\ held'[o] = first /\ hlen'[o] = n => HandleView(o)' = ReadFile(first, n)'
         /\ entryFirst'[o] = first /\ dlen'[o] = n => DiskView(o)' = ReadFile(first, n)'
BY DEF HandleView, DiskView

(* What the handle and the entry of a file show after such a step.         *)
LEMMA SteadyShows ==
  ASSUME FileInv, Steady, NEW o \in Owners
  PROVE  /\ held'[o] = held[o] /\ hlen'[o] = hlen[o] => HandleView(o)' = HandleView(o)
         /\ entryFirst'[o] = entryFirst[o] /\ dlen'[o] = dlen[o] => DiskView(o)' = DiskView(o)
         /\ entryFirst'[o] = held[o] /\ dlen'[o] = hlen[o] => DiskView(o)' = HandleView(o)
         /\ held'[o] = entryFirst[o] /\ hlen'[o] = dlen[o] => HandleView(o)' = DiskView(o)
<1>1. PICK e \in Clusters \cup {NoCluster}, h \in Clusters \cup {NoCluster},
           m \in Nat, n \in Nat : e = entryFirst[o] /\ h = held[o] /\ m = dlen[o] /\ n = hlen[o]
  <2>1. /\ entryFirst[o] \in Clusters \cup {NoCluster} /\ held[o] \in Clusters \cup {NoCluster}
        /\ dlen[o] \in 0 .. MaxLength /\ hlen[o] \in 0 .. MaxLength
    BY DEF FileInv, FileTypeOK, TypeOK, ChainTypeOK
  <2> QED
    BY <2>1, Lengths
<1>2. ReadFile(e, m)' = ReadFile(e, m) /\ ReadFile(h, n)' = ReadFile(h, n)
  <2>1. IsFile(e, m)
    BY <1>1, Zenon DEF IsFile
  <2>2. IsFile(h, n)
    BY <1>1, Zenon DEF IsFile
  <2> QED
    BY <2>1, <2>2 DEF Steady
<1>3. HandleView(o) = ReadFile(h, n) /\ DiskView(o) = ReadFile(e, m)
  BY <1>1, Shows
<1>4. held'[o] = h /\ hlen'[o] = n => HandleView(o)' = ReadFile(h, n)'
  BY Shows
<1>5. entryFirst'[o] = e /\ dlen'[o] = m => DiskView(o)' = ReadFile(e, m)'
  BY Shows
<1>6. entryFirst'[o] = h /\ dlen'[o] = n => DiskView(o)' = ReadFile(h, n)'
  BY Shows
<1>7. held'[o] = e /\ hlen'[o] = m => HandleView(o)' = ReadFile(e, m)'
  BY Shows
<1> QED
  BY <1>1, <1>2, <1>3, <1>4, <1>5, <1>6, <1>7

(* A file without bytes, and one of whose bytes only the first are left.   *)
LEMMA ShorterShows ==
  ASSUME FileInv, NEW o \in Owners
  PROVE  /\ hlen'[o] = 0 => HandleView(o)' = <<>>
         /\ dlen'[o] = 0 => DiskView(o)' = <<>>
         /\ fat' = fat /\ data' = data /\ held'[o] = held[o] /\ hlen'[o] \in 0 .. hlen[o] =>
              HandleView(o)' = SubSeq(HandleView(o), 1, hlen'[o])
<1>1. \A first : ReadFile(first, 0)' = <<>>
  BY DEF ReadFile
<1>2. hlen'[o] = 0 => HandleView(o)' = <<>>
  BY <1>1 DEF HandleView
<1>3. dlen'[o] = 0 => DiskView(o)' = <<>>
  BY <1>1 DEF DiskView
<1>4. ASSUME fat' = fat, data' = data, held'[o] = held[o], hlen'[o] \in 0 .. hlen[o]
      PROVE  HandleView(o)' = SubSeq(HandleView(o), 1, hlen'[o])
  <2>1. hlen[o] \in Nat
    BY Lengths DEF FileInv, FileTypeOK
  <2>2. PICK h, n : h = held[o] /\ n = hlen[o]
    OBVIOUS
  <2>3. PICK m : m = hlen'[o]
    OBVIOUS
  <2>4. n \in Nat /\ m \in 0 .. n /\ m \in Nat
    BY <1>4, <2>1, <2>2, <2>3
  <2>5. HandleView(o)' = ReadFile(h, m)'
    BY <1>4, <2>2, <2>3, Shows
  <2>6. ReadFile(h, m)' = ReadFile(h, m)
    BY <1>4, <2>4, SteadyUnchanged
  <2>7. ReadFile(h, m) = SubSeq(ReadFile(h, n), 1, m)
    BY <2>4, ReadPrefix
  <2>8. HandleView(o) = ReadFile(h, n)
    BY <2>2, Shows
  <2> QED
    BY <2>3, <2>5, <2>6, <2>7, <2>8
<1> QED
  BY <1>2, <1>3, <1>4

-----------------------------------------------------------------------------
(* A byte that write_zeros or write_file_data_at writes.                   *)
WritesByte(f, b) ==
  /\ phase \in {"fill", "data"} /\ f = call.file
  /\ b = IF done < call.at THEN Zero ELSE call.value
  /\ PutByte(f, done, b)
  /\ fat' = fat /\ entryFirst' = entryFirst /\ held' = held /\ dlen' = dlen
  /\ \A o \in Owners \ {f} : hlen'[o] = hlen[o]

(* The range of a call that writes.                                        *)
LEMMA RangeTypes ==
  ASSUME FileInv, phase \in {"fill", "data"}
  PROVE  /\ call.file \in Owners /\ call.at \in Nat /\ call.end \in 0 .. MaxLength
         /\ done \in Nat /\ done < call.end /\ call.at <= call.end
         /\ call.at < call.end => call.kind = "write"
         /\ call.at = call.end => call.kind = "truncate"
         /\ call.kind = "write" => call.at < call.end
         /\ phase = "fill" => done < call.at
         /\ phase = "data" => call.kind = "write"
         /\ 0 .. MaxLength \subseteq Nat
         /\ hlen \in [Owners -> Nat] /\ dlen \in [Owners -> Nat]
         /\ held \in [Owners -> Clusters \cup {NoCluster}]
         /\ entryFirst \in [Owners -> Clusters \cup {NoCluster}]
<1>1. 0 .. MaxLength \subseteq Nat
  BY Lengths
<1>2. CallTyped
  BY DEF FileInv, CallProgress
<1>3. /\ call.file \in Owners /\ call.at \in 0 .. MaxLength /\ call.end \in 0 .. MaxLength
      /\ call.kind \in {"write", "truncate"}
  BY <1>2 DEF CallTyped
<1>4. /\ hlen \in [Owners -> 0 .. MaxLength] /\ dlen \in [Owners -> 0 .. MaxLength]
      /\ done \in 0 .. MaxLength
      /\ held \in [Owners -> Clusters \cup {NoCluster}]
      /\ entryFirst \in [Owners -> Clusters \cup {NoCluster}]
  BY DEF FileInv, FileTypeOK, TypeOK, ChainTypeOK
<1>5. /\ IF call.kind = "write" THEN call.at < call.end ELSE call.at = call.end
      /\ phase = "fill" => done < call.at
      /\ phase = "data" => call.kind = "write" /\ done < call.end
  BY DEF FileInv, CallProgress
<1> QED
  BY <1>1, <1>3, <1>4, <1>5

(* What the files show after a byte is written, the written file up to any *)
(* length within the range of the call.                                    *)
LEMMA ByteShows ==
  ASSUME FileInv, ChainInv, ExtentInv, NEW f, NEW b, WritesByte(f, b),
         NEW h, h = held[f]
  PROVE  /\ \A o \in Owners \ {f} :
              HandleView(o)' = HandleView(o) /\ DiskView(o)' = DiskView(o)
         /\ \/ DiskView(f)' = DiskView(f)
            \/ /\ done + 1 <= Len(DiskView(f))
               /\ DiskView(f)' = [DiskView(f) EXCEPT ![done + 1] = b]
         /\ hlen'[f] = hlen[f] => HandleView(f)' = [HandleView(f) EXCEPT ![done + 1] = b]
         /\ \A n \in 0 .. call.end : \A i \in 1 .. n :
              ReadFile(h, n)'[i] = IF i = done + 1 THEN b ELSE ReadFile(h, n)[i]
<1>t. /\ f \in Owners /\ call.end \in Nat /\ done \in Nat /\ done < call.end
      /\ hlen \in [Owners -> Nat] /\ dlen \in [Owners -> Nat]
      /\ held \in [Owners -> Clusters \cup {NoCluster}]
      /\ entryFirst \in [Owners -> Clusters \cup {NoCluster}]
      /\ BytesOK
  BY RangeTypes DEF WritesByte, FileInv, FileTypeOK
<1>e. LengthCovered /\ Holds(h, call.end)
  BY DEF ExtentInv, CallCovered, WritesByte
<1>p. PICK p \in Nat : p = done
  BY <1>t
<1>1. Holds(h, p + 1)
  BY <1>e, <1>p, <1>t, HoldsLess
<1>2. PutByte(f, p, b) /\ fat' = fat
  BY <1>p DEF WritesByte
<1>3. /\ \A n \in Nat : Holds(h, n) =>
           \A i \in 1 .. n : ReadFile(h, n)'[i] = IF i = p + 1 THEN b ELSE ReadFile(h, n)[i]
      /\ \A first \in Clusters \cup {NoCluster}, n \in Nat :
           first # h /\ (first # NoCluster => ~ HasPredecessor(first)) =>
             ReadFile(first, n)' = ReadFile(first, n)
  BY <1>1, <1>2, <1>t, PutByteShows
<1>4. ASSUME NEW first \in Clusters \cup {NoCluster}, NEW n \in Nat, first # h,
             first # NoCluster => ~ HasPredecessor(first)
      PROVE  ReadFile(first, n)' = ReadFile(first, n)
  BY <1>3, <1>4
<1>5. h # NoCluster
  BY <1>e, <1>t, HoldsNothing
<1>6. ASSUME NEW n \in Nat, Holds(h, n)
      PROVE  ReadFile(h, n)' = [ReadFile(h, n) EXCEPT ![p + 1] = b]
  <2>1. PICK u : u = ReadFile(h, n)
    OBVIOUS
  <2>2. PICK v : v = ReadFile(h, n)'
    OBVIOUS
  <2>3. u = [i \in 1 .. n |-> u[i]]
    BY <2>1 DEF ReadFile
  <2>4. v = [i \in 1 .. n |-> v[i]]
    BY <2>2 DEF ReadFile
  <2>5. \A i \in 1 .. n : v[i] = IF i = p + 1 THEN b ELSE u[i]
    BY <1>3, <1>6, <2>1, <2>2
  <2>6. v = [u EXCEPT ![p + 1] = b]
    BY <2>3, <2>4, <2>5
  <2> QED
    BY <2>1, <2>2, <2>6
<1>7. ASSUME NEW o \in Owners \ {f}
      PROVE  HandleView(o)' = HandleView(o) /\ DiskView(o)' = DiskView(o)
  <2>1. PICK e \in Clusters \cup {NoCluster}, g \in Clusters \cup {NoCluster},
             m \in Nat, n \in Nat :
          e = entryFirst[o] /\ g = held[o] /\ m = dlen[o] /\ n = hlen[o]
    BY <1>t
  <2>2. e # h /\ g # h
    BY <1>5, <1>t, <2>1 DEF ChainInv, HeadsAreHeads
  <2>3. /\ e # NoCluster => ~ HasPredecessor(e)
        /\ g # NoCluster => ~ HasPredecessor(g)
    BY <2>1 DEF ChainInv, HeadsAreHeads, Referenced
  <2>4. ReadFile(e, m)' = ReadFile(e, m)
    BY <1>4, <2>2, <2>3
  <2>5. ReadFile(g, n)' = ReadFile(g, n)
    BY <1>4, <2>2, <2>3
  <2>6. e = entryFirst'[o] /\ g = held'[o] /\ m = dlen'[o] /\ n = hlen'[o]
    BY <2>1 DEF WritesByte
  <2>7. HandleView(o) = ReadFile(g, n) /\ DiskView(o) = ReadFile(e, m)
    BY <2>1, Shows
  <2>8. HandleView(o)' = ReadFile(g, n)' /\ DiskView(o)' = ReadFile(e, m)'
    BY <2>6, Shows
  <2> QED
    BY <2>4, <2>5, <2>7, <2>8
<1>8. \/ DiskView(f)' = DiskView(f)
      \/ p + 1 <= Len(DiskView(f)) /\ DiskView(f)' = [DiskView(f) EXCEPT ![p + 1] = b]
  <2>1. PICK e \in Clusters \cup {NoCluster}, m \in Nat : e = entryFirst[f] /\ m = dlen[f]
    BY <1>t
  <2>2. DiskView(f) = ReadFile(e, m)
    BY <2>1, Shows
  <2>3. DiskView(f)' = ReadFile(e, m)'
    <3>1. e = entryFirst'[f] /\ m = dlen'[f]
      BY <2>1 DEF WritesByte
    <3> QED
      BY <3>1, Shows
  <2>4. CASE e # h
    <3>1. e # NoCluster => ~ HasPredecessor(e)
      BY <1>t, <2>1 DEF ChainInv, HeadsAreHeads, Referenced
    <3>2. ReadFile(e, m)' = ReadFile(e, m)
      BY <1>4, <2>4, <3>1
    <3> QED
      BY <2>2, <2>3, <3>2
  <2>5. CASE e = h
    <3>1. Holds(h, m)
      BY <1>e, <1>t, <2>1, <2>5 DEF LengthCovered
    <3>2. ReadFile(h, m)' = [ReadFile(h, m) EXCEPT ![p + 1] = b]
      BY <1>6, <3>1
    <3>3. PICK u : u = ReadFile(h, m)
      OBVIOUS
    <3>4. Len(u) = m /\ u = [i \in 1 .. m |-> u[i]]
      BY <3>3, ReadLength DEF ReadFile
    <3>5. CASE p + 1 <= m
      BY <2>2, <2>3, <2>5, <3>2, <3>3, <3>4, <3>5
    <3>6. CASE ~ p + 1 <= m
      <4>1. [u EXCEPT ![p + 1] = b] = u
        BY <3>4, <3>6
      <4> QED
        BY <2>2, <2>3, <2>5, <3>2, <3>3, <4>1
    <3> QED
      BY <3>5, <3>6
  <2> QED
    BY <2>4, <2>5
<1>9. ASSUME hlen'[f] = hlen[f]
      PROVE  HandleView(f)' = [HandleView(f) EXCEPT ![p + 1] = b]
  <2>1. PICK n \in Nat : n = hlen[f]
    BY <1>t
  <2>2. Holds(h, n)
    BY <1>e, <1>t, <2>1 DEF LengthCovered
  <2>3. HandleView(f) = ReadFile(h, n)
    BY <2>1, Shows
  <2>4. HandleView(f)' = ReadFile(h, n)'
    <3>1. held'[f] = h /\ hlen'[f] = n
      BY <1>9, <2>1 DEF WritesByte
    <3> QED
      BY <3>1, Shows
  <2> QED
    BY <1>6, <2>2, <2>3, <2>4
<1>10. ASSUME NEW n \in 0 .. call.end, NEW i \in 1 .. n
       PROVE  ReadFile(h, n)'[i] = IF i = p + 1 THEN b ELSE ReadFile(h, n)[i]
  <2>1. n \in Nat /\ n <= call.end
    BY <1>t
  <2>2. Holds(h, n)
    BY <1>e, <1>t, <2>1, HoldsLess
  <2> QED
    BY <1>3, <2>1, <2>2
<1> QED
  BY <1>p, <1>7, <1>8, <1>9, <1>10

(* How far the bytes of the range are written, one byte later.             *)
LEMMA ByteWritten ==
  ASSUME FileInv, ChainInv, ExtentInv, WrittenInv, NEW f, NEW b, WritesByte(f, b),
         NEW h, h = held[f], NEW p \in Nat, p = done, NEW e, e = p + 1, NEW i \in 1 .. e
  PROVE  /\ hlen[f] < i /\ i <= call.at => ReadFile(h, e)'[i] = Zero
         /\ call.at < i => ReadFile(h, e)'[i] = call.value
<1>t. /\ f \in Owners /\ f = call.file /\ call.end \in Nat /\ done \in Nat /\ done < call.end
      /\ call.at \in Nat /\ hlen[f] \in Nat
  BY RangeTypes DEF WritesByte
<1>b. b = IF p < call.at THEN Zero ELSE call.value
  BY DEF WritesByte
<1>1. ReadFile(h, e)'[i] = IF i = p + 1 THEN b ELSE ReadFile(h, e)[i]
  <2>1. e \in 0 .. call.end /\ i \in 1 .. e
    BY <1>t
  <2> QED
    BY <2>1, ByteShows
<1>2. CASE i = p + 1
  BY <1>1, <1>2, <1>b, <1>t
<1>3. CASE i # p + 1
  <2>1. i \in 1 .. p
    BY <1>3
  <2>2. /\ hlen[f] < i /\ i <= call.at => ReadFile(h, p)[i] = Zero
        /\ call.at < i => ReadFile(h, p)[i] = call.value
    BY <1>t, <2>1 DEF WrittenInv, WritesByte
  <2>3. ReadFile(h, p)[i] = ReadFile(h, e)[i]
    <3>1. e \in Nat /\ p \in 0 .. e
      OBVIOUS
    <3> QED
      BY <2>1, <3>1, ReadPrefix
  <2> QED
    BY <1>1, <1>3, <2>2, <2>3
<1> QED
  BY <1>2, <1>3

(* The last byte of a call that makes the file longer.                     *)
LEMMA GrownShows ==
  ASSUME FileInv, ChainInv, ExtentInv, WrittenInv, NEW f, NEW b, WritesByte(f, b),
         done + 1 = call.end, hlen[f] < call.end, hlen'[f] = call.end
  PROVE  /\ HandleView(f)' = [i \in 1 .. call.end |->
              IF i <= hlen[f] THEN HandleView(f)[i]
              ELSE IF i <= call.at THEN Zero ELSE call.value]
         /\ \A i \in call.at + 1 .. hlen[f] : HandleView(f)[i] = call.value
<1>t. /\ f \in Owners /\ f = call.file /\ call.end \in Nat /\ done \in Nat
      /\ call.at \in Nat /\ hlen[f] \in Nat
  BY RangeTypes DEF WritesByte
<1>h. PICK h, n : h = held[f] /\ n = hlen[f]
  OBVIOUS
<1>e. PICK e \in Nat : e = call.end /\ e = done + 1
  BY <1>t
<1>n. n \in Nat /\ n < e /\ n \in 0 .. e /\ e \in 0 .. call.end /\ n \in 0 .. call.end
  BY <1>e, <1>h, <1>t
<1>1. HandleView(f) = ReadFile(h, n)
  BY <1>h, Shows
<1>2. HandleView(f)' = ReadFile(h, e)'
  <2>1. held'[f] = h /\ hlen'[f] = e
    BY <1>e, <1>h DEF WritesByte
  <2> QED
    BY <2>1, Shows
<1>3. ASSUME NEW i \in 1 .. n
      PROVE  ReadFile(h, e)'[i] = ReadFile(h, n)[i]
  <2>1. i \in 1 .. e /\ i # done + 1
    BY <1>e, <1>n
  <2>2. ReadFile(h, e)'[i] = ReadFile(h, e)[i]
    BY <1>h, <1>n, <2>1, ByteShows
  <2>3. ReadFile(h, n)[i] = ReadFile(h, e)[i]
    BY <1>n, ReadPrefix
  <2> QED
    BY <2>2, <2>3
<1>4. ASSUME NEW i \in 1 .. e, n < i
      PROVE  ReadFile(h, e)'[i] = IF i <= call.at THEN Zero ELSE call.value
  <2>1. PICK p \in Nat : p = done
    BY <1>t
  <2> QED
    BY <1>4, <1>e, <1>h, <1>n, <1>t, <2>1, ByteWritten
<1>5. PICK u : u = ReadFile(h, e)'
  OBVIOUS
<1>6. u = [i \in 1 .. e |-> u[i]]
  BY <1>5 DEF ReadFile
<1>7. PICK v : v = ReadFile(h, n)
  OBVIOUS
<1>8. \A i \in 1 .. e :
        u[i] = IF i <= n THEN v[i] ELSE IF i <= call.at THEN Zero ELSE call.value
  <2> TAKE i \in 1 .. e
  <2>1. i <= n => u[i] = v[i]
    BY <1>3, <1>5, <1>7, <1>n
  <2>2. ~ i <= n => u[i] = IF i <= call.at THEN Zero ELSE call.value
    BY <1>4, <1>5, <1>n
  <2> QED
    BY <2>1, <2>2
<1>9. u = [i \in 1 .. call.end |->
             IF i <= n THEN v[i] ELSE IF i <= call.at THEN Zero ELSE call.value]
  BY <1>6, <1>8, <1>e
<1>10. ASSUME NEW i \in call.at + 1 .. n PROVE v[i] = call.value
  <2>1. PICK d \in Nat : d = done
    BY <1>t
  <2>2. i \in 1 .. n /\ i \in 1 .. d /\ n \in 0 .. d /\ call.at < i
    BY <1>e, <1>n, <1>t, <2>1
  <2>3. ReadFile(h, d)[i] = call.value
    BY <1>h, <1>t, <2>1, <2>2 DEF WrittenInv, WritesByte
  <2>4. ReadFile(h, n)[i] = ReadFile(h, d)[i]
    BY <2>1, <2>2, ReadPrefix
  <2> QED
    BY <1>7, <2>3, <2>4
<1> QED
  BY <1>1, <1>2, <1>5, <1>7, <1>9, <1>10, <1>h

-----------------------------------------------------------------------------
(* What the files show after each kind of step.                            *)
AllFilesInv == ChainInv /\ PathInv /\ StoreInv

(* Calls that begin to write or to grow, that extend, cut and free chains, *)
(* or that end there, show what the files showed.                          *)
QuietStep ==
  \/ \E o \in Owners : \E at, end, value : WriteFileAt(o, at, end, value)
  \/ \E o \in Owners : TruncateSame(o) \/ \E n : TruncateLonger(o, n)
  \/ Extend \/ Adopt \/ TruncateChain \/ FreeRemoved \/ Abort \/ UNCHANGED fileVars

(* Such a step shows nothing, though a chain may be adopted or cut.        *)
LEMMA QuietShows ==
  ASSUME AllFilesInv, [FileNext]_fileVars, QuietStep, NEW o \in Owners
  PROVE  HandleView(o)' = HandleView(o) /\ DiskView(o)' = DiskView(o)
<1> USE DEF vars, chainVars, refVars, byteVars, ReturnError
<1>i. FileInv /\ ChainInv /\ PathInv /\ RoutineInv /\ ExtentInv
  BY DEF AllFilesInv, StoreInv
<1>s. Steady
  <2>1. CASE Abort \/ UNCHANGED fileVars
    <3>1. fat' = fat /\ data' = data
      BY <2>1 DEF Abort, CallAborted, fileVars
    <3> QED
      BY <3>1, SteadyUnchanged DEF Steady
  <2>2. CASE ~ (Abort \/ UNCHANGED fileVars)
    <3>1. phase \in {"idle", "extend", "shrink", "remove"}
      BY <2>2 DEF QuietStep, WriteFileAt, TruncateSame, TruncateLonger, Extend, Adopt,
                  TruncateChain, FreeRemoved
    <3>2. ~ WriteZeros /\ ~ WriteFileDataAt
      BY <3>1 DEF WriteZeros, WriteFileDataAt
    <3> QED
      BY <1>i, <3>2, SteadyStep
  <2> QED
    BY <2>1, <2>2
<1>1. CASE Adopt
  <2>1. /\ pc = "adopt" /\ phase = "extend" /\ entryFirst' = entryFirst
        /\ hlen' = hlen /\ dlen' = dlen /\ held' = [held EXCEPT ![owner] = head]
    BY <1>1 DEF Adopt, AdoptChain
  <2>2. DiskView(o)' = DiskView(o)
    BY <1>i, <1>s, <2>1, SteadyShows
  <2>3. held \in [Owners -> Clusters \cup {NoCluster}] /\ held[owner] \in {NoCluster, head}
    BY <1>i, <2>1 DEF PathInv, ChainInv, WalkInv, ChainTypeOK
  <2>4. CASE held'[o] = held[o]
    BY <1>i, <1>s, <2>1, <2>2, <2>4, SteadyShows
  <2>5. CASE held'[o] # held[o]
    <3>1. held[o] = NoCluster
      BY <2>1, <2>3, <2>5
    <3>2. hlen[o] = 0
      <4>1. Holds(held[o], hlen[o]) /\ hlen[o] \in Nat
        BY <1>i, Lengths DEF ExtentInv, LengthCovered, FileInv, FileTypeOK
      <4> QED
        BY <3>1, <4>1, HoldsNothing
    <3>3. HandleView(o) = <<>>
      BY <3>2 DEF HandleView, ReadFile
    <3>4. HandleView(o)' = <<>>
      BY <1>i, <2>1, <3>2, ShorterShows
    <3> QED
      BY <2>2, <3>3, <3>4
  <2> QED
    BY <2>4, <2>5
<1>2. ASSUME held' = held, hlen' = hlen, entryFirst' = entryFirst, dlen' = dlen
      PROVE  HandleView(o)' = HandleView(o) /\ DiskView(o)' = DiskView(o)
  BY <1>2, <1>i, <1>s, SteadyShows
<1>3. CASE Extend
  <2>1. ChainTailAndLength \/ MarkAllocated \/ AllocationRefused \/ ClearCluster \/ LinkCluster
    BY <1>3 DEF Extend
  <2> QED
    BY <1>2, <1>3, <1>i, <2>1, ExtendKeepsChains DEF Extend
<1>4. CASE TruncateChain \/ FreeRemoved
  BY <1>2, <1>4 DEF TruncateChain, FreeRemoved, ClusterAt, CutChain, FreeChain
<1>5. CASE Abort \/ UNCHANGED fileVars
  BY <1>2, <1>5 DEF Abort, CallAborted, fileVars
<1>6. CASE \E p \in Owners : \E at, end, value : WriteFileAt(p, at, end, value)
  BY <1>2, <1>6 DEF WriteFileAt, EnsureChainLength
<1>7. CASE \E p \in Owners : TruncateSame(p) \/ \E n : TruncateLonger(p, n)
  BY <1>2, <1>7 DEF TruncateSame, TruncateLonger, EnsureChainLength
<1> QED
  BY <1>1, <1>3, <1>4, <1>5, <1>6, <1>7 DEF QuietStep

(* A file is cut, or removed, in its handle first.                         *)
LEMMA ShrinkShows ==
  ASSUME AllFilesInv, [FileNext]_fileVars, NEW o \in Owners, NEW n \in 0 .. MaxLength,
         TruncateShorter(o, n) \/ (RemoveFile(o) /\ n = 0)
  PROVE  /\ HandleView(o)' = SubSeq(HandleView(o), 1, n)
         /\ Len(HandleView(o)) = hlen[o] /\ n \in 0 .. hlen[o]
         /\ \A p \in Owners \ {o} : HandleView(p)' = HandleView(p)
         /\ \A p \in Owners : DiskView(p)' = DiskView(p)
<1>i. FileInv /\ ChainInv /\ PathInv /\ RoutineInv /\ ExtentInv
  BY DEF AllFilesInv, StoreInv
<1>t. /\ hlen \in [Owners -> Nat]
      /\ held \in [Owners -> Clusters \cup {NoCluster}]
      /\ n \in Nat
  <2>1. hlen \in [Owners -> 0 .. MaxLength] /\ 0 .. MaxLength \subseteq Nat
    BY <1>i, Lengths DEF FileInv, FileTypeOK
  <2> QED
    BY <1>i, <2>1 DEF ChainInv, WalkInv, ChainTypeOK
<1>0. /\ fat' = fat /\ data' = data /\ entryFirst' = entryFirst /\ dlen' = dlen
      /\ hlen' = [hlen EXCEPT ![o] = n] /\ n \in 0 .. hlen[o]
      /\ \A p \in Owners \ {o} : held'[p] = held[p]
      /\ n = 0 \/ held'[o] = held[o]
  <2>1. CASE TruncateShorter(o, n)
    <3>1. Required(n) = 0 => n = 0
      BY <1>t, RequiredZero
    <3> QED
      BY <1>t, <2>1, <3>1 DEF TruncateShorter, BeginShrink, chainVars
  <2>2. CASE RemoveFile(o) /\ n = 0
    BY <1>t, <2>2 DEF RemoveFile, BeginRemove, chainVars
  <2> QED
    BY <2>1, <2>2
<1>s. Steady
  BY <1>0, SteadyUnchanged DEF Steady
<1>1. ASSUME NEW p \in Owners PROVE DiskView(p)' = DiskView(p)
  BY <1>0, <1>i, <1>s, SteadyShows
<1>2. ASSUME NEW p \in Owners \ {o} PROVE HandleView(p)' = HandleView(p)
  <2>1. held'[p] = held[p] /\ hlen'[p] = hlen[p]
    BY <1>0, <1>t
  <2> QED
    BY <1>i, <1>s, <2>1, SteadyShows
<1>3. HandleView(o)' = SubSeq(HandleView(o), 1, n)
  <2>1. hlen'[o] = n
    BY <1>0, <1>t
  <2>2. CASE n = 0
    <3>1. HandleView(o)' = <<>>
      BY <1>i, <2>1, <2>2, ShorterShows
    <3>2. SubSeq(HandleView(o), 1, 0) = <<>>
      BY SubSeqEmpty
    <3> QED
      BY <2>2, <3>1, <3>2
  <2>3. CASE n # 0
    BY <1>0, <1>i, <2>1, <2>3, ShorterShows
  <2> QED
    BY <2>2, <2>3
<1>4. Len(HandleView(o)) = hlen[o]
  BY <1>t, ReadLength DEF HandleView
<1> QED
  BY <1>0, <1>1, <1>2, <1>3, <1>4

(* persist_file_info, also for a file that is cut, and the deletion of an  *)
(* entry: the disk shows what the handle shows.                            *)
PersistStep(f) ==
  \/ f = call.file /\ (PersistFirst \/ PersistLength)
  \/ f = owner /\ (PersistShorter \/ DeleteEntry)

(* What such a step shows: the persisted file, and no other, on the disk.  *)
LEMMA PersistShows ==
  ASSUME AllFilesInv, NEW f, PersistStep(f)
  PROVE  /\ f \in Owners /\ f = call.file /\ call # NoOp
         /\ held' = held /\ hlen' = hlen
         /\ entryFirst'[f] = held[f] /\ dlen'[f] = hlen[f]
         /\ \A p \in Owners \ {f} : entryFirst'[p] = entryFirst[p] /\ dlen'[p] = dlen[p]
         /\ DiskView(f)' = HandleView(f)
         /\ \A p \in Owners \ {f} : DiskView(p)' = DiskView(p)
         /\ \A p \in Owners : HandleView(p)' = HandleView(p)
<1>i. FileInv /\ ChainInv /\ PathInv /\ RoutineInv /\ ExtentInv
  BY DEF AllFilesInv, StoreInv
<1>t. /\ entryFirst \in [Owners -> Clusters \cup {NoCluster}]
      /\ dlen \in [Owners -> 0 .. MaxLength]
  BY <1>i DEF FileInv, FileTypeOK, ChainInv, WalkInv, ChainTypeOK
<1>p. phase \in {"first", "final", "shrink", "remove"}
  BY DEF PersistStep, PersistFirst, PersistLength, PersistShorter, DeleteEntry
<1>f. f \in Owners /\ f = call.file /\ call # NoOp
  <2>1. call.file \in Owners /\ call # NoOp
    BY <1>i, <1>p DEF FileInv, FileTypeOK, CallProgress, CallTyped
  <2>2. PersistShorter \/ DeleteEntry => owner = call.file
    BY <1>i DEF PersistShorter, DeleteEntry, FileInv, CallProgress
  <2> QED
    BY <2>1, <2>2 DEF PersistStep
<1>1. /\ fat' = fat /\ data' = data /\ held' = held /\ hlen' = hlen
      /\ entryFirst' = [entryFirst EXCEPT ![f] = held[f]]
      /\ dlen' = [dlen EXCEPT ![f] = hlen[f]]
  <2>1. CASE PersistFirst \/ PersistLength
    <3>1. f = call.file
      BY <1>f
    <3>2. PersistEntry(f) /\ data' = data /\ hlen' = hlen
      BY <2>1, <3>1 DEF PersistFirst, PersistLength
    <3> QED
      BY <1>f, <1>t, <3>2 DEF PersistEntry, PersistFileInfo, vars, chainVars, refVars
  <2>2. CASE PersistShorter /\ f = owner
    BY <2>2 DEF PersistShorter, PersistShrink, chainVars
  <2>3. CASE DeleteEntry /\ f = owner
    <3>1. held[f] = NoCluster /\ hlen[f] = 0 /\ pc = "unlink"
      BY <1>i, <2>3 DEF DeleteEntry, DeleteFoundEntry, ChainInv, CallInv, RoutineInv
    <3> QED
      BY <2>3, <3>1 DEF DeleteEntry, DeleteFoundEntry, chainVars
  <2> QED
    BY <2>1, <2>2, <2>3 DEF PersistStep
<1>2. /\ entryFirst'[f] = held[f] /\ dlen'[f] = hlen[f]
      /\ \A p \in Owners \ {f} : entryFirst'[p] = entryFirst[p] /\ dlen'[p] = dlen[p]
  BY <1>1, <1>f, <1>t
<1>s. Steady
  BY <1>1, SteadyUnchanged DEF Steady
<1>3. DiskView(f)' = HandleView(f)
  BY <1>2, <1>f, <1>i, <1>s, SteadyShows
<1>4. ASSUME NEW p \in Owners \ {f} PROVE DiskView(p)' = DiskView(p)
  BY <1>2, <1>i, <1>s, SteadyShows
<1>5. ASSUME NEW p \in Owners PROVE HandleView(p)' = HandleView(p)
  BY <1>1, <1>i, <1>s, SteadyShows
<1> QED
  BY <1>1, <1>2, <1>3, <1>4, <1>5, <1>f

(* A remount shows what the entries show.                                  *)
LEMMA RemountShows ==
  ASSUME AllFilesInv, RemountVolume, NEW o \in Owners
  PROVE  HandleView(o)' = DiskView(o) /\ DiskView(o)' = DiskView(o)
<1>i. FileInv
  BY DEF AllFilesInv, StoreInv
<1>1. /\ fat' = fat /\ data' = data /\ entryFirst' = entryFirst /\ dlen' = dlen
      /\ held' = entryFirst /\ hlen' = dlen
  BY DEF RemountVolume, Remount, chainVars
<1>s. Steady
  BY <1>1, SteadyUnchanged DEF Steady
<1> QED
  BY <1>1, <1>i, <1>s, SteadyShows

-----------------------------------------------------------------------------
(* A byte is written in the file, on the disk, where the entry shows it.   *)
LEMMA OnDiskRefined ==
  ASSUME NEW f \in Owners, NEW i, NEW b,
         \A o \in Owners \ {f} : DiskView(o)' = DiskView(o),
         \/ DiskView(f)' = DiskView(f)
         \/ i <= Len(DiskView(f)) /\ DiskView(f)' = [DiskView(f) EXCEPT ![i] = b]
  PROVE  Store!OnDisk(f, i, b)
BY DEF Store!OnDisk

(* Steps that show nothing, in a call that goes on or returns.             *)
LEMMA QuietRefined ==
  ASSUME \A o \in Owners : HandleView(o)' = HandleView(o) /\ DiskView(o)' = DiskView(o),
         call' = call \/ (call # NoOp /\ call' = NoOp)
  PROVE  [Store!StoreNext]_(Store!storeVars)
BY DEF Store!StoreNext, Store!storeVars, Store!Return

(* A byte is written, and the call goes on: under the length in the        *)
(* handle it is a byte of the data, and past it it does not show yet.      *)
LEMMA ByteRefined ==
  ASSUME AllFilesInv, NEW f, NEW b, WritesByte(f, b), call' = call, hlen'[f] = hlen[f]
  PROVE  Store!Overwrite \/ Store!Prepare
<1>i. FileInv /\ ChainInv /\ ExtentInv /\ WrittenInv
  BY DEF AllFilesInv, StoreInv
<1>t. /\ f \in Owners /\ f = call.file /\ call.end \in Nat /\ done \in Nat /\ done < call.end
      /\ call.at \in Nat /\ hlen[f] \in Nat /\ call # NoOp
      /\ phase = "fill" => done < call.at
      /\ phase = "data" => call.kind = "write"
  BY <1>i, RangeTypes DEF WritesByte, FileInv, FileTypeOK
<1>w. /\ phase = "fill" => done >= hlen[f]
      /\ phase = "data" => done >= call.at
  BY <1>i, <1>t DEF WrittenInv
<1>b. b = IF done < call.at THEN Zero ELSE call.value
  BY DEF WritesByte
<1>p. phase \in {"fill", "data"}
  BY DEF WritesByte
<1>v. PICK v, i : v = HandleView(f) /\ i = done + 1
  OBVIOUS
<1>l. Len(v) = hlen[f] /\ DOMAIN v = 1 .. hlen[f]
  BY <1>t, <1>v, ReadLength DEF HandleView
<1>h. PICK h : h = held[f]
  OBVIOUS
<1>1. /\ \A o \in Owners \ {f} : HandleView(o)' = HandleView(o) /\ DiskView(o)' = DiskView(o)
      /\ \/ DiskView(f)' = DiskView(f)
         \/ i <= Len(DiskView(f)) /\ DiskView(f)' = [DiskView(f) EXCEPT ![i] = b]
      /\ HandleView(f)' = [v EXCEPT ![i] = b]
  BY <1>h, <1>i, <1>v, ByteShows
<1>2. Store!OnDisk(f, i, b)
  BY <1>1, <1>t, OnDiskRefined
<1>3. CASE done < hlen[f]
  <2>1. /\ b = call.value /\ i \in call.at + 1 .. call.end /\ i <= Len(v)
        /\ call.kind = "write"
    BY <1>3, <1>b, <1>l, <1>p, <1>t, <1>v, <1>w
  <2>2. [o \in Owners |-> HandleView(o)]' =
          [[o \in Owners |-> HandleView(o)] EXCEPT ![f] = [v EXCEPT ![i] = b]]
    BY <1>1, <1>t
  <2> QED
    BY <1>2, <1>t, <1>v, <2>1, <2>2 DEF Store!Overwrite
<1>4. CASE ~ done < hlen[f]
  <2>1. /\ b = IF i <= call.at THEN Zero ELSE call.value
        /\ i \in 1 .. call.end /\ i > Len(v)
    BY <1>4, <1>b, <1>l, <1>t, <1>v
  <2>2. [v EXCEPT ![i] = b] = v
    <3>1. i \notin DOMAIN v
      BY <1>l, <1>t, <2>1
    <3>2. v = [k \in 1 .. hlen[f] |-> v[k]]
      BY <1>v DEF HandleView, ReadFile
    <3> QED
      BY <3>1, <3>2
  <2>3. [o \in Owners |-> HandleView(o)]' = [o \in Owners |-> HandleView(o)]
    BY <1>1, <1>v, <2>2
  <2> QED
    BY <1>2, <1>t, <1>v, <2>1, <2>3 DEF Store!Prepare
<1> QED
  BY <1>3, <1>4

(* The last byte makes a file longer by the range of the call.             *)
LEMMA GrowRefined ==
  ASSUME AllFilesInv, NEW f, NEW b, WritesByte(f, b), call' = call,
         done + 1 = call.end, hlen[f] < call.end, hlen'[f] = call.end
  PROVE  Store!Grow
<1>i. FileInv /\ ChainInv /\ ExtentInv /\ WrittenInv
  BY DEF AllFilesInv, StoreInv
<1>t. /\ f \in Owners /\ f = call.file /\ call.end \in Nat /\ done \in Nat
      /\ call.at \in Nat /\ hlen[f] \in Nat /\ call # NoOp
      /\ call.at <= call.end
      /\ call.at < call.end => call.kind = "write"
      /\ call.at = call.end => call.kind = "truncate"
  BY <1>i, RangeTypes DEF WritesByte, FileInv, FileTypeOK
<1>b. b = IF call.kind = "write" THEN call.value ELSE Zero
  BY <1>t DEF WritesByte
<1>v. PICK v : v = HandleView(f)
  OBVIOUS
<1>l. Len(v) = hlen[f]
  BY <1>t, <1>v, ReadLength DEF HandleView
<1>h. PICK h : h = held[f]
  OBVIOUS
<1>1. /\ \A o \in Owners \ {f} : HandleView(o)' = HandleView(o) /\ DiskView(o)' = DiskView(o)
      /\ \/ DiskView(f)' = DiskView(f)
         \/ call.end <= Len(DiskView(f)) /\ DiskView(f)' = [DiskView(f) EXCEPT ![call.end] = b]
  BY <1>h, <1>i, ByteShows
<1>2. Store!OnDisk(f, call.end, b)
  BY <1>1, <1>t, OnDiskRefined
<1>3. PICK u : u = [i \in 1 .. call.end |->
                      IF i <= Len(v) THEN v[i] ELSE IF i <= call.at THEN Zero ELSE call.value]
  OBVIOUS
<1>4. HandleView(f)' = u /\ \A i \in call.at + 1 .. Len(v) : v[i] = call.value
  BY <1>3, <1>i, <1>l, <1>v, GrownShows
<1>5. [o \in Owners |-> HandleView(o)]' = [[o \in Owners |-> HandleView(o)] EXCEPT ![f] = u]
  BY <1>1, <1>4, <1>t
<1>6. [o \in Owners |-> HandleView(o)][f] = v
  BY <1>t, <1>v
<1> QED
  BY <1>2, <1>3, <1>4, <1>5, <1>6, <1>b, <1>l, <1>t DEF Store!Grow

(* The last byte of a write that stays within the file.                    *)
LEMMA LastRefined ==
  ASSUME AllFilesInv, NEW f, NEW b, WritesByte(f, b), call' = NoOp,
         phase = "data", done + 1 = call.end, call.end <= hlen[f], hlen'[f] = hlen[f]
  PROVE  Store!OverwriteAndReturn
<1>i. FileInv /\ ChainInv /\ ExtentInv /\ WrittenInv
  BY DEF AllFilesInv, StoreInv
<1>t. /\ f \in Owners /\ f = call.file /\ call.end \in Nat /\ done \in Nat
      /\ call.at \in Nat /\ hlen[f] \in Nat /\ call # NoOp /\ call.kind = "write"
  BY <1>i, RangeTypes DEF WritesByte, FileInv, FileTypeOK
<1>w. done >= call.at
  BY <1>i, <1>t DEF WrittenInv
<1>b. b = call.value
  BY <1>t, <1>w DEF WritesByte
<1>v. PICK v : v = HandleView(f)
  OBVIOUS
<1>l. Len(v) = hlen[f]
  BY <1>t, <1>v, ReadLength DEF HandleView
<1>h. PICK h : h = held[f]
  OBVIOUS
<1>1. /\ \A o \in Owners \ {f} : HandleView(o)' = HandleView(o) /\ DiskView(o)' = DiskView(o)
      /\ \/ DiskView(f)' = DiskView(f)
         \/ call.end <= Len(DiskView(f)) /\ DiskView(f)' = [DiskView(f) EXCEPT ![call.end] = b]
      /\ HandleView(f)' = [v EXCEPT ![call.end] = b]
  BY <1>h, <1>i, <1>v, ByteShows
<1>2. Store!OnDisk(f, call.end, b)
  BY <1>1, <1>t, OnDiskRefined
<1>3. [o \in Owners |-> HandleView(o)]' =
        [[o \in Owners |-> HandleView(o)] EXCEPT ![f] = [v EXCEPT ![call.end] = b]]
  BY <1>1, <1>t
<1> QED
  BY <1>2, <1>3, <1>b, <1>l, <1>t, <1>v DEF Store!OverwriteAndReturn

(* write_zeros and write_file_data_at write one byte of the call.          *)
LEMMA WritersWrite ==
  ASSUME AllFilesInv, NEW f, f = call.file
  PROVE  /\ WriteZeros => WritesByte(f, Zero) /\ done < call.at /\ phase = "fill"
         /\ WriteFileDataAt =>
              WritesByte(f, call.value) /\ call.at <= done /\ done < call.end /\ phase = "data"
<1>i. FileInv /\ WrittenInv
  BY DEF AllFilesInv, StoreInv
<1>1. ASSUME WriteZeros
      PROVE  WritesByte(f, Zero) /\ done < call.at /\ phase = "fill"
  <2>1. phase = "fill" /\ done < call.at
    BY <1>1, <1>i, RangeTypes DEF WriteZeros
  <2>2. hlen' = hlen \/ hlen' = [hlen EXCEPT ![f] = call.end]
    BY <1>1 DEF WriteZeros
  <2>3. \A o \in Owners \ {f} : hlen'[o] = hlen[o]
    BY <1>i, <2>1, <2>2, RangeTypes
  <2> QED
    BY <1>1, <2>1, <2>3 DEF WriteZeros, WritesByte, vars, chainVars, refVars
<1>2. ASSUME WriteFileDataAt
      PROVE  /\ WritesByte(f, call.value) /\ call.at <= done /\ done < call.end
             /\ phase = "data"
  <2>1. phase = "data" /\ done \in Nat /\ call.at \in Nat /\ done < call.end
    BY <1>2, <1>i, RangeTypes DEF WriteFileDataAt
  <2>2. call.at <= done
    BY <1>i, <2>1 DEF WrittenInv
  <2>3. hlen' = hlen \/ hlen' = [hlen EXCEPT ![f] = call.end]
    BY <1>2 DEF WriteFileDataAt
  <2>4. \A o \in Owners \ {f} : hlen'[o] = hlen[o]
    BY <1>i, <2>1, <2>3, RangeTypes
  <2>5. PutByte(f, done, call.value)
    BY <1>2 DEF WriteFileDataAt
  <2> QED
    BY <1>2, <2>1, <2>2, <2>4, <2>5 DEF WriteFileDataAt, WritesByte, vars, chainVars, refVars
<1> QED
  BY <1>1, <1>2

(* A file that shrinks, or is removed, is a truncation of FileStore.       *)
LEMMA ShrinkRefined ==
  ASSUME AllFilesInv, [FileNext]_fileVars, NEW o \in Owners, NEW n \in 0 .. MaxLength,
         TruncateShorter(o, n) \/ (RemoveFile(o) /\ n = 0)
  PROVE  Store!BeginTruncate(o, n)
<1>i. FileInv
  BY DEF AllFilesInv, StoreInv
<1>1. /\ HandleView(o)' = SubSeq(HandleView(o), 1, n)
      /\ Len(HandleView(o)) = hlen[o] /\ n \in 0 .. hlen[o]
      /\ \A p \in Owners \ {o} : HandleView(p)' = HandleView(p)
      /\ \A p \in Owners : DiskView(p)' = DiskView(p)
  BY ShrinkShows
<1>2. /\ call = NoOp
      /\ call' = [file |-> o, kind |-> "truncate", at |-> n, end |-> n, value |-> Zero]
  BY <1>i DEF TruncateShorter, RemoveFile, FileInv, FileTypeOK
<1>3. PICK v : v = HandleView(o)
  OBVIOUS
<1>4. n \in Nat /\ Len(v) \in Nat
  <2>1. hlen[o] \in Nat /\ n \in Nat
    BY <1>i, Lengths DEF FileInv, FileTypeOK
  <2> QED
    BY <1>1, <1>3, <2>1
<1>5. CASE n < Len(v)
  <2>1. [p \in Owners |-> HandleView(p)]' =
          [[p \in Owners |-> HandleView(p)] EXCEPT ![o] = SubSeq(v, 1, n)]
    BY <1>1, <1>3
  <2> QED
    BY <1>1, <1>2, <1>3, <1>5, <2>1 DEF Store!BeginTruncate, Store!Begin
<1>6. CASE ~ n < Len(v)
  <2>1. n = Len(v)
    BY <1>1, <1>3, <1>4, <1>6
  <2>2. SubSeq(v, 1, n) = v
    <3>1. PICK h, k : h = held[o] /\ k = hlen[o]
      OBVIOUS
    <3>2. v = ReadFile(h, k) /\ k = n /\ n \in 0 .. n
      BY <1>1, <1>3, <1>4, <2>1, <3>1 DEF HandleView
    <3>3. ReadFile(h, n) = SubSeq(ReadFile(h, n), 1, n)
      BY <1>4, <3>2, ReadPrefix
    <3> QED
      BY <3>2, <3>3
  <2>3. [p \in Owners |-> HandleView(p)]' = [p \in Owners |-> HandleView(p)]
    BY <1>1, <1>3, <2>2
  <2> QED
    BY <1>1, <1>2, <1>3, <1>6, <2>3 DEF Store!BeginTruncate, Store!Begin
<1> QED
  BY <1>5, <1>6

(* Every step of the calls is a step of FileStore, or shows nothing.       *)
LEMMA StepRefines ==
  ASSUME AllFilesInv, [FileNext]_fileVars
  PROVE  [Store!StoreNext]_(Store!storeVars)
<1>i. FileInv /\ RoutineInv
  BY DEF AllFilesInv, StoreInv
<1>n. phase # "idle" => call # NoOp /\ call.file \in Owners
  BY <1>i DEF FileInv, FileTypeOK, CallProgress, CallTyped
<1>z. phase = "idle" => call = NoOp
  BY <1>i DEF FileInv, FileTypeOK
<1>q. QuietStep => \A o \in Owners : HandleView(o)' = HandleView(o) /\ DiskView(o)' = DiskView(o)
  BY QuietShows
<1>1. ASSUME NEW o \in Owners, NEW at \in 0 .. MaxLength - 1, NEW end \in 1 .. MaxLength,
             NEW value \in Values, at < end, WriteFileAt(o, at, end, value)
      PROVE  Store!StoreNext
  <2>1. \A p \in Owners : HandleView(p)' = HandleView(p) /\ DiskView(p)' = DiskView(p)
    BY <1>1, <1>q DEF QuietStep
  <2>2. /\ call = NoOp
        /\ call' = [file |-> o, kind |-> "write", at |-> at, end |-> end, value |-> value]
    BY <1>1, <1>z DEF WriteFileAt
  <2>3. Store!BeginWrite(o, at, end, value)
    BY <1>1, <2>1, <2>2 DEF Store!BeginWrite, Store!Begin
  <2>4. at \in 0 .. MaxLength /\ end \in 0 .. MaxLength
    BY Lengths
  <2> QED
    BY <2>3, <2>4 DEF Store!StoreNext
<1>2. ASSUME NEW o \in Owners, TruncateSame(o)
      PROVE  [Store!StoreNext]_(Store!storeVars)
  <2>1. \A p \in Owners : HandleView(p)' = HandleView(p) /\ DiskView(p)' = DiskView(p)
    BY <1>2, <1>q DEF QuietStep
  <2>2. call' = call
    BY <1>2 DEF TruncateSame, opVars
  <2> QED
    BY <2>1, <2>2, QuietRefined
<1>3. ASSUME NEW o \in Owners, NEW n \in 0 .. MaxLength, TruncateLonger(o, n)
      PROVE  Store!StoreNext
  <2>1. \A p \in Owners : HandleView(p)' = HandleView(p) /\ DiskView(p)' = DiskView(p)
    BY <1>3, <1>q DEF QuietStep
  <2>2. /\ call = NoOp
        /\ call' = [file |-> o, kind |-> "truncate", at |-> n, end |-> n, value |-> Zero]
    BY <1>3, <1>z DEF TruncateLonger
  <2>3. ~ n < Len(HandleView(o))
    <3>1. hlen[o] \in Nat /\ n \in Nat
      BY <1>i, Lengths DEF FileInv, FileTypeOK
    <3>2. Len(HandleView(o)) = hlen[o]
      BY <3>1, ReadLength DEF HandleView
    <3> QED
      BY <1>3, <3>1, <3>2 DEF TruncateLonger
  <2>4. Store!BeginTruncate(o, n)
    BY <2>1, <2>2, <2>3 DEF Store!BeginTruncate, Store!Begin
  <2> QED
    BY <2>4 DEF Store!StoreNext
<1>4. ASSUME NEW o \in Owners, NEW n \in 0 .. MaxLength, TruncateShorter(o, n)
      PROVE  Store!StoreNext
  BY <1>4, ShrinkRefined DEF Store!StoreNext
<1>5. ASSUME NEW o \in Owners, RemoveFile(o)
      PROVE  Store!StoreNext
  <2>1. 0 \in 0 .. MaxLength
    BY Lengths
  <2>2. Store!BeginTruncate(o, 0)
    BY <1>5, <2>1, ShrinkRefined
  <2> QED
    BY <2>1, <2>2 DEF Store!StoreNext
<1>6. CASE Extend \/ Adopt \/ TruncateChain \/ FreeRemoved \/ Abort
  <2>1. \A p \in Owners : HandleView(p)' = HandleView(p) /\ DiskView(p)' = DiskView(p)
    BY <1>6, <1>q DEF QuietStep
  <2>2. phase # "idle"
    BY <1>6 DEF Extend, Adopt, TruncateChain, FreeRemoved, Abort
  <2>3. call' = call \/ call' = NoOp
    BY <1>6 DEF Extend, Adopt, Fill, TruncateChain, FreeRemoved, Abort, Interrupted, ReturnOk, opVars
  <2> QED
    BY <1>n, <2>1, <2>2, <2>3, QuietRefined
<1>7. CASE PersistFirst \/ PersistLength \/ PersistShorter \/ DeleteEntry
  <2>1. PICK f : PersistStep(f)
    BY <1>7 DEF PersistStep
  <2>2. /\ f \in Owners /\ f = call.file /\ call # NoOp
        /\ DiskView(f)' = HandleView(f)
        /\ \A p \in Owners \ {f} : DiskView(p)' = DiskView(p)
        /\ \A p \in Owners : HandleView(p)' = HandleView(p)
    BY <2>1, PersistShows
  <2>3. call' \in {call, NoOp}
    BY <1>7 DEF PersistFirst, Fill, PersistLength, PersistShorter, DeleteEntry, ReturnOk, opVars
  <2>4. [o \in Owners |-> DiskView(o)]' =
          [[o \in Owners |-> DiskView(o)] EXCEPT ![f] = HandleView(f)]
    BY <2>2
  <2>5. Store!Persist
    BY <2>2, <2>3, <2>4 DEF Store!Persist
  <2> QED
    BY <2>5 DEF Store!StoreNext
<1>8. CASE WriteZeros
  <2>1. PICK f : f = call.file
    OBVIOUS
  <2>2. WritesByte(f, Zero) /\ done < call.at /\ phase = "fill"
    BY <1>8, <2>1, WritersWrite
  <2>3. /\ f \in Owners /\ done \in Nat /\ call.at \in Nat /\ hlen \in [Owners -> Nat]
        /\ call.kind # "write" => call.at = call.end
    BY <1>i, <2>1, <2>2, RangeTypes
  <2>4. call' = call
    BY <1>8 DEF WriteZeros
  <2>5. CASE hlen' = hlen
    BY <2>2, <2>4, <2>5, ByteRefined DEF Store!StoreNext
  <2>6. CASE hlen' # hlen
    <3>1. /\ ~ done + 1 < call.at /\ call.kind # "write"
          /\ hlen' = [hlen EXCEPT ![f] = call.end]
      BY <1>8, <2>1, <2>6 DEF WriteZeros
    <3>2. done + 1 = call.end /\ hlen'[f] = call.end
      BY <2>2, <2>3, <3>1
    <3>3. hlen[f] < call.end
      <4>1. hlen[f] <= done
        BY <2>1, <2>2, <2>3 DEF AllFilesInv, StoreInv, WrittenInv
      <4> QED
        BY <2>3, <3>2, <4>1
    <3> QED
      BY <2>2, <2>4, <3>2, <3>3, GrowRefined DEF Store!StoreNext
  <2> QED
    BY <2>5, <2>6
<1>9. CASE WriteFileDataAt
  <2>1. PICK f : f = call.file
    OBVIOUS
  <2>2. WritesByte(f, call.value) /\ call.at <= done /\ done < call.end /\ phase = "data"
    BY <1>9, <2>1, WritersWrite
  <2>3. /\ f \in Owners /\ done \in Nat /\ call.end \in Nat /\ hlen \in [Owners -> Nat]
    BY <1>i, <2>1, <2>2, Lengths, RangeTypes
  <2>4. CASE done + 1 < call.end
    <3>1. call' = call /\ hlen' = hlen
      BY <1>9, <2>4 DEF WriteFileDataAt
    <3> QED
      BY <2>2, <3>1, ByteRefined DEF Store!StoreNext
  <2>5. CASE ~ done + 1 < call.end /\ call.end > hlen[f]
    <3>1. call' = call /\ hlen' = [hlen EXCEPT ![f] = call.end]
      BY <1>9, <2>1, <2>5 DEF WriteFileDataAt
    <3>2. done + 1 = call.end /\ hlen'[f] = call.end /\ hlen[f] < call.end
      BY <2>2, <2>3, <2>5, <3>1
    <3> QED
      BY <2>2, <3>1, <3>2, GrowRefined DEF Store!StoreNext
  <2>6. CASE ~ done + 1 < call.end /\ ~ call.end > hlen[f]
    <3>1. call' = NoOp /\ hlen' = hlen
      BY <1>9, <2>1, <2>6 DEF WriteFileDataAt, ReturnOk
    <3>2. done + 1 = call.end /\ call.end <= hlen[f]
      BY <2>2, <2>3, <2>6
    <3> QED
      BY <2>2, <3>1, <3>2, LastRefined DEF Store!StoreNext
  <2> QED
    BY <2>4, <2>5, <2>6
<1>10. CASE RemountVolume
  <2>1. \A o \in Owners : HandleView(o)' = DiskView(o) /\ DiskView(o)' = DiskView(o)
    BY <1>10, RemountShows
  <2>2. call' = NoOp
    BY <1>10 DEF RemountVolume, Interrupted
  <2>3. Store!Remount
    BY <2>1, <2>2 DEF Store!Remount
  <2> QED
    BY <2>3 DEF Store!StoreNext
<1>11. CASE UNCHANGED fileVars
  <2>1. \A p \in Owners : HandleView(p)' = HandleView(p) /\ DiskView(p)' = DiskView(p)
    BY <1>11, <1>q DEF QuietStep
  <2>2. call' = call
    BY <1>11 DEF fileVars, opVars
  <2> QED
    BY <2>1, <2>2, QuietRefined
<1> QED
  BY <1>1, <1>2, <1>3, <1>4, <1>5, <1>6, <1>7, <1>8, <1>9, <1>10, <1>11
     DEF FileNext, FileCall, FileStep

-----------------------------------------------------------------------------
(* A call that begins to write has nothing behind it but the file itself.  *)
LEMMA FillBegins ==
  ASSUME FileInv, Fill(call.file), hlen' = hlen, phase \in {"extend", "first"}
  PROVE  WrittenInv'
<1>t. /\ call.file \in Owners /\ call.at \in Nat /\ hlen[call.file] \in Nat
  BY Lengths DEF FileInv, FileTypeOK, CallProgress, CallTyped
<1>1. call' = call /\ hlen'[call.file] = hlen[call.file]
  BY DEF Fill
<1>2. \/ phase' = "fill" /\ done' = hlen[call.file] /\ call.at > hlen[call.file]
      \/ phase' = "data" /\ done' = call.at /\ call.at <= hlen[call.file]
  BY <1>t DEF Fill
<1>3. /\ done' \in Nat
      /\ done' >= IF phase' = "fill" THEN hlen'[call'.file] ELSE call'.at
      /\ \A i \in 1 .. done' : ~ (hlen'[call'.file] < i /\ i <= call'.at) /\ ~ call'.at < i
  BY <1>1, <1>2, <1>t
<1> QED
  BY <1>3 DEF WrittenInv

(* A byte further, the bytes behind the call are those of its range.       *)
LEMMA ByteMovesOn ==
  ASSUME FileInv, ChainInv, ExtentInv, WrittenInv, NEW f, NEW b, WritesByte(f, b),
         call' = call, hlen' = hlen, done' = done + 1,
         phase' = phase \/ (phase' = "data" /\ done + 1 = call.at)
  PROVE  WrittenInv'
<1>t. /\ f \in Owners /\ f = call.file /\ call.at \in Nat /\ done \in Nat /\ hlen[f] \in Nat
      /\ phase \in {"fill", "data"}
  BY RangeTypes DEF WritesByte
<1>p. PICK p \in Nat, e \in Nat : p = done /\ e = p + 1
  BY <1>t
<1>h. PICK h : h = held[f]
  OBVIOUS
<1>1. \A i \in 1 .. e : /\ hlen[f] < i /\ i <= call.at => ReadFile(h, e)'[i] = Zero
                        /\ call.at < i => ReadFile(h, e)'[i] = call.value
  BY <1>h, <1>p, ByteWritten
<1>2. done >= IF phase = "fill" THEN hlen[f] ELSE call.at
  BY <1>t DEF WrittenInv
<1>3. done' >= IF phase' = "fill" THEN hlen[f] ELSE call.at
  BY <1>2, <1>t
<1>4. call'.file = f /\ held'[f] = h /\ done' = e /\ hlen'[f] = hlen[f]
  BY <1>h, <1>p, <1>t DEF WritesByte
<1> QED
  BY <1>1, <1>3, <1>4 DEF WrittenInv

(* What a call has put behind it stays there until the next byte.          *)
LEMMA WrittenNext ==
  ASSUME AllFilesInv, [FileNext]_fileVars
  PROVE  WrittenInv'
<1>i. FileInv /\ ChainInv /\ ExtentInv /\ WrittenInv
  BY DEF AllFilesInv, StoreInv
<1>n. phase' \notin {"fill", "data"} => WrittenInv'
  BY DEF WrittenInv
<1>1. CASE FileCall
  <2>1. phase' \notin {"fill", "data"}
    BY <1>1 DEF FileCall, WriteFileAt, TruncateSame, TruncateLonger, TruncateShorter, RemoveFile,
                opVars
  <2> QED
    BY <1>n, <2>1
<1>2. CASE Extend \/ TruncateChain \/ FreeRemoved
  <2>1. phase' \notin {"fill", "data"}
    BY <1>2 DEF Extend, TruncateChain, FreeRemoved, opVars, Interrupted, ReturnOk
  <2> QED
    BY <1>n, <2>1
<1>3. CASE Adopt
  <2>1. phase' = "first" \/ (Fill(owner) /\ owner = call.file)
    BY <1>3, <1>i DEF Adopt, FileInv, CallProgress
  <2>2. hlen' = hlen /\ phase = "extend"
    BY <1>3 DEF Adopt, byteVars
  <2> QED
    BY <1>i, <1>n, <2>1, <2>2, FillBegins
<1>4. CASE PersistFirst
  <2>1. Fill(call.file) /\ hlen' = hlen /\ phase = "first"
    BY <1>4 DEF PersistFirst
  <2> QED
    BY <1>i, <2>1, FillBegins
<1>5. CASE PersistLength \/ PersistShorter \/ DeleteEntry
  <2>1. phase' \notin {"fill", "data"}
    BY <1>5 DEF PersistLength, PersistShorter, DeleteEntry, opVars, ReturnOk
  <2> QED
    BY <1>n, <2>1
<1>6. CASE WriteZeros
  <2>1. PICK f : f = call.file
    OBVIOUS
  <2>2. WritesByte(f, Zero) /\ done < call.at /\ phase = "fill"
    BY <1>6, <2>1, WritersWrite
  <2>3. call' = call
    BY <1>6 DEF WriteZeros
  <2>4. CASE phase' = "final"
    BY <1>n, <2>4
  <2>5. CASE phase' # "final"
    <3>1. hlen' = hlen /\ done' = done + 1 /\ (phase' = phase \/ (phase' = "data" /\ done + 1 = call.at))
      <4>1. done \in Nat /\ call.at \in Nat
        BY <1>i, <2>2, RangeTypes
      <4> QED
        BY <1>6, <2>2, <2>5, <4>1 DEF WriteZeros
    <3> QED
      BY <1>i, <2>2, <2>3, <3>1, ByteMovesOn
  <2> QED
    BY <2>4, <2>5
<1>7. CASE WriteFileDataAt
  <2>1. PICK f : f = call.file
    OBVIOUS
  <2>2. WritesByte(f, call.value)
    BY <1>7, <2>1, WritersWrite
  <2>3. CASE done + 1 < call.end
    <3>1. call' = call /\ hlen' = hlen /\ done' = done + 1 /\ phase' = phase
      BY <1>7, <2>3 DEF WriteFileDataAt
    <3> QED
      BY <1>i, <2>2, <3>1, ByteMovesOn
  <2>4. CASE ~ done + 1 < call.end
    <3>1. phase' \notin {"fill", "data"}
      BY <1>7, <2>4 DEF WriteFileDataAt, ReturnOk
    <3> QED
      BY <1>n, <3>1
  <2> QED
    BY <2>3, <2>4
<1>8. CASE Abort \/ RemountVolume
  BY <1>8, <1>n DEF Abort, RemountVolume, Interrupted
<1>9. CASE UNCHANGED fileVars
  <2> SUFFICES ASSUME phase' \in {"fill", "data"} PROVE WrittenInv'
    BY <1>n
  <2>1. /\ phase' = phase /\ call' = call /\ done' = done /\ hlen' = hlen /\ held' = held
        /\ fat' = fat /\ data' = data
    BY <1>9 DEF fileVars, vars, chainVars, refVars, byteVars, opVars
  <2>2. PICK f, h, p : f = call.file /\ h = held[f] /\ p = done
    OBVIOUS
  <2>3. p \in Nat
    BY <1>i, <2>1, <2>2, RangeTypes
  <2>4. ReadFile(h, p)' = ReadFile(h, p)
    BY <2>1, <2>3, SteadyUnchanged
  <2>5. /\ done >= IF phase = "fill" THEN hlen[f] ELSE call.at
        /\ \A i \in 1 .. p : /\ hlen[f] < i /\ i <= call.at => ReadFile(h, p)[i] = Zero
                             /\ call.at < i => ReadFile(h, p)[i] = call.value
    BY <1>i, <2>1, <2>2 DEF WrittenInv
  <2>6. call'.file = f /\ held'[f] = h /\ done' = p
    BY <2>1, <2>2
  <2> QED
    BY <2>1, <2>4, <2>5, <2>6 DEF WrittenInv
<1> QED
  BY <1>1, <1>2, <1>3, <1>4, <1>5, <1>6, <1>7, <1>8, <1>9 DEF FileNext, FileStep

-----------------------------------------------------------------------------
(* What a file shows after a call is made of what it showed and the byte   *)
(* of the call.                                                            *)
LEMMA AskedBytes ==
  ASSUME NEW S, Zero \in S, NEW old \in Seq(S), NEW at \in Nat, NEW end \in Nat, NEW value \in S
  PROVE  Written(old, at, end, value) \in Seq(S) /\ Resized(old, end) \in Seq(S)
<1>1. Len(old) \in Nat /\ \A i \in 1 .. Len(old) : old[i] \in S
  OBVIOUS
<1>2. PICK n \in Nat : n = IF end > Len(old) THEN end ELSE Len(old)
  BY <1>1
<1>3. Written(old, at, end, value) \in [1 .. n -> S]
  <2>1. \A i \in 1 .. n :
          (IF at < i /\ i <= end THEN value ELSE IF i <= Len(old) THEN old[i] ELSE Zero) \in S
    BY <1>1
  <2> QED
    BY <1>2, <2>1 DEF Written
<1>4. Resized(old, end) \in [1 .. end -> S]
  <2>1. \A i \in 1 .. end : (IF i <= Len(old) THEN old[i] ELSE Zero) \in S
    BY <1>1
  <2> QED
    BY <2>1 DEF Resized
<1> QED
  BY <1>3, <1>4

(* The contents that calls ask for are bytes they wrote, and zeroes.       *)
LEMMA WantNext ==
  ASSUME FileInv, WantOK, [FileNext]_fileVars
  PROVE  WantOK'
<1> DEFINE S == Values \cup {Zero}
<1>s. want \in [Owners -> Seq(S)]
  BY DEF WantOK
<1>g. want' \in [Owners -> Seq(S)] => WantOK'
  BY DEF WantOK
<1>z. Zero \in S /\ Values \subseteq S
  OBVIOUS
<1> HIDE DEF S
<1>a. ASSUME NEW o \in Owners, NEW w \in Seq(S), Asks(o, w) PROVE WantOK'
  <2>1. want' = want \/ want' = [want EXCEPT ![o] = w]
    BY <1>a DEF Asks
  <2> QED
    BY <1>g, <1>s, <2>1
<1>u. want' = want \/ want' = [o \in Owners |-> <<>>] => WantOK'
  <2>1. <<>> \in Seq(S)
    OBVIOUS
  <2> QED
    BY <1>g, <1>s, <2>1
<1>n. 0 .. MaxLength \subseteq Nat /\ hlen \in [Owners -> 0 .. MaxLength]
  BY Lengths DEF FileInv, FileTypeOK
<1>1. ASSUME NEW o \in Owners, NEW at \in 0 .. MaxLength - 1, NEW end \in 1 .. MaxLength,
             NEW value \in Values, WriteFileAt(o, at, end, value)
      PROVE  WantOK'
  <2>1. at \in Nat /\ end \in Nat /\ value \in S /\ want[o] \in Seq(S)
    BY <1>s, <1>z, Lengths
  <2>2. Written(want[o], at, end, value) \in Seq(S)
    BY <1>z, <2>1, AskedBytes
  <2>3. Asks(o, Written(want[o], at, end, value))
    BY <1>1 DEF WriteFileAt
  <2> QED
    BY <1>a, <2>2, <2>3
<1>2. ASSUME NEW o \in Owners, NEW n \in Nat, Asks(o, Resized(want[o], n)) PROVE WantOK'
  <2>1. want[o] \in Seq(S)
    BY <1>s
  <2>2. Resized(want[o], n) \in Seq(S)
    BY <1>z, <2>1, AskedBytes
  <2> QED
    BY <1>2, <1>a, <2>2
<1>3. ASSUME NEW o \in Owners, TruncateSame(o) PROVE WantOK'
  <2>1. Asks(o, Resized(want[o], hlen[o])) /\ hlen[o] \in Nat
    BY <1>3, <1>n DEF TruncateSame
  <2> QED
    BY <1>2, <2>1
<1>4. ASSUME NEW o \in Owners, NEW n \in 0 .. MaxLength, TruncateLonger(o, n) \/ TruncateShorter(o, n)
      PROVE  WantOK'
  <2>1. Asks(o, Resized(want[o], n)) /\ n \in Nat
    BY <1>4, <1>n DEF TruncateLonger, TruncateShorter
  <2> QED
    BY <1>2, <2>1
<1>5. ASSUME NEW o \in Owners, RemoveFile(o) PROVE WantOK'
  <2>1. Asks(o, <<>>) /\ <<>> \in Seq(S)
    BY <1>5 DEF RemoveFile
  <2> QED
    BY <1>a, <2>1
<1>6. CASE FileStep \/ Abort \/ RemountVolume \/ UNCHANGED fileVars
  <2>1. want' = want \/ want' = [o \in Owners |-> <<>>]
    BY <1>6 DEF FileStep, Extend, Adopt, PersistFirst, WriteZeros, WriteFileDataAt, PersistLength,
                PersistShorter, TruncateChain, DeleteEntry, FreeRemoved, Abort, RemountVolume,
                Interrupted, ReturnOk, fileVars
  <2> QED
    BY <1>u, <2>1
<1> QED
  BY <1>1, <1>3, <1>4, <1>5, <1>6 DEF FileNext, FileCall

-----------------------------------------------------------------------------
(* The entry of a file says what its handle says, or is about to.          *)
EntryFollows(o) ==
  \/ entryFirst[o] = held[o] /\ dlen[o] = hlen[o]
  \/ o = call.file /\ (phase \in {"first", "final"} \/ pc \in {"shrink", "unlink"})

(* What is asked for shows, or will when the call has written its range.   *)
WantFollows(o) ==
  want[o] = IF o = call.file /\ phase \in {"extend", "first", "fill", "data"}
              THEN Written(HandleView(o), call.at, call.end, call.value)
              ELSE HandleView(o)

(* That is all that ContentsInv says.                                      *)
LEMMA ContentsParts ==
  ContentsInv <=> (~ failed => \A o \in Owners : WantFollows(o) /\ EntryFollows(o))
BY DEF ContentsInv, WantFollows, EntryFollows

(* A failure is not forgotten.                                             *)
LEMMA FailedStays == [Next]_vars /\ ~ failed' => ~ failed
BY DEF Next, Call, Step, Interrupt, vars, EnsureChainLength, ChainTailAndLength, MarkAllocated,
       AllocationRefused, ClearCluster, LinkCluster, AdoptChain, PersistFileInfo, BeginShrink,
       PersistShrink, ClusterAt, CutChain, FreeChain, BeginRemove, DeleteFoundEntry, CallAborted,
       Remount, ReturnError

(* An entry follows its handle at every step of a call that does not fail. *)
LEMMA EntryFollowsNext ==
  ASSUME AllFilesInv, [FileNext]_fileVars, ~ failed', NEW o \in Owners,
         \A p \in Owners : EntryFollows(p)
  PROVE  EntryFollows(o)'
<1> USE DEF vars, chainVars, refVars, byteVars, opVars
<1>i. FileInv /\ RoutineInv
  BY DEF AllFilesInv, StoreInv
<1>t. /\ hlen \in [Owners -> 0 .. MaxLength]
      /\ held \in [Owners -> Clusters \cup {NoCluster}]
  BY <1>i DEF FileInv, FileTypeOK, TypeOK, ChainTypeOK
<1>c. /\ phase \in {"idle", "extend", "fill", "data"} =>
           entryFirst[o] = held[o] /\ dlen[o] = hlen[o]
      /\ pc \in {"seek", "cut", "free"} =>
           phase \in {"shrink", "remove"} /\ entryFirst[o] = held[o] /\ dlen[o] = hlen[o]
  <2>1. EntryFollows(o)
    OBVIOUS
  <2>2. /\ phase \in {"idle", "first", "fill", "data", "final"} <=> pc = "idle"
        /\ phase = "extend" => pc \in {"length", "mark", "clear", "link", "adopt"}
        /\ phase = "shrink" => pc \in {"shrink", "seek", "cut", "free"}
        /\ phase = "remove" => pc \in {"unlink", "free"}
        /\ phase \in Phases
    <3> HIDE DEF vars, chainVars, refVars, byteVars, opVars
    <3>1. phase = "extend" => pc \in {"length", "mark", "clear", "link", "adopt"}
      BY <1>i, Zenon DEF RoutineInv
    <3>2. phase = "shrink" => pc \in {"shrink", "seek", "cut", "free"}
      BY <1>i, Zenon DEF RoutineInv
    <3>3. phase = "remove" => pc \in {"unlink", "free"}
      BY <1>i, Zenon DEF RoutineInv
    <3>4. phase \in {"idle", "first", "fill", "data", "final"} <=> pc = "idle"
      BY <1>i, Zenon DEF RoutineInv
    <3> QED
      BY <1>i, <3>1, <3>2, <3>3, <3>4 DEF FileInv, FileTypeOK
  <2> QED
    BY <2>1, <2>2 DEF EntryFollows, Phases
<1>s. ASSUME entryFirst'[o] = entryFirst[o], held'[o] = held[o], dlen'[o] = dlen[o],
             hlen'[o] = hlen[o], entryFirst[o] = held[o] /\ dlen[o] = hlen[o]
      PROVE  EntryFollows(o)'
  BY <1>s DEF EntryFollows
<1>1. CASE FileCall
  <2>1. phase = "idle"
    BY <1>1 DEF FileCall, WriteFileAt, TruncateSame, TruncateLonger, TruncateShorter, RemoveFile
  <2>2. ASSUME NEW p \in Owners, NEW at, NEW end, NEW value, WriteFileAt(p, at, end, value)
        PROVE  EntryFollows(o)'
    BY <1>c, <1>s, <2>1, <2>2 DEF WriteFileAt, EnsureChainLength
  <2>3. ASSUME NEW p \in Owners, TruncateSame(p) PROVE EntryFollows(o)'
    BY <1>c, <1>s, <2>1, <2>3 DEF TruncateSame
  <2>4. ASSUME NEW p \in Owners, NEW n, TruncateLonger(p, n) PROVE EntryFollows(o)'
    BY <1>c, <1>s, <2>1, <2>4 DEF TruncateLonger, EnsureChainLength
  <2>5. ASSUME NEW p \in Owners, NEW n, TruncateShorter(p, n) PROVE EntryFollows(o)'
    <3>1. CASE o = p
      BY <2>5, <3>1 DEF TruncateShorter, BeginShrink, EntryFollows
    <3>2. CASE o # p
      BY <1>c, <1>s, <1>t, <2>1, <2>5, <3>2 DEF TruncateShorter, BeginShrink
    <3> QED
      BY <3>1, <3>2
  <2>6. ASSUME NEW p \in Owners, RemoveFile(p) PROVE EntryFollows(o)'
    <3>1. CASE o = p
      BY <2>6, <3>1 DEF RemoveFile, BeginRemove, EntryFollows
    <3>2. CASE o # p
      BY <1>c, <1>s, <1>t, <2>1, <2>6, <3>2 DEF RemoveFile, BeginRemove
    <3> QED
      BY <3>1, <3>2
  <2> QED
    BY <1>1, <2>2, <2>3, <2>4, <2>5, <2>6 DEF FileCall
<1>2. CASE Extend
  <2>1. /\ phase = "extend" /\ hlen' = hlen /\ dlen' = dlen
        /\ ChainTailAndLength \/ MarkAllocated \/ AllocationRefused \/ ClearCluster \/ LinkCluster
    BY <1>2 DEF Extend
  <2>2. entryFirst' = entryFirst /\ held' = held
    BY <2>1 DEF ChainTailAndLength, MarkAllocated, AllocationRefused, ClearCluster, LinkCluster,
                ReturnError
  <2> QED
    BY <1>c, <1>s, <2>1, <2>2
<1>3. CASE Adopt
  <2>1. /\ phase = "extend" /\ owner = call.file /\ AdoptChain
        /\ entryFirst' = entryFirst /\ dlen' = dlen /\ hlen' = hlen
    BY <1>3, <1>i DEF Adopt, AdoptChain, FileInv, CallProgress
  <2>2. CASE o = owner /\ head # held[owner]
    BY <1>3, <2>1, <2>2 DEF Adopt, EntryFollows
  <2>3. CASE ~ (o = owner /\ head # held[owner])
    <3>1. held'[o] = held[o]
      BY <1>t, <2>1, <2>3 DEF AdoptChain
    <3> QED
      BY <1>c, <1>s, <2>1, <3>1
  <2> QED
    BY <2>2, <2>3
<1>4. CASE PersistFirst \/ PersistLength \/ PersistShorter \/ DeleteEntry
  <2>1. PICK f : PersistStep(f)
    BY <1>4 DEF PersistStep
  <2>2. /\ f \in Owners /\ f = call.file
        /\ held' = held /\ hlen' = hlen
        /\ entryFirst'[f] = held[f] /\ dlen'[f] = hlen[f]
        /\ \A p \in Owners \ {f} : entryFirst'[p] = entryFirst[p] /\ dlen'[p] = dlen[p]
    BY <2>1, PersistShows
  <2> QED
    BY <2>2 DEF EntryFollows
<1>5. CASE WriteZeros \/ WriteFileDataAt
  <2>1. /\ phase \in {"fill", "data"}
        /\ entryFirst' = entryFirst /\ held' = held /\ dlen' = dlen
        /\ \/ hlen' = hlen
           \/ hlen' = [hlen EXCEPT ![call.file] = call.end] /\ call' = call /\ phase' = "final"
    BY <1>5 DEF WriteZeros, WriteFileDataAt
  <2>2. CASE hlen'[o] = hlen[o]
    BY <1>c, <1>s, <2>1, <2>2
  <2>3. CASE hlen'[o] # hlen[o]
    BY <1>t, <2>1, <2>3 DEF EntryFollows
  <2> QED
    BY <2>2, <2>3
<1>6. CASE TruncateChain \/ FreeRemoved
  <2>1. /\ pc \in {"seek", "cut", "free"} /\ hlen' = hlen /\ dlen' = dlen
        /\ entryFirst' = entryFirst /\ held' = held
    BY <1>6 DEF TruncateChain, FreeRemoved, ClusterAt, CutChain, FreeChain, ReturnError
  <2> QED
    BY <1>c, <1>s, <2>1
<1>7. CASE Abort \/ RemountVolume
  BY <1>7 DEF Abort, CallAborted, ReturnError, RemountVolume, Remount
<1>8. CASE UNCHANGED fileVars
  BY <1>8 DEF EntryFollows, fileVars, callVars
<1> QED
  <2>1. \/ FileCall \/ Extend \/ Adopt \/ PersistFirst \/ PersistLength \/ PersistShorter
        \/ DeleteEntry \/ WriteZeros \/ WriteFileDataAt \/ TruncateChain \/ FreeRemoved
        \/ Abort \/ RemountVolume \/ UNCHANGED fileVars
    BY DEF FileNext, FileStep
  <2> QED
    BY <1>1, <1>2, <1>3, <1>4, <1>5, <1>6, <1>7, <1>8, <2>1

(* The contents of a file of n bytes.                                      *)
HasBytes(v, n) == v = [i \in 1 .. n |-> v[i]]

(* A byte of the range that is there already makes no difference to what a *)
(* file shows after a call.                                                *)
LEMMA WrittenAgain ==
  ASSUME NEW n \in Nat, NEW v, HasBytes(v, n),
         NEW at \in Nat, NEW end \in Nat, NEW value, NEW i \in Nat, at < i, i <= end
  PROVE  Written([v EXCEPT ![i] = value], at, end, value) = Written(v, at, end, value)
<1>0. Len(v) = n /\ DOMAIN v = 1 .. n /\ v = [k \in 1 .. n |-> v[k]]
  BY DEF HasBytes
<1>1. PICK u : u = [v EXCEPT ![i] = value]
  OBVIOUS
<1>2. u = [k \in 1 .. n |-> u[k]] /\ \A k \in 1 .. n : u[k] = IF k = i THEN value ELSE v[k]
  BY <1>0, <1>1
<1>3. Len(u) = n
  BY <1>2
<1>4. PICK m \in Nat : m = IF end > n THEN end ELSE n
  OBVIOUS
<1>5. \A k \in 1 .. m :
        (IF at < k /\ k <= end THEN value ELSE IF k <= n THEN u[k] ELSE Zero) =
        (IF at < k /\ k <= end THEN value ELSE IF k <= n THEN v[k] ELSE Zero)
  BY <1>2
<1>6. Written(u, at, end, value) = Written(v, at, end, value)
  BY <1>0, <1>3, <1>4, <1>5 DEF Written
<1> QED
  BY <1>1, <1>6

(* Within a file that has the other bytes of the range, the last one is    *)
(* what a call changes.                                                    *)
LEMMA WrittenWithin ==
  ASSUME NEW n \in Nat, NEW v, HasBytes(v, n),
         NEW at \in Nat, NEW end \in Nat, NEW value,
         at < end, end <= n, \A i \in at + 1 .. end - 1 : v[i] = value
  PROVE  Written(v, at, end, value) = [v EXCEPT ![end] = value]
<1>0. Len(v) = n /\ DOMAIN v = 1 .. n /\ v = [k \in 1 .. n |-> v[k]]
  BY DEF HasBytes
<1>1. PICK u : u = [v EXCEPT ![end] = value]
  OBVIOUS
<1>2. u = [k \in 1 .. n |-> u[k]] /\ \A k \in 1 .. n : u[k] = IF k = end THEN value ELSE v[k]
  BY <1>0, <1>1
<1>3. \A i \in 1 .. n :
        (IF at < i /\ i <= end THEN value ELSE IF i <= n THEN v[i] ELSE Zero) = u[i]
  <2> TAKE i \in 1 .. n
  <2>1. CASE at < i /\ i <= end
    <3>1. i = end \/ i \in at + 1 .. end - 1
      BY <2>1
    <3>2. u[i] = value
      BY <1>2, <3>1
    <3> QED
      BY <2>1, <3>2
  <2>2. CASE ~ (at < i /\ i <= end)
    BY <1>2, <2>2
  <2> QED
    BY <2>1, <2>2
<1>4. Written(v, at, end, value) = [i \in 1 .. n |-> u[i]]
  BY <1>0, <1>3 DEF Written
<1> QED
  BY <1>1, <1>2, <1>4

(* A resized file is cut, or is written up to its new end and no further.  *)
LEMMA ResizedFacts ==
  ASSUME NEW S, NEW v \in Seq(S), NEW n \in Nat
  PROVE  /\ n <= Len(v) => Resized(v, n) = SubSeq(v, 1, n)
         /\ n = Len(v) => Resized(v, n) = v
         /\ n > Len(v) => Resized(v, n) = Written(v, n, n, Zero)
<1>l. Len(v) \in Nat /\ v = [i \in 1 .. Len(v) |-> v[i]] /\ \A i \in 1 .. Len(v) : v[i] \in S
  OBVIOUS
<1>1. ASSUME n <= Len(v) PROVE Resized(v, n) = SubSeq(v, 1, n)
  <2>1. PICK t : t = SubSeq(v, 1, n)
    OBVIOUS
  <2>2. /\ t \in Seq(S) /\ Len(t) = (IF 1 <= n THEN n - 1 + 1 ELSE 0)
        /\ \A i \in 1 .. n - 1 + 1 : t[i] = v[1 + i - 1]
    BY <1>1, <1>l, <2>1, SubSeqProperties
  <2>3. Len(t) = n /\ \A i \in 1 .. n : t[i] = v[i]
    <3>1. Len(t) = n /\ n - 1 + 1 = n /\ \A i \in 1 .. n : 1 + i - 1 = i
      BY <2>2
    <3> QED
      BY <2>2, <3>1
  <2>4. t = [i \in 1 .. n |-> t[i]]
    BY <2>2, <2>3
  <2>5. Resized(v, n) = [i \in 1 .. n |-> v[i]]
    BY <1>1, <1>l DEF Resized
  <2> QED
    BY <2>1, <2>3, <2>4, <2>5
<1>2. ASSUME n = Len(v) PROVE Resized(v, n) = v
  BY <1>2, <1>l DEF Resized
<1>3. ASSUME n > Len(v) PROVE Resized(v, n) = Written(v, n, n, Zero)
  BY <1>3, <1>l DEF Resized, Written
<1> QED
  BY <1>1, <1>2, <1>3

(* A file that is to show something else after the step, and one that is   *)
(* not.                                                                    *)
LEMMA WantGoal ==
  ASSUME NEW o, NEW v, v = HandleView(o)', NEW c, c = call',
         IF o = c.file /\ phase' \in {"extend", "first", "fill", "data"}
           THEN want'[o] = Written(v, c.at, c.end, c.value)
           ELSE want'[o] = v
  PROVE  WantFollows(o)'
BY DEF WantFollows

(* Where a call goes on as it was, so does what it is to show.             *)
LEMMA WantStays ==
  ASSUME NEW o \in Owners, WantFollows(o), HandleView(o)' = HandleView(o), want' = want,
         \/ call' = call /\ phase \in {"extend", "first", "fill", "data"}
              /\ phase' \in {"extend", "first", "fill", "data"}
         \/ phase \notin {"extend", "first", "fill", "data"}
              /\ phase' \notin {"extend", "first", "fill", "data"}
  PROVE  WantFollows(o)'
<1>1. PICK v, c : v = HandleView(o)' /\ c = call'
  OBVIOUS
<1>2. IF o = c.file /\ phase' \in {"extend", "first", "fill", "data"}
        THEN want'[o] = Written(v, c.at, c.end, c.value)
        ELSE want'[o] = v
  BY <1>1 DEF WantFollows
<1> QED
  BY <1>1, <1>2, WantGoal

(* A call that begins asks for what it is going to show.                   *)
LEMMA WantBegins ==
  ASSUME AllFilesInv, [FileNext]_fileVars, ~ failed, FileCall, NEW o \in Owners,
         \A p \in Owners : WantFollows(p)
  PROVE  WantFollows(o)'
<1>i. FileInv /\ WantOK
  BY DEF AllFilesInv, StoreInv
<1>t. /\ want \in [Owners -> Seq(Values \cup {Zero})]
      /\ 0 .. MaxLength \subseteq Nat /\ hlen \in [Owners -> 0 .. MaxLength]
  BY <1>i, Lengths DEF WantOK, FileInv, FileTypeOK
<1>p. phase = "idle"
  BY DEF FileCall, WriteFileAt, TruncateSame, TruncateLonger, TruncateShorter, RemoveFile
<1>c. \A p \in Owners : want[p] = HandleView(p)
  BY <1>p DEF WantFollows
<1>l. \A p \in Owners : Len(want[p]) = hlen[p]
  <2>1. \A p \in Owners : Len(HandleView(p)) = hlen[p]
    BY <1>t, ReadLength DEF HandleView
  <2> QED
    BY <1>c, <2>1
<1>a. ASSUME NEW q \in Owners, NEW w, Asks(q, w)
      PROVE  want' = [want EXCEPT ![q] = w]
  BY <1>a DEF Asks
<1>q. QuietStep => HandleView(o)' = want[o]
  BY <1>c, QuietShows
<1>v. PICK v, c : v = HandleView(o)' /\ c = call'
  OBVIOUS
<1>1. ASSUME NEW q \in Owners, NEW at, NEW end, NEW value, WriteFileAt(q, at, end, value)
      PROVE  WantFollows(o)'
  <2>1. /\ c = [file |-> q, kind |-> "write", at |-> at, end |-> end, value |-> value]
        /\ phase' = "extend" /\ Asks(q, Written(want[q], at, end, value))
    BY <1>1, <1>v DEF WriteFileAt
  <2>2. want' = [want EXCEPT ![q] = Written(want[q], at, end, value)]
    BY <1>a, <2>1
  <2>3. v = want[o]
    BY <1>1, <1>q, <1>v DEF QuietStep
  <2>4. IF o = q THEN want'[o] = Written(v, c.at, c.end, c.value) ELSE want'[o] = v
    BY <1>t, <2>1, <2>2, <2>3
  <2>5. c.file = q
    BY <2>1
  <2> QED
    BY <1>v, <2>1, <2>4, <2>5, WantGoal
<1>2. ASSUME NEW q \in Owners, TruncateSame(q) PROVE WantFollows(o)'
  <2>1. Asks(q, Resized(want[q], hlen[q])) /\ phase' = "idle"
    BY <1>2, <1>p DEF TruncateSame, opVars
  <2>2. Resized(want[q], hlen[q]) = want[q]
    <3>1. want[q] \in Seq(Values \cup {Zero}) /\ hlen[q] \in Nat /\ hlen[q] = Len(want[q])
      BY <1>l, <1>t
    <3> QED
      BY <3>1, ResizedFacts
  <2>3. want'[o] = want[o]
    BY <1>a, <1>t, <2>1, <2>2
  <2>4. v = want[o]
    BY <1>2, <1>q, <1>v DEF QuietStep
  <2> QED
    BY <1>v, <2>1, <2>3, <2>4, WantGoal
<1>3. ASSUME NEW q \in Owners, NEW n \in 0 .. MaxLength, TruncateLonger(q, n)
      PROVE  WantFollows(o)'
  <2>1. /\ c = [file |-> q, kind |-> "truncate", at |-> n, end |-> n, value |-> Zero]
        /\ phase' = "extend" /\ Asks(q, Resized(want[q], n)) /\ n > hlen[q]
    BY <1>3, <1>v DEF TruncateLonger
  <2>2. Resized(want[q], n) = Written(want[q], n, n, Zero)
    <3>1. want[q] \in Seq(Values \cup {Zero}) /\ n \in Nat /\ n > Len(want[q])
      BY <1>l, <1>t, <2>1
    <3> QED
      BY <3>1, ResizedFacts
  <2>3. want' = [want EXCEPT ![q] = Written(want[q], n, n, Zero)]
    BY <1>a, <2>1, <2>2
  <2>4. v = want[o]
    BY <1>3, <1>q, <1>v DEF QuietStep
  <2>5. IF o = q THEN want'[o] = Written(v, c.at, c.end, c.value) ELSE want'[o] = v
    BY <1>t, <2>1, <2>3, <2>4
  <2>6. c.file = q
    BY <2>1
  <2> QED
    BY <1>v, <2>1, <2>5, <2>6, WantGoal
<1>4. ASSUME NEW q \in Owners, NEW n \in 0 .. MaxLength,
             TruncateShorter(q, n) \/ (RemoveFile(q) /\ n = 0)
      PROVE  WantFollows(o)'
  <2>1. /\ HandleView(q)' = SubSeq(HandleView(q), 1, n)
        /\ n \in 0 .. hlen[q]
        /\ \A p \in Owners \ {q} : HandleView(p)' = HandleView(p)
    BY <1>4, ShrinkShows
  <2>2. phase' \in {"shrink", "remove"}
    BY <1>4 DEF TruncateShorter, RemoveFile
  <2>3. Asks(q, SubSeq(want[q], 1, n))
    <3>1. CASE TruncateShorter(q, n)
      <4>1. want[q] \in Seq(Values \cup {Zero}) /\ n \in Nat /\ n <= Len(want[q])
        BY <1>l, <1>t, <2>1
      <4>2. Resized(want[q], n) = SubSeq(want[q], 1, n)
        BY <4>1, ResizedFacts
      <4> QED
        BY <3>1, <4>2 DEF TruncateShorter
    <3>2. CASE RemoveFile(q) /\ n = 0
      <4>1. SubSeq(want[q], 1, 0) = <<>>
        BY SubSeqEmpty
      <4>2. Asks(q, <<>>)
        BY <3>2 DEF RemoveFile
      <4> QED
        BY <3>2, <4>1, <4>2
    <3> QED
      BY <1>4, <3>1, <3>2
  <2>4. want' = [want EXCEPT ![q] = SubSeq(want[q], 1, n)]
    BY <1>a, <2>3
  <2>5. want'[o] = v
    BY <1>c, <1>t, <1>v, <2>1, <2>4
  <2> QED
    BY <1>v, <2>2, <2>5, WantGoal
<1>5. ASSUME NEW q \in Owners, RemoveFile(q) PROVE WantFollows(o)'
  <2>1. 0 \in 0 .. MaxLength
    BY Lengths
  <2> QED
    BY <1>4, <1>5, <2>1
<1> QED
  BY <1>1, <1>2, <1>3, <1>4, <1>5 DEF FileCall

(* Each byte that is written brings the file closer to what is asked for,  *)
(* and the last one makes it so.                                           *)
LEMMA WantWritten ==
  ASSUME AllFilesInv, WriteZeros \/ WriteFileDataAt, NEW o \in Owners,
         \A p \in Owners : WantFollows(p)
  PROVE  WantFollows(o)'
<1>i. FileInv /\ ChainInv /\ ExtentInv /\ WrittenInv
  BY DEF AllFilesInv, StoreInv
<1>f. PICK f, b, h, c : /\ f = call.file /\ h = held[f] /\ c = call
                        /\ b = IF WriteZeros THEN Zero ELSE call.value
  OBVIOUS
<1>w. WritesByte(f, b)
  BY <1>f, WritersWrite
<1>t. /\ f \in Owners /\ c.end \in Nat /\ done \in Nat /\ done < c.end /\ c.at \in Nat
      /\ hlen \in [Owners -> Nat] /\ phase \in {"fill", "data"}
      /\ c.at = c.end => c.kind = "truncate"
      /\ c.at < c.end => c.kind = "write"
      /\ c.at <= c.end
  BY <1>f, <1>i, <1>w, Lengths, RangeTypes DEF WritesByte
<1>u. want' = want
  BY DEF WriteZeros, WriteFileDataAt, ReturnOk
<1>1. ASSUME o # f PROVE WantFollows(o)'
  <2>1. HandleView(o)' = HandleView(o) /\ want[o] = HandleView(o)
    BY <1>1, <1>f, <1>i, <1>w, ByteShows DEF WantFollows
  <2>2. call' = call \/ (phase' = "idle")
    BY DEF WriteZeros, WriteFileDataAt, ReturnOk
  <2>3. PICK v, d : v = HandleView(o)' /\ d = call'
    OBVIOUS
  <2>4. want'[o] = v /\ ~ (o = d.file /\ phase' \in {"extend", "first", "fill", "data"})
    BY <1>1, <1>f, <1>u, <2>1, <2>2, <2>3
  <2> QED
    BY <2>3, <2>4, WantGoal
<1>n. PICK n, v : n = hlen[f] /\ v = HandleView(f)
  OBVIOUS
<1>m. n \in Nat
  BY <1>n, <1>t
<1>v. v = [i \in 1 .. n |-> v[i]]
  BY <1>n DEF HandleView, ReadFile
<1>b. HasBytes(v, n)
  BY <1>v DEF HasBytes
<1>c. want[f] = Written(v, c.at, c.end, c.value)
  BY <1>f, <1>n, <1>t DEF WantFollows
<1>p. PICK d : d = call'
  OBVIOUS
<1>2. ASSUME call' = call, hlen'[f] = n, phase' \in {"fill", "data"} PROVE WantFollows(f)'
  <2>1. HandleView(f)' = [v EXCEPT ![done + 1] = b]
    BY <1>2, <1>f, <1>i, <1>n, <1>w, ByteShows
  <2>2. Written([v EXCEPT ![done + 1] = b], c.at, c.end, c.value) = Written(v, c.at, c.end, c.value)
    <3>1. CASE WriteZeros
      <4>1. done >= n
        BY <1>f, <1>i, <1>n, <3>1 DEF WrittenInv, WriteZeros
      <4>2. [v EXCEPT ![done + 1] = b] = v
        BY <1>m, <1>t, <1>v, <4>1
      <4> QED
        BY <4>2
    <3>2. CASE ~ WriteZeros
      <4>1. b = c.value /\ c.at <= done
        BY <1>f, <3>2, WritersWrite
      <4>2. PICK i \in Nat : i = done + 1
        BY <1>t
      <4>3. c.at < i /\ i <= c.end
        BY <1>t, <4>1, <4>2
      <4> QED
        <5>1. Written([v EXCEPT ![i] = c.value], c.at, c.end, c.value)
                = Written(v, c.at, c.end, c.value)
          BY <1>b, <1>m, <1>t, <4>3, WrittenAgain
        <5> QED
          BY <4>1, <4>2, <5>1
    <3> QED
      BY <3>1, <3>2
  <2>3. PICK u : u = HandleView(f)'
    OBVIOUS
  <2>4. want'[f] = Written(u, d.at, d.end, d.value) /\ f = d.file
    BY <1>2, <1>c, <1>f, <1>p, <1>u, <2>1, <2>2, <2>3
  <2> QED
    BY <1>2, <1>p, <2>3, <2>4, WantGoal
<1>3. ASSUME call' = call, hlen'[f] = c.end, n < c.end, done + 1 = c.end, phase' = "final"
      PROVE  WantFollows(f)'
  <2>1. /\ HandleView(f)' = [i \in 1 .. c.end |->
              IF i <= n THEN v[i] ELSE IF i <= c.at THEN Zero ELSE c.value]
        /\ \A i \in c.at + 1 .. n : v[i] = c.value
    BY <1>3, <1>f, <1>i, <1>n, <1>w, GrownShows
  <2>2. want'[f] = HandleView(f)'
    <3>1. Written(v, c.at, c.end, c.value) =
            [i \in 1 .. c.end |-> IF i <= n THEN v[i] ELSE IF i <= c.at THEN Zero ELSE c.value]
      <4>1. Len(v) = n
        BY <1>m, <1>v
      <4>2. \A i \in 1 .. c.end :
              (IF c.at < i /\ i <= c.end THEN c.value ELSE IF i <= n THEN v[i] ELSE Zero) =
              (IF i <= n THEN v[i] ELSE IF i <= c.at THEN Zero ELSE c.value)
        BY <1>3, <1>m, <1>t, <2>1
      <4> QED
        BY <1>3, <4>1, <4>2 DEF Written
    <3> QED
      BY <1>c, <1>u, <2>1, <3>1
  <2> QED
    BY <1>3, <2>2, WantGoal
<1>4. ASSUME WriteFileDataAt, hlen' = hlen, c.end <= n, done + 1 = c.end, phase' = "idle"
      PROVE  WantFollows(f)'
  <2>1. c.at <= done /\ b = c.value /\ phase = "data"
    BY <1>4, <1>f, WritersWrite DEF WriteZeros
  <2>2. HandleView(f)' = [v EXCEPT ![c.end] = c.value]
    BY <1>4, <1>f, <1>i, <1>n, <1>w, <2>1, ByteShows
  <2>3. ASSUME NEW i \in c.at + 1 .. c.end - 1 PROVE v[i] = c.value
    <3>1. PICK p \in Nat : p = done
      BY <1>t
    <3>2. i \in 1 .. p /\ p \in 0 .. n /\ c.at < i
      BY <1>4, <1>m, <1>t, <3>1
    <3>3. ReadFile(h, p)[i] = c.value
      BY <1>f, <1>i, <1>t, <3>1, <3>2 DEF WrittenInv
    <3>4. ReadFile(h, p)[i] = ReadFile(h, n)[i]
      BY <1>m, <3>1, <3>2, ReadPrefix
    <3> QED
      BY <1>f, <1>n, <3>3, <3>4 DEF HandleView
  <2>4. c.at < c.end
    BY <1>t, <2>1
  <2>5. want'[f] = HandleView(f)'
    <3>1. Written(v, c.at, c.end, c.value) = [v EXCEPT ![c.end] = c.value]
      BY <1>4, <1>b, <1>m, <1>t, <2>3, <2>4, WrittenWithin
    <3> QED
      BY <1>c, <1>u, <2>2, <3>1
  <2> QED
    BY <1>4, <2>5, WantGoal
<1>5. WantFollows(f)'
  <2>1. CASE WriteZeros
    <3>1. call' = call /\ done < c.at
      BY <1>f, <2>1, WritersWrite DEF WriteZeros
    <3>2. CASE phase' \in {"fill", "data"}
      BY <1>2, <1>n, <2>1, <3>1, <3>2 DEF WriteZeros
    <3>3. CASE phase' \notin {"fill", "data"}
      <4>1. /\ ~ done + 1 < c.at /\ c.kind # "write" /\ phase' = "final"
            /\ hlen' = [hlen EXCEPT ![f] = c.end]
        BY <1>f, <1>t, <2>1, <3>3 DEF WriteZeros
      <4>2. done + 1 = c.end /\ hlen'[f] = c.end
        BY <1>t, <3>1, <4>1
      <4>3. n < c.end
        <5>1. n <= done
          BY <1>f, <1>i, <1>n, <2>1 DEF WrittenInv, WriteZeros
        <5> QED
          BY <1>m, <1>t, <4>2, <5>1
      <4> QED
        BY <1>3, <3>1, <4>1, <4>2, <4>3
    <3> QED
      BY <3>2, <3>3
  <2>2. CASE WriteFileDataAt
    <3>1. CASE done + 1 < c.end
      BY <1>2, <1>f, <1>n, <1>t, <2>2, <3>1 DEF WriteFileDataAt
    <3>2. CASE ~ done + 1 < c.end /\ c.end > n
      <4>1. call' = call /\ hlen' = [hlen EXCEPT ![f] = c.end] /\ phase' = "final"
        BY <1>f, <1>n, <2>2, <3>2 DEF WriteFileDataAt
      <4>2. done + 1 = c.end /\ hlen'[f] = c.end
        BY <1>t, <3>2, <4>1
      <4> QED
        BY <1>3, <1>t, <3>2, <4>1, <4>2
    <3>3. CASE ~ done + 1 < c.end /\ ~ c.end > n
      <4>1. hlen' = hlen /\ phase' = "idle"
        BY <1>f, <1>n, <2>2, <3>3 DEF WriteFileDataAt, ReturnOk
      <4> QED
        BY <1>4, <1>m, <1>t, <2>2, <3>3, <4>1
    <3> QED
      BY <3>1, <3>2, <3>3
  <2> QED
    BY <2>1, <2>2
<1> QED
  BY <1>1, <1>5

(* What is asked for shows, or will, at every step that does not fail.     *)
LEMMA WantFollowsNext ==
  ASSUME AllFilesInv, [FileNext]_fileVars, ~ failed, ~ failed', NEW o \in Owners,
         \A p \in Owners : WantFollows(p)
  PROVE  WantFollows(o)'
<1> USE DEF opVars, ReturnOk
<1>i. FileInv
  BY DEF AllFilesInv, StoreInv
<1>q. QuietStep => HandleView(o)' = HandleView(o)
  BY QuietShows
<1>1. CASE FileCall
  BY <1>1, WantBegins
<1>2. CASE WriteZeros \/ WriteFileDataAt
  BY <1>2, WantWritten
<1>3. CASE Extend
  <2>1. phase = "extend" /\ (pc' = "idle" => failed' = TRUE)
    BY <1>3 DEF Extend, ChainTailAndLength, MarkAllocated, AllocationRefused, ClearCluster,
                LinkCluster, ReturnError
  <2>2. call' = call /\ phase' = phase /\ want' = want
    BY <1>3, <2>1 DEF Extend
  <2> QED
    BY <1>3, <1>q, <2>1, <2>2, WantStays DEF QuietStep
<1>4. CASE Adopt
  <2>1. phase = "extend" /\ call' = call /\ phase' \in {"first", "fill", "data"} /\ want' = want
    BY <1>4 DEF Adopt, Fill
  <2> QED
    BY <1>4, <1>q, <2>1, WantStays DEF QuietStep
<1>5. CASE PersistFirst \/ PersistLength \/ PersistShorter \/ DeleteEntry
  <2>1. PICK f : PersistStep(f)
    BY <1>5 DEF PersistStep
  <2>2. HandleView(o)' = HandleView(o)
    BY <2>1, PersistShows
  <2>3. CASE PersistFirst
    BY <2>2, <2>3, WantStays DEF PersistFirst, Fill
  <2>4. CASE ~ PersistFirst
    <3>1. /\ want' = want
          /\ phase \in {"final", "shrink", "remove"} /\ phase' \in {"idle", "shrink", "remove"}
      BY <1>5, <2>4 DEF PersistLength, PersistShorter, DeleteEntry
    <3> QED
      BY <2>2, <3>1, WantStays
  <2> QED
    BY <2>3, <2>4
<1>6. CASE TruncateChain \/ FreeRemoved
  <2>1. pc' = "idle" /\ fat[cur] # EndOfChain => failed' = TRUE
    BY <1>6 DEF TruncateChain, FreeRemoved, ClusterAt, CutChain, FreeChain, ReturnError, InUse
  <2>2. /\ want' = want
        /\ phase \in {"shrink", "remove"} /\ phase' \in {"idle", "shrink", "remove"}
    BY <1>6, <2>1 DEF TruncateChain, FreeRemoved
  <2> QED
    BY <1>6, <1>q, <2>2, WantStays DEF QuietStep
<1>7. CASE Abort \/ RemountVolume
  BY <1>7 DEF Abort, CallAborted, ReturnError, RemountVolume, Remount
<1>8. CASE UNCHANGED fileVars
  <2>1. want' = want /\ call' = call /\ phase' = phase
    BY <1>8 DEF fileVars
  <2> QED
    BY <1>8, <1>q, <2>1, WantStays DEF QuietStep
<1> QED
  BY <1>1, <1>2, <1>3, <1>4, <1>5, <1>6, <1>7, <1>8 DEF FileNext, FileStep

(* What ContentsInv says is kept.                                          *)
LEMMA ContentsNext ==
  ASSUME AllFilesInv, [FileNext]_fileVars
  PROVE  ContentsInv'
<1>1. SUFFICES ASSUME ~ failed'
               PROVE  \A o \in Owners : WantFollows(o)' /\ EntryFollows(o)'
  BY DEF ContentsInv, WantFollows, EntryFollows
<1>2. FileInv /\ ContentsInv
  BY DEF AllFilesInv, StoreInv
<1>3. ~ failed
  BY <1>1, <1>2, FailedStays, StepUsesChains
<1>4. \A o \in Owners : WantFollows(o) /\ EntryFollows(o)
  BY <1>2, <1>3, ContentsParts
<1> QED
  BY <1>1, <1>3, <1>4, EntryFollowsNext, WantFollowsNext

(* A mounted volume shows, and is asked for, what its entries say.         *)
LEMMA StoreStarts ==
  ASSUME FileInit
  PROVE  WantOK /\ WrittenInv /\ ContentsInv /\ Store!StoreInit
<1>1. /\ entryFirst = held /\ dlen = hlen /\ phase = "idle" /\ call = NoOp
      /\ \A o \in Owners : DiskView(o) = want[o]
  BY DEF FileInit, Init
<1>2. \A o \in Owners : HandleView(o) = DiskView(o)
  BY <1>1 DEF HandleView, DiskView
<1>3. want \in [Owners -> Seq(Values \cup {Zero})]
  <2>1. want \in [Owners -> UNION {[1 .. n -> Values] : n \in 0 .. MaxLength}]
    BY DEF FileInit
  <2>2. \A n \in 0 .. MaxLength : \A s \in [1 .. n -> Values] : s \in Seq(Values \cup {Zero})
    <3> TAKE n \in 0 .. MaxLength
    <3> TAKE s \in [1 .. n -> Values]
    <3>1. n \in Nat
      BY Lengths
    <3>2. s \in [1 .. n -> Values \cup {Zero}]
      OBVIOUS
    <3> QED
      BY <3>1, <3>2
  <2> QED
    BY <2>1, <2>2
<1>4. WantOK
  BY <1>3 DEF WantOK
<1>5. WrittenInv
  BY <1>1 DEF WrittenInv
<1>6. ContentsInv
  BY <1>1, <1>2 DEF ContentsInv
<1>7. Store!StoreInit
  <2>1. [o \in Owners |-> HandleView(o)] = [o \in Owners |-> DiskView(o)]
    BY <1>2
  <2>2. [o \in Owners |-> DiskView(o)] \in [Owners -> Seq(Values \cup {Zero})]
    BY <1>1, <1>3
  <2> QED
    BY <1>1, <2>1, <2>2 DEF Store!StoreInit, Store!Bytes
<1> QED
  BY <1>4, <1>5, <1>6, <1>7

(* What is known of the files, their chains and their contents holds       *)
(* together at every step.                                                 *)
LEMMA AllFilesKept == FileSpec => []AllFilesInv
<1>1. FileInit => WantOK /\ WrittenInv /\ ContentsInv
  BY StoreStarts
<1>2. /\ FileInv /\ ChainInv /\ PathInv /\ RoutineInv /\ ExtentInv
      /\ WantOK /\ WrittenInv /\ ContentsInv /\ [FileNext]_fileVars
      => WantOK' /\ WrittenInv' /\ ContentsInv'
  <2> SUFFICES ASSUME FileInv, ChainInv, PathInv, RoutineInv, ExtentInv,
                      WantOK, WrittenInv, ContentsInv, [FileNext]_fileVars
               PROVE  WantOK' /\ WrittenInv' /\ ContentsInv'
    OBVIOUS
  <2>1. AllFilesInv
    BY DEF AllFilesInv, StoreInv
  <2> QED
    BY <2>1, WantNext, WrittenNext, ContentsNext
<1>3. FileSpec => [](WantOK /\ WrittenInv /\ ContentsInv)
  BY <1>1, <1>2, FilesInv, ExtentsInv, PTL DEF FileSpec
<1>4. /\ FileInv /\ ChainInv /\ PathInv /\ RoutineInv /\ ExtentInv
      /\ WantOK /\ WrittenInv /\ ContentsInv
      => AllFilesInv
  BY DEF AllFilesInv, StoreInv
<1> QED
  BY <1>3, <1>4, FilesInv, ExtentsInv, PTL

-----------------------------------------------------------------------------
(* The invariant of the calls on files that the runs check: how far each   *)
(* call is, which routine runs for it, how many clusters its file has, and *)
(* what its file shows.                                                    *)
THEOREM StoreInvariant == FileSpec => []StoreInv
<1>1. AllFilesInv => StoreInv
  BY DEF AllFilesInv
<1> QED
  BY <1>1, AllFilesKept, PTL

(* write_file_at, truncate_file and remove_file, interrupted at any of     *)
(* their device writes or not, change the contents of files only as        *)
(* FileStore allows: no byte of an old file, of a free cluster or of       *)
(* another file ever shows.                                                *)
THEOREM StoreIsRefined == FileSpec => StoreRefined
<1>1. FileInit => Store!StoreInit
  BY StoreStarts
<1>2. AllFilesInv /\ [FileNext]_fileVars => [Store!StoreNext]_(Store!storeVars)
  BY StepRefines
<1> QED
  BY <1>1, <1>2, AllFilesKept, PTL DEF FileSpec, StoreRefined, Store!StoreSpec

(* Between calls, as long as none failed, every file shows exactly what    *)
(* the calls on it asked for, through its handle and after a remount.      *)
THEOREM FilesShowWhatWasAsked == FileSpec => []CallsDoWhatTheyAsk
<1>1. AllFilesInv => CallsDoWhatTheyAsk
  <2> SUFFICES ASSUME AllFilesInv, phase = "idle", ~ failed, NEW o \in Owners
               PROVE  HandleView(o) = want[o] /\ DiskView(o) = want[o]
    BY DEF CallsDoWhatTheyAsk
  <2>1. FileInv /\ RoutineInv /\ ContentsInv
    BY DEF AllFilesInv, StoreInv
  <2>2. pc = "idle"
    BY <2>1, Zenon DEF RoutineInv
  <2>3. want[o] = HandleView(o) /\ entryFirst[o] = held[o] /\ dlen[o] = hlen[o]
    BY <2>1, <2>2 DEF ContentsInv
  <2> QED
    BY <2>3 DEF HandleView, DiskView
<1> QED
  BY <1>1, AllFilesKept, PTL
=============================================================================
