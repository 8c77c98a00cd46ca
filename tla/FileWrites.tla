----------------------------- MODULE FileWrites -----------------------------
(***************************************************************************)
(* write_file_at and truncate_file, down to every device write.            *)
(*                                                                         *)
(* The cluster chains, and the routines that walk, extend and free them,   *)
(* are those of FatChains: a step of this module that changes the FAT is a *)
(* step of FatChains.  Added here are the bytes of the clusters, the two   *)
(* lengths of a file (in its handle and in its directory entry) and the    *)
(* order in which a call fills, writes and persists.  A cluster holds      *)
(* ClusterSize bytes, and every byte is a device write of its own, so that *)
(* a call can be interrupted between any two.  Renames are not among the   *)
(* calls here: VolumeChains has what they do to chains.                    *)
(***************************************************************************)
EXTENDS FatChains, Sequences

CONSTANTS
  ClusterSize,   \* bytes of a cluster
  MaxLength,     \* bound on the lengths and offsets of calls
  Values,        \* bytes an application writes
  Zero,          \* the byte that clears
  Stale          \* what a free cluster holds when the volume is mounted

ASSUME FileAssumption ==
  /\ ClusterSize \in Nat \ {0}
  /\ MaxLength \in Nat
  /\ MaxLength <= ClusterSize * MaxRequired
  /\ Zero \notin Values /\ Stale \notin Values \cup {Zero}

VARIABLES
  data,      \* cluster -> position -> byte
  hlen,      \* file -> length in its handle
  dlen,      \* file -> file size in its directory entry
  call,      \* the call that runs: its file, kind, range and byte
  phase,     \* where write_file_at or truncate_file is
  done,      \* next position that `fill` or `data` writes
  okFor,     \* history: the file whose last call returned Ok just now
  want       \* history: file -> the contents its calls asked for

byteVars == <<data, hlen, dlen>>
opVars   == <<call, phase, done>>
fileVars == <<vars, byteVars, opVars, okFor, want>>

NoOp == [file |-> NoOwner, kind |-> "none", at |-> 0, end |-> 0, value |-> Zero]
Phases == {"idle", "extend", "first", "fill", "data", "final", "shrink", "remove"}

-----------------------------------------------------------------------------
(* The cluster at an index of a chain, and the bytes of a file.            *)

ClusterOf(first, index) ==
  LET at[n \in 0 .. index] ==
        IF n = 0 THEN first
        ELSE IF at[n - 1] # NoCluster /\ IsLink(fat[at[n - 1]])
               THEN fat[at[n - 1]] ELSE NoCluster
  IN  at[index]

ReadFile(first, length) ==
  [i \in 1 .. length |->
     LET c == ClusterOf(first, (i - 1) \div ClusterSize)
     IN  IF c = NoCluster THEN Stale ELSE data[c][(i - 1) % ClusterSize]]

HandleView(o) == ReadFile(held[o], hlen[o])
DiskView(o)   == ReadFile(entryFirst[o], dlen[o])

(* Mutant: a last, partly filled cluster is not counted.                   *)
Required_Floor(length) == length \div ClusterSize

(* How many clusters `length` bytes take.                                  *)
Required(length) == (length + ClusterSize - 1) \div ClusterSize

(* One byte of a file, through its handle.                                 *)
PutByte(o, position, byte) ==
  LET c == ClusterOf(held[o], position \div ClusterSize)
  IN  data' = [data EXCEPT ![c][position % ClusterSize] = byte]

(* What the file shows after a call, when nothing interrupts it.           *)
Written(old, at, end, value) ==
  [i \in 1 .. (IF end > Len(old) THEN end ELSE Len(old)) |->
     IF at < i /\ i <= end THEN value ELSE IF i <= Len(old) THEN old[i] ELSE Zero]
Resized(old, length) ==
  [i \in 1 .. length |-> IF i <= Len(old) THEN old[i] ELSE Zero]

(* The bytes left in a cluster that is freed are nobody's.                 *)
OldBytes(c) == data' = [data EXCEPT ![c] = [i \in DOMAIN @ |-> Stale]]

ReturnOk == /\ call' = NoOp /\ phase' = "idle" /\ done' = 0
            /\ okFor' = call.file
            /\ UNCHANGED want
Interrupted == /\ call' = NoOp /\ phase' = "idle" /\ done' = 0
               /\ okFor' = NoOwner
               /\ want' = [o \in Owners |-> <<>>]

(* want is kept until a first call fails.                                  *)
Asks(o, contents) ==
  want' = IF failed THEN want ELSE [want EXCEPT ![o] = contents]

(* Mutant: the gap between the old end and the offset is not zeroed.       *)
Fill_NoGap(o) ==
  /\ call' = call
  /\ phase' = IF call.kind = "truncate" THEN "fill" ELSE "data"
  /\ done' = IF call.kind = "truncate" THEN hlen[o] ELSE call.at

(* After the chain is long enough: write_zeros up to the offset, or to the *)
(* new length, then write_file_data_at.                                    *)
Fill(o) ==
  /\ call' = call
  /\ phase' = IF call.at > hlen[o] THEN "fill" ELSE "data"
  /\ done' = IF call.at > hlen[o] THEN hlen[o] ELSE call.at

-----------------------------------------------------------------------------
WriteFileAt(o, at, end, value) ==
  /\ phase = "idle"
  /\ EnsureChainLength(o, Required(end))
  /\ phase' = "extend"
  /\ call' = [file |-> o, kind |-> "write", at |-> at, end |-> end, value |-> value]
  /\ Asks(o, Written(want[o], at, end, value))
  /\ okFor' = NoOwner
  /\ UNCHANGED <<byteVars, done>>

TruncateSame(o) ==
  /\ phase = "idle"
  /\ okFor' = o
  /\ Asks(o, Resized(want[o], hlen[o]))
  /\ UNCHANGED <<vars, byteVars, opVars>>

TruncateLonger(o, length) ==
  /\ phase = "idle"
  /\ length > hlen[o]
  /\ EnsureChainLength(o, Required(length))
  /\ phase' = "extend"
  /\ call' = [file |-> o, kind |-> "truncate", at |-> length, end |-> length, value |-> Zero]
  /\ Asks(o, Resized(want[o], length))
  /\ okFor' = NoOwner
  /\ UNCHANGED <<byteVars, done>>

TruncateShorter(o, length) ==
  /\ phase = "idle"
  /\ length < hlen[o]
  /\ BeginShrink(o, Required(length))
  /\ hlen' = [hlen EXCEPT ![o] = length]
  /\ phase' = "shrink"
  /\ call' = [file |-> o, kind |-> "truncate", at |-> length, end |-> length, value |-> Zero]
  /\ Asks(o, Resized(want[o], length))
  /\ okFor' = NoOwner
  /\ UNCHANGED <<data, dlen, done>>

(* ensure_chain_length on the caller's local `first`.                      *)
Extend ==
  /\ phase = "extend"
  /\ \/ ChainTailAndLength /\ UNCHANGED data
     \/ MarkAllocated /\ UNCHANGED data
     \/ AllocationRefused /\ UNCHANGED data
     \/ ClearCluster /\ data' = [data EXCEPT ![cur] = [i \in DOMAIN @ |-> Zero]]
     \/ LinkCluster /\ UNCHANGED data
  /\ IF pc' = "idle" THEN Interrupted ELSE UNCHANGED <<opVars, okFor, want>>
  /\ UNCHANGED <<hlen, dlen>>

(* A chain that is new goes to the handle and, before any byte, to the     *)
(* entry.                                                                  *)
Adopt ==
  /\ phase = "extend"
  /\ AdoptChain
  /\ IF head # held[owner]
       THEN phase' = "first" /\ UNCHANGED <<call, done>>
       ELSE Fill(owner)
  /\ UNCHANGED <<byteVars, okFor, want>>

(* Mutant: a file without bytes is stored without a cluster.               *)
PersistEntry_DropEmpty(o) ==
  /\ IF hlen[o] = 0
       THEN /\ entryFirst' = [entryFirst EXCEPT ![o] = NoCluster]
            /\ UNCHANGED <<chainVars, held, callVars, failed>>
       ELSE IF held[o] = entryFirst[o] THEN UNCHANGED vars ELSE PersistFileInfo(o)
  /\ dlen' = [dlen EXCEPT ![o] = hlen[o]]

(* persist_file_info writes first cluster and length of the handle.        *)
PersistEntry(o) ==
  /\ IF held[o] = entryFirst[o] THEN UNCHANGED vars ELSE PersistFileInfo(o)
  /\ dlen' = [dlen EXCEPT ![o] = hlen[o]]

(* Mutant: the new chain is stored with the length it is about to get.     *)
PersistFirst_WithLength ==
  /\ phase = "first"
  /\ PersistFileInfo(call.file)
  /\ dlen' = [dlen EXCEPT ![call.file] = call.end]
  /\ Fill(call.file)
  /\ UNCHANGED <<data, hlen, okFor, want>>

PersistFirst ==
  /\ phase = "first"
  /\ PersistEntry(call.file)
  /\ Fill(call.file)
  /\ UNCHANGED <<data, hlen, okFor, want>>

(* Mutant: write_zeros does not count down its length.                     *)
WriteZeros_NoStop ==
  /\ phase = "fill"
  /\ PutByte(call.file, done, Zero)
  /\ done' = done + 1
  /\ UNCHANGED <<vars, hlen, dlen, call, phase, okFor, want>>

(* write_zeros                                                             *)
WriteZeros ==
  /\ phase = "fill"
  /\ PutByte(call.file, done, Zero)
  /\ IF done + 1 < call.at
       THEN done' = done + 1 /\ UNCHANGED <<phase, hlen>>
       ELSE IF call.kind = "write"
       THEN done' = call.at /\ phase' = "data" /\ UNCHANGED hlen
       ELSE done' = 0 /\ phase' = "final" /\ hlen' = [hlen EXCEPT ![call.file] = call.end]
  /\ UNCHANGED <<vars, dlen, call, okFor, want>>

(* write_file_data_at, and the new length in the handle                    *)
WriteFileDataAt ==
  /\ phase = "data"
  /\ PutByte(call.file, done, call.value)
  /\ IF done + 1 < call.end
       THEN done' = done + 1 /\ UNCHANGED <<phase, call, hlen, okFor, want>>
       ELSE IF call.end > hlen[call.file]
       THEN /\ done' = 0 /\ phase' = "final"
            /\ hlen' = [hlen EXCEPT ![call.file] = call.end]
            /\ UNCHANGED <<call, okFor, want>>
       ELSE ReturnOk /\ UNCHANGED hlen
  /\ UNCHANGED <<vars, dlen>>

PersistLength ==
  /\ phase = "final"
  /\ PersistEntry(call.file)
  /\ ReturnOk
  /\ UNCHANGED <<data, hlen>>

(* truncate_file to a shorter length, after the handle was set.            *)
PersistShorter ==
  /\ phase = "shrink"
  /\ PersistShrink
  /\ dlen' = [dlen EXCEPT ![owner] = hlen[owner]]
  /\ UNCHANGED <<data, hlen, opVars, okFor, want>>

TruncateChain ==
  /\ phase = "shrink"
  /\ \/ (ClusterAt \/ CutChain) /\ UNCHANGED data
     \/ FreeChain /\ OldBytes(cur)
  /\ IF pc' # "idle" THEN UNCHANGED <<opVars, okFor, want>>
     ELSE IF fat[cur] = EndOfChain THEN ReturnOk
     ELSE Interrupted
  /\ UNCHANGED <<hlen, dlen>>

(* remove_file, and create_file under the same name.                       *)
RemoveFile(o) ==
  /\ phase = "idle"
  /\ BeginRemove(o)
  /\ hlen' = [hlen EXCEPT ![o] = 0]
  /\ phase' = "remove"
  /\ call' = [file |-> o, kind |-> "truncate", at |-> 0, end |-> 0, value |-> Zero]
  /\ Asks(o, <<>>)
  /\ okFor' = NoOwner
  /\ UNCHANGED <<data, dlen, done>>

DeleteEntry ==
  /\ phase = "remove"
  /\ DeleteFoundEntry
  /\ dlen' = [dlen EXCEPT ![owner] = 0]
  /\ IF pc' = "idle" THEN ReturnOk ELSE UNCHANGED <<opVars, okFor, want>>
  /\ UNCHANGED <<data, hlen>>

FreeRemoved ==
  /\ phase = "remove"
  /\ FreeChain /\ OldBytes(cur)
  /\ IF pc' # "idle" THEN UNCHANGED <<opVars, okFor, want>>
     ELSE IF fat[cur] = EndOfChain THEN ReturnOk
     ELSE Interrupted
  /\ UNCHANGED <<hlen, dlen>>

-----------------------------------------------------------------------------
Abort ==
  /\ phase # "idle"
  /\ CallAborted
  /\ Interrupted
  /\ UNCHANGED byteVars

RemountVolume ==
  /\ Remount
  /\ hlen' = dlen
  /\ Interrupted
  /\ UNCHANGED <<data, dlen>>

-----------------------------------------------------------------------------
FileInit ==
  /\ Init
  /\ \A c \in Clusters : fat[c] \notin {Bad, Reserved}
  /\ dlen \in [Owners -> 0 .. MaxLength]
  /\ \A o \in Owners : \A i \in 1 .. dlen[o] :
       ClusterOf(entryFirst[o], (i - 1) \div ClusterSize) # NoCluster
  /\ hlen = dlen
  /\ want \in [Owners -> UNION {[1 .. n -> Values] : n \in 0 .. MaxLength}]
  /\ \A o \in Owners : Len(want[o]) = dlen[o]
  /\ data \in [Clusters -> [0 .. ClusterSize - 1 -> Values \cup {Stale}]]
  /\ \A o \in Owners : DiskView(o) = want[o]
  /\ \A c \in Clusters, i \in 0 .. ClusterSize - 1 :
       data[c][i] = Stale <=>
         ~ \E o \in Owners : \E k \in 1 .. dlen[o] :
             /\ c = ClusterOf(entryFirst[o], (k - 1) \div ClusterSize)
             /\ i = (k - 1) % ClusterSize
  /\ call = NoOp /\ phase = "idle" /\ done = 0
  /\ okFor = NoOwner

FileCall ==
  \E o \in Owners :
    \/ \E at \in 0 .. MaxLength - 1, end \in 1 .. MaxLength, value \in Values :
         at < end /\ WriteFileAt(o, at, end, value)
    \/ TruncateSame(o)
    \/ \E length \in 0 .. MaxLength :
         TruncateLonger(o, length) \/ TruncateShorter(o, length)
    \/ RemoveFile(o)

FileStep ==
  \/ Extend \/ Adopt \/ PersistFirst \/ WriteZeros \/ WriteFileDataAt
  \/ PersistLength \/ PersistShorter \/ TruncateChain \/ DeleteEntry \/ FreeRemoved

FileNext == FileCall \/ FileStep \/ Abort \/ RemountVolume

FileSpec == FileInit /\ [][FileNext]_fileVars

(***************************************************************************)
(* The contents promised by FileStore, with the calls read as its ops.     *)
(***************************************************************************)
Store == INSTANCE FileStore WITH
  Files <- Owners, Values <- Values, NoOp <- NoOp,
  view <- [o \in Owners |-> HandleView(o)],
  disk <- [o \in Owners |-> DiskView(o)],
  op   <- call

(* Reads never show a byte that no call put in the file, whatever is       *)
(* interrupted: growth is zeroes and data, the rest is as it was.          *)
StoreRefined == Store!StoreSpec

(* What FatChains shows of the chains holds for the chains of files.       *)
ChainsRefined == Spec

-----------------------------------------------------------------------------
BytesOK == data \in [Clusters -> [0 .. ClusterSize - 1 -> Values \cup {Zero, Stale}]]

FileTypeOK ==
  /\ TypeOK
  /\ BytesOK
  /\ hlen \in [Owners -> 0 .. MaxLength]
  /\ dlen \in [Owners -> 0 .. MaxLength]
  /\ phase \in Phases
  /\ call = NoOp <=> phase = "idle"
  /\ done \in 0 .. MaxLength
  /\ okFor \in Owners \cup {NoOwner}

(* Between its device writes a call knows its range, and how far it is:    *)
(* the gap ends where the data begins, and the data where the range ends.  *)
CallTyped ==
  call \in [file : Owners, kind : {"write", "truncate"}, at : 0 .. MaxLength,
            end : 0 .. MaxLength, value : Values \cup {Zero}]
CallProgress ==
  /\ phase # "idle" => CallTyped
  /\ phase \in {"extend", "first", "fill", "data", "final"} =>
       IF call.kind = "write" THEN call.at < call.end ELSE call.at = call.end
  /\ phase \in {"extend", "shrink", "remove"} => owner = call.file
  /\ phase \in {"extend", "first"} /\ call.kind = "truncate" =>
       hlen[call.file] < call.at
  /\ phase = "fill" => done < call.at
  /\ phase = "data" => call.kind = "write" /\ done < call.end

FileInv == FileTypeOK /\ CallProgress

(* The chain from a cluster takes so many bytes.                           *)
Holds(first, length) ==
  length > 0 => ClusterOf(first, (length - 1) \div ClusterSize) # NoCluster

(* Chain lengths keep up with file sizes at every device write: an entry   *)
(* never records more bytes than its chain holds.                          *)
LengthCovered ==
  \A o \in Owners : Holds(entryFirst[o], dlen[o]) /\ Holds(held[o], hlen[o])

(* Why: which routine of FatChains runs in which phase, how many clusters  *)
(* it was asked for, and how many the call knows to be there.              *)
RoutineInv ==
  /\ phase \in {"idle", "first", "fill", "data", "final"} <=> pc = "idle"
  /\ phase = "extend" =>
       pc \in {"length", "mark", "clear", "link", "adopt"} /\ need = Required(call.end)
  /\ phase = "shrink" =>
       /\ pc \in {"shrink", "seek", "cut", "free"}
       /\ pc # "free" => need = Required(hlen[owner])
       /\ pc \in {"seek", "cut"} => entryFirst[owner] = head /\ dlen[owner] = hlen[owner]
  /\ phase = "remove" => pc \in {"unlink", "free"} /\ (pc = "unlink" => hlen[owner] = 0)

PlaceInv ==
  /\ pc \in {"length", "seek"} => count # 0 /\ cur = ClusterOf(head, count - 1)
  /\ pc = "seek" => count <= need
  /\ pc = "cut" => tail = ClusterOf(head, need - 1)
  /\ pc \in {"mark", "clear", "link", "adopt"} /\ tail # NoCluster =>
       count # 0 /\ tail = ClusterOf(head, count - 1)
  /\ pc \in {"link", "adopt"} => tail # NoCluster
  /\ pc = "adopt" => need <= count

CallCovered ==
  phase \in {"first", "fill", "data"} => Holds(held[call.file], call.end)

ExtentInv == LengthCovered /\ PlaceInv /\ CallCovered

(* What write_zeros and write_file_data_at have put behind them, up to the *)
(* next byte: zeroes in the gap, the bytes of the call in its range.       *)
WrittenInv ==
  phase \in {"fill", "data"} =>
    LET f == call.file
        bytes == ReadFile(held[f], done)
    IN  /\ done >= IF phase = "fill" THEN hlen[f] ELSE call.at
        /\ \A i \in 1 .. done : /\ hlen[f] < i /\ i <= call.at => bytes[i] = Zero
                                /\ call.at < i => bytes[i] = call.value

(* Calls ask for the bytes of the application and for zeroes.              *)
WantOK == want \in [Owners -> Seq(Values \cup {Zero})]

(* As long as nothing failed, a file shows what was asked for, or is going *)
(* to when the running call has written its range; and its entry lags its  *)
(* handle only until the next persist_file_info.                           *)
ContentsInv ==
  ~ failed => \A o \in Owners :
    /\ want[o] = IF o = call.file /\ phase \in {"extend", "first", "fill", "data"}
                   THEN Written(HandleView(o), call.at, call.end, call.value)
                   ELSE HandleView(o)
    /\ \/ entryFirst[o] = held[o] /\ dlen[o] = hlen[o]
       \/ o = call.file /\ (phase \in {"first", "final"} \/ pc \in {"shrink", "unlink"})

StoreInv == FileInv /\ WantOK /\ RoutineInv /\ ExtentInv /\ WrittenInv /\ ContentsInv

(* As long as nothing failed, the files hold what the calls asked for,     *)
(* through the handles and on the disk.                                    *)
CallsDoWhatTheyAsk ==
  phase = "idle" /\ ~ failed =>
    \A o \in Owners : HandleView(o) = want[o] /\ DiskView(o) = want[o]

(* A call that returned Ok is durable: a remount would show the same file. *)
OkIsDurable == okFor # NoOwner => DiskView(okFor) = HandleView(okFor)
=============================================================================
