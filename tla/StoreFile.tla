----------------------------- MODULE StoreFile ------------------------------
(***************************************************************************)
(* SaveStore (internal/vault/secrets.go) as the file system sees it: open  *)
(* secrets.enc.tmp, write, fsync, rename over secrets.enc.  Every process  *)
(* uses the one temporary name.  A step may fail, the process may be       *)
(* killed at any step, and the power may go.                               *)
(*                                                                         *)
(* A file is an inode: a name of the directory points to it, an open       *)
(* descriptor keeps pointing to it after the name has gone or moved on.    *)
(* What is written sits in memory until fsync or the kernel's own write-   *)
(* back; so do changes of the directory.  Content is a sequence of blocks, *)
(* each tagged with the save that wrote it: save v writes sizes[v] blocks. *)
(***************************************************************************)
EXTENDS Naturals, Sequences

CONSTANTS Writer,    \* processes that save the store
          Inode,
          NoInode,   \* a name that is not in the directory
          MaxSize,   \* bound: blocks of a store
          MaxSaves   \* bound: saves begun

ASSUME InodeAssumption == NoInode \notin Inode
ASSUME LimitAssumption == MaxSize \in Nat \ {0} /\ MaxSaves \in Nat

VARIABLES names,   \* names[f]: the inode of file f, in memory
          data,    \* data[i]: the content of inode i, in memory
          onDisk,  \* the two of them as the disk has them
          step,    \* step[w]: how far w's SaveStore has got
          open,    \* open[w]: the inode w has open
          saving,  \* saving[w]: the save w is working on
          sizes    \* sizes[v]: the blocks of save v

files == <<names, data>>
vars  == <<files, onDisk, step, open, saving, sizes>>

File == {"store", "tmp"}
Step == {"idle", "opened", "written", "synced"}
Save == 0..MaxSaves
Content == {s \in Seq(Save) : Len(s) <= MaxSize}

(* The store a save leaves; save 0 is the store found at the start.        *)
Marshalled(v) == [b \in 1..sizes[v + 1] |-> v]

TypeOK ==
  /\ names \in [File -> Inode \cup {NoInode}]
  /\ data \in [Inode -> Content]
  /\ onDisk \in [names : [File -> Inode \cup {NoInode}], data : [Inode -> Content]]
  /\ step \in [Writer -> Step]
  /\ open \in [Writer -> Inode \cup {NoInode}]
  /\ saving \in [Writer -> Save]
  /\ sizes \in Seq(1..MaxSize) /\ Len(sizes) \in 1..MaxSaves + 1
  /\ \A w \in Writer : step[w] = "idle" <=> open[w] = NoInode

Init ==
  /\ \E i \in Inode, n \in 1..MaxSize :
       /\ sizes = <<n>>
       /\ names = [f \in File |-> IF f = "store" THEN i ELSE NoInode]
       /\ data = [j \in Inode |-> IF j = i THEN [b \in 1..n |-> 0] ELSE <<>>]
  /\ onDisk = [names |-> names, data |-> data]
  /\ step = [w \in Writer |-> "idle"]
  /\ open = [w \in Writer |-> NoInode]
  /\ saving = [w \in Writer |-> 0]

-----------------------------------------------------------------------------
InUse == {names[f] : f \in File} \cup {onDisk.names[f] : f \in File}
         \cup {open[w] : w \in Writer}

(* OpenFile with O_CREATE and O_TRUNC: a temporary file that is there, one *)
(* left over or another writer's, is emptied and used.                     *)
NotTruncated(content) == content
Truncated(content) == <<>>
Open(w) ==
  /\ step[w] = "idle"
  /\ Len(sizes) <= MaxSaves
  /\ \E n \in 1..MaxSize : sizes' = Append(sizes, n)
  /\ saving' = [saving EXCEPT ![w] = Len(sizes)]
  /\ \E i \in Inode :
       /\ \/ /\ names["tmp"] = NoInode
             /\ i \notin InUse
             /\ data' = [data EXCEPT ![i] = <<>>]
          \/ /\ names["tmp"] = i
             /\ data' = [data EXCEPT ![i] = Truncated(@)]
       /\ names' = [names EXCEPT !["tmp"] = i]
       /\ open' = [open EXCEPT ![w] = i]
  /\ step' = [step EXCEPT ![w] = "opened"]
  /\ UNCHANGED onDisk

(* A write at the start of a file leaves what lies beyond it.              *)
Overwrite(old, new) == new \o SubSeq(old, Len(new) + 1, Len(old))

Write(w) ==
  /\ step[w] = "opened"
  /\ data' = [data EXCEPT ![open[w]] = Overwrite(@, Marshalled(saving[w]))]
  /\ step' = [step EXCEPT ![w] = "written"]
  /\ UNCHANGED <<names, onDisk, open, saving, sizes>>

(* fsync, then close: the content is on the disk, the name need not be.    *)
SyncLater(w) ==
  /\ step[w] = "written"
  /\ step' = [step EXCEPT ![w] = "synced"]
  /\ UNCHANGED <<files, onDisk, open, saving, sizes>>
Sync(w) ==
  /\ step[w] = "written"
  /\ onDisk' = [onDisk EXCEPT !.data[open[w]] = data[open[w]]]
  /\ step' = [step EXCEPT ![w] = "synced"]
  /\ UNCHANGED <<files, open, saving, sizes>>

FinishLeaking(w) ==
  /\ step' = [step EXCEPT ![w] = "idle"]
  /\ saving' = [saving EXCEPT ![w] = 0]
  /\ UNCHANGED <<open, sizes>>
Finish(w) ==
  /\ step' = [step EXCEPT ![w] = "idle"]
  /\ open' = [open EXCEPT ![w] = NoInode]
  /\ saving' = [saving EXCEPT ![w] = 0]
  /\ UNCHANGED sizes

Rename(w) ==
  /\ step[w] = "synced"
  /\ names["tmp"] # NoInode
  /\ names' = [store |-> names["tmp"], tmp |-> NoInode]
  /\ Finish(w)
  /\ UNCHANGED <<data, onDisk>>

(* A step that fails makes SaveStore remove the temporary file and return  *)
(* the error; so does a rename that finds it gone.  A write may fail with  *)
(* part of the store written.                                              *)
PartOf(w) == \E n \in 0..sizes[saving[w] + 1] :
  data' = [data EXCEPT ![open[w]] = Overwrite(@, SubSeq(Marshalled(saving[w]), 1, n))]
Fail(w) ==
  /\ step[w] # "idle"
  /\ names' = [names EXCEPT !["tmp"] = NoInode]
  /\ IF step[w] = "opened" THEN PartOf(w) ELSE UNCHANGED data
  /\ Finish(w)
  /\ UNCHANGED onDisk

(* The process is killed: the temporary file stays.                        *)
Kill(w) ==
  /\ step[w] # "idle"
  /\ IF step[w] = "opened" THEN PartOf(w) ELSE UNCHANGED data
  /\ Finish(w)
  /\ UNCHANGED <<names, onDisk>>

(* The kernel writes back one file's content, or the directory, when it    *)
(* likes; a rename reaches the disk in one piece.                          *)
WriteBack ==
  /\ \/ \E i \in Inode : onDisk' = [onDisk EXCEPT !.data[i] = data[i]]
     \/ onDisk' = [onDisk EXCEPT !.names = names]
  /\ UNCHANGED <<files, step, open, saving, sizes>>

PowerLoss ==
  /\ names' = onDisk.names
  /\ data' = onDisk.data
  /\ step' = [w \in Writer |-> "idle"]
  /\ open' = [w \in Writer |-> NoInode]
  /\ saving' = [w \in Writer |-> 0]
  /\ UNCHANGED <<onDisk, sizes>>

Next ==
  \/ \E w \in Writer : \/ Open(w) \/ Write(w) \/ Sync(w) \/ Rename(w)
                       \/ Fail(w) \/ Kill(w)
  \/ WriteBack
  \/ PowerLoss

Spec == Init /\ [][Next]_vars

-----------------------------------------------------------------------------
(* secrets.enc is at every moment, for every reader, and on the disk, a    *)
(* whole store that some save wrote, also when saves are cut short by an   *)
(* error, a kill or a power loss.                                          *)
WholeStore(content) == \E v \in 0..Len(sizes) - 1 : content = Marshalled(v)
StoreIsWhole ==
  /\ WholeStore(data[names["store"]])
  /\ WholeStore(onDisk.data[onDisk.names["store"]])

(* SaveStore replaces the store atomically, as AtomicStore puts it.        *)
Version(content) == IF content = <<>> THEN 0 ELSE content[1]
TheSave == IF \E w \in Writer : saving[w] # 0
           THEN saving[CHOOSE w \in Writer : saving[w] # 0] ELSE 0
Atomic == INSTANCE AtomicStore WITH
  current <- Version(data[names["store"]]),
  durable <- Version(onDisk.data[onDisk.names["store"]]),
  pending <- TheSave
SavesAtomically == Atomic!Spec
=============================================================================
