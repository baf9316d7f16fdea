-------------------------- MODULE StoreFileProofs ---------------------------
(***************************************************************************)
(* What StoreFile guarantees for every store size, number of saves and     *)
(* directory of inodes.                                                    *)
(***************************************************************************)
EXTENDS StoreFile, SequenceTheorems, TLAPS

-----------------------------------------------------------------------------
(* Contents.                                                               *)

LEMMA MarshalledType ==
  ASSUME TypeOK, NEW v \in 0..Len(sizes) - 1
  PROVE  /\ Marshalled(v) \in Content
         /\ Len(Marshalled(v)) = sizes[v + 1]
         /\ sizes[v + 1] \in 1..MaxSize
         /\ Marshalled(v)[1] = v
         /\ Marshalled(v) # <<>>
<1> USE LimitAssumption
<1>1. Len(sizes) \in 1..MaxSaves + 1 /\ v + 1 \in 1..Len(sizes) /\ v \in Save
  BY DEF TypeOK, Save
<1>2. sizes[v + 1] \in 1..MaxSize
  BY <1>1, ElementOfSeq DEF TypeOK
<1>3. Marshalled(v) \in Seq(Save) /\ Len(Marshalled(v)) = sizes[v + 1]
  <2>1. Marshalled(v) \in [1..sizes[v + 1] -> Save]
    BY <1>1 DEF Marshalled
  <2> QED
    BY <1>2, <2>1, SeqDef
<1>4. 1 \in 1..sizes[v + 1]
  BY <1>2
<1>5. Marshalled(v)[1] = v
  BY <1>4 DEF Marshalled
<1> QED
  BY <1>2, <1>3, <1>5 DEF Content

LEMMA OverwriteType ==
  ASSUME NEW old \in Content, NEW new \in Content
  PROVE  Overwrite(old, new) \in Content
<1> USE LimitAssumption
<1>1. /\ old \in Seq(Save) /\ Len(old) \in Nat /\ Len(old) <= MaxSize
      /\ new \in Seq(Save) /\ Len(new) \in Nat /\ Len(new) <= MaxSize
  BY LenProperties DEF Content
<1> DEFINE rest == SubSeq(old, Len(new) + 1, Len(old))
<1>2. /\ rest \in Seq(Save)
      /\ Len(rest) = IF Len(new) + 1 <= Len(old) THEN Len(old) - (Len(new) + 1) + 1 ELSE 0
  <2>1. \A k \in Len(new) + 1 .. Len(old) : old[k] \in Save
    BY <1>1, ElementOfSeq
  <2> QED
    BY <1>1, <2>1, SubSeqProperties
<1> HIDE DEF rest
<1>3. new \o rest \in Seq(Save) /\ Len(new \o rest) = Len(new) + Len(rest)
  BY <1>1, <1>2, ConcatProperties
<1>4. new \o rest \in Content
  BY <1>1, <1>2, <1>3 DEF Content
<1> QED
  BY <1>4 DEF Overwrite, rest

LEMMA OverwriteEmpty ==
  ASSUME NEW new \in Content
  PROVE  Overwrite(<<>>, new) = new
<1>1. new \in Seq(Save) /\ Len(new) \in Nat /\ Len(<<>>) = 0
  BY LenProperties, EmptySeq DEF Content
<1>2. SubSeq(<<>>, Len(new) + 1, Len(<<>>)) = <<>>
  BY <1>1, SubSeqEmpty
<1> QED
  BY <1>1, <1>2, ConcatEmptySeq DEF Overwrite

LEMMA SameSizes ==
  ASSUME UNCHANGED sizes
  PROVE  /\ \A v : Marshalled(v)' = Marshalled(v)
         /\ \A content : WholeStore(content)' <=> WholeStore(content)
<1>1. \A v : Marshalled(v)' = Marshalled(v)
  BY DEF Marshalled
<1> QED
  BY <1>1 DEF WholeStore

(* A save that begins leaves the sizes of the earlier ones.                *)
LEMMA BeginSizes ==
  ASSUME TypeOK, NEW n \in 1..MaxSize, sizes' = Append(sizes, n), Len(sizes) <= MaxSaves
  PROVE  /\ sizes' \in Seq(1..MaxSize)
         /\ Len(sizes') = Len(sizes) + 1
         /\ Len(sizes') \in 1..MaxSaves + 1
         /\ \A v \in 0..Len(sizes) - 1 : Marshalled(v)' = Marshalled(v)
<1> USE LimitAssumption
<1>1. /\ sizes' \in Seq(1..MaxSize)
      /\ Len(sizes') = Len(sizes) + 1
      /\ \A k \in 1..Len(sizes) : sizes'[k] = sizes[k]
  BY AppendProperties DEF TypeOK
<1>2. \A v \in 0..Len(sizes) - 1 : Marshalled(v)' = Marshalled(v)
  BY <1>1 DEF Marshalled, TypeOK
<1> QED
  BY <1>1, <1>2 DEF TypeOK

-----------------------------------------------------------------------------
(* A save is under way exactly while its writer is.                        *)
SavingKept ==
  \A w \in Writer : /\ step[w] # "idle" => saving[w] \in 1..Len(sizes) - 1
                    /\ step[w] = "idle" => saving[w] = 0
Sound == TypeOK /\ SavingKept

LEMMA PartType ==
  ASSUME Sound, NEW w \in Writer, step[w] # "idle", NEW n \in 0..sizes[saving[w] + 1]
  PROVE  SubSeq(Marshalled(saving[w]), 1, n) \in Content
<1> DEFINE m == Marshalled(saving[w])
<1>1. saving[w] \in 0..Len(sizes) - 1
  BY DEF Sound, SavingKept, TypeOK
<1>2. m \in Seq(Save) /\ Len(m) = sizes[saving[w] + 1] /\ Len(m) \in 1..MaxSize
  BY <1>1, MarshalledType DEF Sound, Content
<1> HIDE DEF m
<1>3. n \in 0..Len(m)
  BY <1>2
<1>4. \A k \in 1..n : m[k] \in Save
  BY <1>2, <1>3, ElementOfSeq, LimitAssumption
<1>5. SubSeq(m, 1, n) \in Seq(Save) /\ Len(SubSeq(m, 1, n)) = IF 1 <= n THEN n - 1 + 1 ELSE 0
  BY <1>2, <1>3, <1>4, SubSeqProperties, LimitAssumption
<1>6. SubSeq(m, 1, n) \in Content
  BY <1>2, <1>3, <1>5, LimitAssumption DEF Content
<1> QED
  BY <1>6 DEF m

LEMMA SoundInit == Init => Sound
<1> SUFFICES ASSUME Init PROVE Sound
  OBVIOUS
<1> USE LimitAssumption, InodeAssumption
<1>1. PICK i \in Inode, n \in 1..MaxSize :
        /\ sizes = <<n>>
        /\ names = [f \in File |-> IF f = "store" THEN i ELSE NoInode]
        /\ data = [j \in Inode |-> IF j = i THEN [b \in 1..n |-> 0] ELSE <<>>]
  BY DEF Init
<1>2. [b \in 1..n |-> 0] \in Content
  <2>1. [b \in 1..n |-> 0] \in [1..n -> Save]
    BY DEF Save
  <2>2. [b \in 1..n |-> 0] \in Seq(Save) /\ Len([b \in 1..n |-> 0]) = n
    BY <2>1, SeqDef
  <2> QED
    BY <2>2 DEF Content
<1>3. <<>> \in Content
  BY EmptySeq DEF Content
<1>4. sizes \in Seq(1..MaxSize) /\ Len(sizes) = 1
  BY <1>1
<1>5. TypeOK
  BY <1>1, <1>2, <1>3, <1>4 DEF Init, TypeOK, Step, Save
<1> QED
  BY <1>5 DEF Sound, SavingKept, Init

LEMMA SoundNext == Sound /\ [Next]_vars => Sound'
<1> SUFFICES ASSUME Sound, [Next]_vars PROVE Sound'
  OBVIOUS
<1> USE LimitAssumption, InodeAssumption
<1>1. ASSUME NEW w \in Writer, Open(w) PROVE Sound'
  <2>1. PICK n \in 1..MaxSize : sizes' = Append(sizes, n)
    BY <1>1 DEF Open
  <2>2. /\ sizes' \in Seq(1..MaxSize)
        /\ Len(sizes') = Len(sizes) + 1
        /\ Len(sizes') \in 1..MaxSaves + 1
    BY <1>1, <2>1, BeginSizes DEF Open, Sound
  <2>3. <<>> \in Content
    BY EmptySeq DEF Content
  <2>4. PICK i \in Inode :
          /\ \/ data' = [data EXCEPT ![i] = <<>>]
             \/ data' = [data EXCEPT ![i] = Truncated(@)]
          /\ names' = [names EXCEPT !["tmp"] = i]
          /\ open' = [open EXCEPT ![w] = i]
    BY <1>1 DEF Open
  <2>5. data' \in [Inode -> Content] /\ names' \in [File -> Inode \cup {NoInode}]
    <3>1. data' = [data EXCEPT ![i] = <<>>]
      BY <2>4 DEF Truncated
    <3>2. data \in [Inode -> Content] /\ names \in [File -> Inode \cup {NoInode}]
      BY DEF Sound, TypeOK
    <3> QED
      BY <2>3, <2>4, <3>1, <3>2
  <2>6. /\ step' = [step EXCEPT ![w] = "opened"] /\ onDisk' = onDisk
        /\ saving' = [saving EXCEPT ![w] = Len(sizes)]
        /\ Len(sizes) \in 1..MaxSaves
    BY <1>1 DEF Open, Sound, TypeOK
  <2>7. TypeOK'
    BY <2>2, <2>4, <2>5, <2>6 DEF Sound, TypeOK, Step, Save
  <2> QED
    BY <2>2, <2>6, <2>7 DEF Sound, SavingKept, TypeOK
<1>2. ASSUME NEW w \in Writer, Write(w) PROVE Sound'
  <2>1. Marshalled(saving[w]) \in Content
    BY <1>2, MarshalledType DEF Write, Sound, SavingKept, TypeOK
  <2>2. open[w] \in Inode
    BY <1>2 DEF Write, Sound, TypeOK
  <2>3. Overwrite(data[open[w]], Marshalled(saving[w])) \in Content
    BY <2>1, <2>2, OverwriteType DEF Sound, TypeOK
  <2>4. data' \in [Inode -> Content]
    BY <1>2, <2>3 DEF Write, Sound, TypeOK
  <2> QED
    BY <1>2, <2>4 DEF Write, Sound, SavingKept, TypeOK, Step
<1>3. ASSUME NEW w \in Writer, Sync(w) PROVE Sound'
  BY <1>3 DEF Sync, files, Sound, SavingKept, TypeOK, Step
<1>4. ASSUME NEW w \in Writer, Finish(w), onDisk' = onDisk, data' \in [Inode -> Content],
             names' \in [File -> Inode \cup {NoInode}]
      PROVE Sound'
  BY <1>4 DEF Finish, Sound, SavingKept, TypeOK, Step, Save
<1>5. ASSUME NEW w \in Writer, step[w] # "idle", PartOf(w) PROVE data' \in [Inode -> Content]
  <2>1. PICK n \in 0..sizes[saving[w] + 1] :
          data' = [data EXCEPT ![open[w]] = Overwrite(@, SubSeq(Marshalled(saving[w]), 1, n))]
    BY <1>5 DEF PartOf
  <2>2. SubSeq(Marshalled(saving[w]), 1, n) \in Content
    BY <1>5, PartType
  <2>3. open[w] \in Inode /\ data[open[w]] \in Content
    BY <1>5 DEF Sound, TypeOK
  <2>4. Overwrite(data[open[w]], SubSeq(Marshalled(saving[w]), 1, n)) \in Content
    BY <2>2, <2>3, OverwriteType
  <2> QED
    BY <2>1, <2>4 DEF Sound, TypeOK
<1>6. ASSUME NEW w \in Writer, Rename(w) PROVE Sound'
  <2>1. names' \in [File -> Inode \cup {NoInode}]
    BY <1>6 DEF Rename, File, Sound, TypeOK
  <2> QED
    BY <1>4, <1>6, <2>1 DEF Rename, Sound, TypeOK
<1>7. ASSUME NEW w \in Writer, Fail(w) PROVE Sound'
  <2>1. data' \in [Inode -> Content]
    BY <1>5, <1>7 DEF Fail, Sound, TypeOK
  <2> QED
    BY <1>4, <1>7, <2>1 DEF Fail, Sound, TypeOK
<1>8. ASSUME NEW w \in Writer, Kill(w) PROVE Sound'
  <2>1. data' \in [Inode -> Content]
    BY <1>5, <1>8 DEF Kill, Sound, TypeOK
  <2> QED
    BY <1>4, <1>8, <2>1 DEF Kill, Sound, TypeOK
<1>9. CASE WriteBack
  BY <1>9 DEF WriteBack, files, Sound, SavingKept, TypeOK
<1>10. CASE PowerLoss
  BY <1>10 DEF PowerLoss, Sound, SavingKept, TypeOK, Step, Save
<1>11. CASE UNCHANGED vars
  BY <1>11 DEF vars, files, Sound, SavingKept, TypeOK
<1> QED
  BY <1>1, <1>2, <1>3, <1>6, <1>7, <1>8, <1>9, <1>10, <1>11 DEF Next

(* The variables of SaveStore stay in their types, for every number of     *)
(* processes that save at once.                                            *)
THEOREM TypeOKThm == Spec => []TypeOK
<1>1. Sound => TypeOK
  BY DEF Sound
<1> QED
  BY SoundInit, SoundNext, <1>1, PTL DEF Spec

-----------------------------------------------------------------------------
(* One process saves at a time.  The stores -- the inode secrets.enc names *)
(* and the one it names on the disk -- are then never the file being       *)
(* written, and their content is on the disk.                              *)
OneWriter == \A v, w \in Writer : v = w

Stores == {names["store"], onDisk.names["store"]}
TmpApart ==
  /\ Stores \subseteq Inode
  /\ names["tmp"] \notin Stores
  /\ onDisk.names["tmp"] # onDisk.names["store"]
TmpOpen == \A w \in Writer : step[w] # "idle" => open[w] = names["tmp"]
StoresSettled ==
  \A i \in Stores : data[i] = onDisk.data[i] /\ WholeStore(data[i])
Progress ==
  \A w \in Writer :
    /\ step[w] = "opened" => data[open[w]] = <<>>
    /\ step[w] \in {"written", "synced"} => data[open[w]] = Marshalled(saving[w])
    /\ step[w] = "synced" => onDisk.data[open[w]] = data[open[w]]
IInv == Sound /\ TmpApart /\ TmpOpen /\ StoresSettled /\ Progress

LEMMA IInvInit == Init => IInv
<1> SUFFICES ASSUME Init PROVE IInv
  OBVIOUS
<1>1. Sound
  BY SoundInit
<1>2. PICK i \in Inode, n \in 1..MaxSize :
        /\ sizes = <<n>>
        /\ names = [f \in File |-> IF f = "store" THEN i ELSE NoInode]
        /\ data = [j \in Inode |-> IF j = i THEN [b \in 1..n |-> 0] ELSE <<>>]
  BY DEF Init
<1>3. onDisk.names = names /\ onDisk.data = data
  BY DEF Init
<1>4. names["store"] = i /\ names["tmp"] = NoInode
  BY <1>2 DEF File
<1>5. TmpApart
  BY <1>3, <1>4, InodeAssumption DEF TmpApart, Stores
<1>6. TmpOpen /\ Progress
  BY DEF Init, TmpOpen, Progress
<1>7. data[i] = Marshalled(0) /\ Len(sizes) = 1
  BY <1>2 DEF Marshalled
<1>8. StoresSettled
  BY <1>3, <1>4, <1>7 DEF StoresSettled, Stores, WholeStore
<1> QED
  BY <1>1, <1>5, <1>6, <1>8 DEF IInv

LEMMA IInvNext == OneWriter /\ IInv /\ [Next]_vars => IInv'
<1> SUFFICES ASSUME OneWriter, IInv, [Next]_vars PROVE IInv'
  OBVIOUS
<1> USE InodeAssumption, LimitAssumption
<1>0. Sound'
  BY SoundNext DEF IInv
<1>t. /\ names \in [File -> Inode \cup {NoInode}] /\ data \in [Inode -> Content]
      /\ onDisk \in [names : [File -> Inode \cup {NoInode}], data : [Inode -> Content]]
      /\ open \in [Writer -> Inode \cup {NoInode}] /\ step \in [Writer -> Step]
      /\ saving \in [Writer -> Save]
      /\ \A w \in Writer : step[w] # "idle" => open[w] \in Inode
      /\ Len(sizes) \in Nat
  BY DEF IInv, Sound, TypeOK
<1>1. ASSUME NEW w \in Writer, Open(w) PROVE IInv'
  <2>1. PICK n \in 1..MaxSize : sizes' = Append(sizes, n)
    BY <1>1 DEF Open
  <2>2. /\ Len(sizes') = Len(sizes) + 1
        /\ \A v \in 0..Len(sizes) - 1 : Marshalled(v)' = Marshalled(v)
    BY <1>1, <2>1, BeginSizes DEF Open, IInv, Sound
  <2>3. PICK i \in Inode :
          /\ i \notin Stores
          /\ data' = [data EXCEPT ![i] = <<>>]
          /\ names' = [names EXCEPT !["tmp"] = i]
          /\ open' = [open EXCEPT ![w] = i]
    BY <1>1 DEF Open, Truncated, InUse, File, Stores, IInv, TmpApart
  <2>4. /\ onDisk' = onDisk /\ step' = [step EXCEPT ![w] = "opened"]
        /\ Stores' = Stores
    BY <1>1, <1>t, <2>3 DEF Open, Stores, File
  <2>5. TmpApart'
    BY <1>t, <2>3, <2>4 DEF IInv, TmpApart, File
  <2>6. TmpOpen' /\ Progress'
    BY <1>t, <2>3, <2>4 DEF OneWriter, TmpOpen, Progress, File
  <2>7. \A v : WholeStore(v) => WholeStore(v)'
    BY <1>t, <2>2 DEF WholeStore
  <2>8. StoresSettled'
    BY <1>t, <2>3, <2>4, <2>7 DEF IInv, TmpApart, StoresSettled, WholeStore
  <2> QED
    BY <1>0, <2>5, <2>6, <2>8 DEF IInv
<1>2. ASSUME NEW w \in Writer, Write(w) PROVE IInv'
  <2>1. data[open[w]] = <<>> /\ open[w] \in Inode /\ open[w] \notin Stores
    BY <1>2, <1>t DEF Write, IInv, Progress, TmpOpen, TmpApart
  <2>2. Overwrite(<<>>, Marshalled(saving[w])) = Marshalled(saving[w])
    BY <1>2, MarshalledType, OverwriteEmpty DEF Write, IInv, Sound, SavingKept, TypeOK
  <2>3. data' = [data EXCEPT ![open[w]] = Marshalled(saving[w])]
    BY <1>2, <2>1, <2>2 DEF Write
  <2>4. /\ step' = [step EXCEPT ![w] = "written"]
        /\ UNCHANGED <<names, onDisk, open, saving, sizes, Stores>>
        /\ Marshalled(saving[w])' = Marshalled(saving[w])
    BY <1>2 DEF Write, Stores, Marshalled
  <2>5. TmpApart' /\ TmpOpen'
    BY <1>2, <1>t, <2>4 DEF Write, IInv, TmpApart, TmpOpen
  <2>6. Progress'
    BY <1>t, <2>1, <2>3, <2>4 DEF OneWriter, Progress
  <2>7. StoresSettled'
    BY <1>t, <2>1, <2>3, <2>4 DEF IInv, TmpApart, StoresSettled, WholeStore, Marshalled
  <2> QED
    BY <1>0, <2>5, <2>6, <2>7 DEF IInv
<1>3. ASSUME NEW w \in Writer, Sync(w) PROVE IInv'
  <2>1. open[w] \in Inode /\ open[w] \notin Stores
    BY <1>3, <1>t DEF Sync, IInv, TmpOpen, TmpApart
  <2>2. /\ onDisk'.names = onDisk.names
        /\ onDisk'.data = [onDisk.data EXCEPT ![open[w]] = data[open[w]]]
    BY <1>3, <1>t DEF Sync
  <2>3. /\ step' = [step EXCEPT ![w] = "synced"]
        /\ UNCHANGED <<names, data, open, saving, sizes, Stores>>
        /\ Marshalled(saving[w])' = Marshalled(saving[w])
    BY <1>3, <2>2 DEF Sync, files, Stores, Marshalled
  <2>4. TmpApart' /\ TmpOpen'
    BY <1>3, <1>t, <2>2, <2>3 DEF Sync, IInv, TmpApart, TmpOpen
  <2>5. Progress'
    BY <1>3, <1>t, <2>1, <2>2, <2>3 DEF OneWriter, Progress, Sync, IInv
  <2>6. StoresSettled'
    BY <1>t, <2>1, <2>2, <2>3, ZenonT(60) DEF IInv, TmpApart, StoresSettled, WholeStore, Marshalled
  <2> QED
    BY <1>0, <2>4, <2>5, <2>6 DEF IInv
<1>4. ASSUME NEW w \in Writer, Rename(w) PROVE IInv'
  <2>1. /\ open[w] = names["tmp"] /\ open[w] \in Inode
        /\ data[open[w]] = Marshalled(saving[w])
        /\ onDisk.data[open[w]] = data[open[w]]
        /\ saving[w] \in 0..Len(sizes) - 1
    BY <1>4, <1>t DEF Rename, IInv, TmpOpen, Progress, Sound, SavingKept
  <2>2. /\ names'["store"] = open[w] /\ names'["tmp"] = NoInode
        /\ Stores' = {open[w], onDisk.names["store"]}
        /\ UNCHANGED <<data, onDisk, sizes>>
    BY <1>4, <2>1 DEF Rename, Finish, Stores
  <2>3. TmpApart'
    BY <1>t, <2>1, <2>2 DEF IInv, TmpApart, Stores
  <2>4. TmpOpen' /\ Progress'
    BY <1>4, <1>t DEF Rename, Finish, OneWriter, TmpOpen, Progress
  <2>5. WholeStore(data[open[w]])
    BY <2>1 DEF WholeStore
  <2>6. StoresSettled'
    BY <2>1, <2>2, <2>5, ZenonT(60) DEF IInv, StoresSettled, WholeStore, Marshalled, Stores
  <2> QED
    BY <1>0, <2>3, <2>4, <2>6 DEF IInv
<1>5. ASSUME NEW w \in Writer, Finish(w), onDisk' = onDisk,
             \A i \in Stores : data'[i] = data[i],
             names' = names \/ names' = [names EXCEPT !["tmp"] = NoInode]
      PROVE IInv'
  <2>1. names'["store"] = names["store"] /\ names'["tmp"] \in {names["tmp"], NoInode}
    BY <1>5, <1>t DEF File
  <2>2. Stores' = Stores /\ sizes' = sizes
    BY <1>5, <2>1 DEF Stores, Finish
  <2>3. TmpApart'
    BY <1>5, <2>1, <2>2 DEF IInv, TmpApart
  <2>4. TmpOpen' /\ Progress'
    BY <1>5, <1>t DEF Finish, OneWriter, TmpOpen, Progress
  <2>5. StoresSettled'
    BY <1>5, <2>2, SameSizes DEF IInv, StoresSettled
  <2> QED
    BY <1>0, <2>3, <2>4, <2>5 DEF IInv
<1>6. ASSUME NEW w \in Writer, step[w] # "idle", PartOf(w) \/ UNCHANGED data
      PROVE \A i \in Stores : data'[i] = data[i]
  BY <1>6, <1>t DEF PartOf, IInv, TmpOpen, TmpApart
<1>7. ASSUME NEW w \in Writer, Fail(w) PROVE IInv'
  BY <1>5, <1>6, <1>7 DEF Fail
<1>8. ASSUME NEW w \in Writer, Kill(w) PROVE IInv'
  BY <1>5, <1>6, <1>8 DEF Kill
<1>9. CASE WriteBack
  <2>1. UNCHANGED <<names, data, step, open, saving, sizes>>
    BY <1>9 DEF WriteBack, files
  <2>2. TmpOpen'
    BY <2>1 DEF IInv, TmpOpen
  <2>3. ASSUME NEW i \in Inode, onDisk' = [onDisk EXCEPT !.data[i] = data[i]] PROVE IInv'
    <3>1. onDisk'.names = onDisk.names /\ onDisk'.data = [onDisk.data EXCEPT ![i] = data[i]]
      BY <1>t, <2>3
    <3>2. Stores' = Stores
      BY <2>1, <3>1 DEF Stores
    <3>3. TmpApart'
      BY <2>1, <3>1, <3>2 DEF IInv, TmpApart
    <3>4. Progress'
      BY <1>t, <2>1, <3>1, SameSizes DEF IInv, Progress
    <3>5. StoresSettled'
      BY <1>t, <2>1, <3>1, <3>2, SameSizes DEF IInv, TmpApart, StoresSettled
    <3> QED
      BY <1>0, <2>2, <3>3, <3>4, <3>5 DEF IInv
  <2>4. ASSUME onDisk' = [onDisk EXCEPT !.names = names] PROVE IInv'
    <3>1. onDisk'.names = names /\ onDisk'.data = onDisk.data
      BY <1>t, <2>4
    <3>2. Stores' = {names["store"]}
      BY <2>1, <3>1 DEF Stores
    <3>3. TmpApart'
      BY <2>1, <3>1, <3>2 DEF IInv, TmpApart, Stores
    <3>4. Progress'
      BY <2>1, <3>1, SameSizes DEF IInv, Progress
    <3>5. StoresSettled'
      BY <2>1, <3>1, <3>2, SameSizes DEF IInv, StoresSettled, Stores
    <3> QED
      BY <1>0, <2>2, <3>3, <3>4, <3>5 DEF IInv
  <2> QED
    BY <1>9, <2>3, <2>4 DEF WriteBack
<1>10. CASE PowerLoss
  <2>1. /\ names' = onDisk.names /\ data' = onDisk.data /\ UNCHANGED <<onDisk, sizes>>
        /\ \A w \in Writer : step'[w] = "idle"
    BY <1>10 DEF PowerLoss
  <2>2. Stores' = {onDisk.names["store"]}
    BY <2>1 DEF Stores
  <2>3. TmpApart'
    BY <2>1, <2>2 DEF IInv, TmpApart, Stores
  <2>4. TmpOpen' /\ Progress'
    BY <2>1 DEF TmpOpen, Progress
  <2>5. StoresSettled'
    BY <2>1, <2>2, SameSizes DEF IInv, StoresSettled, Stores
  <2> QED
    BY <1>0, <2>3, <2>4, <2>5 DEF IInv
<1>11. CASE UNCHANGED vars
  <2>1. UNCHANGED <<names, data, onDisk, step, open, saving, sizes, Stores>>
    BY <1>11 DEF vars, files, Stores
  <2>2. TmpApart' /\ TmpOpen'
    BY <2>1 DEF IInv, TmpApart, TmpOpen
  <2>3. Progress'
    BY <2>1, SameSizes DEF IInv, Progress
  <2>4. StoresSettled'
    BY <2>1, SameSizes DEF IInv, StoresSettled
  <2> QED
    BY <1>0, <2>2, <2>3, <2>4 DEF IInv
<1> QED
  BY <1>1, <1>2, <1>3, <1>4, <1>7, <1>8, <1>9, <1>10, <1>11 DEF Next

(* With one writer, secrets.enc is always a whole store that some save     *)
(* wrote, in memory and on the disk, whatever fails, is killed or loses    *)
(* power (two writers break it: TLC shows how).                            *)
THEOREM StoreIsWholeThm ==
  ASSUME OneWriter
  PROVE  Spec => []StoreIsWhole
<1>1. IInv => StoreIsWhole
  BY DEF IInv, StoresSettled, Stores, StoreIsWhole
<1>2. IInv /\ [Next]_vars => IInv'
  BY IInvNext
<1> QED
  BY IInvInit, <1>1, <1>2, PTL DEF Spec

(* The save under way is the one writer's.                                 *)
LEMMA TheSaveIs ==
  ASSUME OneWriter, NEW w \in Writer
  PROVE  TheSave = saving[w]
BY DEF OneWriter, TheSave

(* What readers see, and what a power loss would leave.                    *)
Current == Version(data[names["store"]])
Durable == Version(onDisk.data[onDisk.names["store"]])

LEMMA StepRefines ==
  ASSUME OneWriter, IInv, IInv', [Next]_vars
  PROVE  [Atomic!Next]_(Atomic!vars)
<1>t. /\ names \in [File -> Inode \cup {NoInode}] /\ data \in [Inode -> Content]
      /\ onDisk \in [names : [File -> Inode \cup {NoInode}], data : [Inode -> Content]]
      /\ saving \in [Writer -> Save] /\ open \in [Writer -> Inode \cup {NoInode}]
      /\ step \in [Writer -> Step]
  BY DEF IInv, Sound, TypeOK
<1>u. \A w \in Writer : step[w] # "idle" => open[w] \in Inode \ Stores /\ saving[w] # 0
  BY <1>t, LimitAssumption, InodeAssumption
  DEF IInv, Sound, TypeOK, SavingKept, TmpOpen, TmpApart
<1>1. ASSUME NEW w \in Writer, Open(w) PROVE Atomic!Begin
  <2>1. PICK i \in Inode :
          /\ i \notin Stores
          /\ data' = [data EXCEPT ![i] = <<>>]
          /\ names' = [names EXCEPT !["tmp"] = i]
    BY <1>1 DEF Open, Truncated, InUse, File, Stores, IInv, TmpApart
  <2>2. Current' = Current /\ Durable' = Durable
    BY <1>1, <1>t, <2>1 DEF Open, Current, Durable, Stores
  <2>3. TheSave = saving[w] /\ TheSave' = saving'[w]
    BY TheSaveIs, <1>t DEF OneWriter, TheSave
  <2>4. TheSave = 0 /\ TheSave' \in Nat \ {0}
    BY <1>1, <1>t, <2>3 DEF Open, IInv, Sound, SavingKept, TypeOK
  <2> QED
    BY <2>2, <2>4 DEF Atomic!Begin, Current, Durable
<1>2. ASSUME NEW w \in Writer, Write(w) \/ Sync(w) PROVE UNCHANGED Atomic!vars
  <2>1. open[w] \in Inode \ Stores
    BY <1>2, <1>u DEF Write, Sync
  <2>2. Current' = Current
    <3>1. CASE Write(w)
      <4>1. data'[names["store"]] = data[names["store"]] /\ names' = names
        BY <1>t, <2>1, <3>1 DEF Write, Stores
      <4> QED
        BY <4>1 DEF Current
    <3>2. CASE Sync(w)
      BY <3>2 DEF Sync, files, Current
    <3> QED
      BY <1>2, <3>1, <3>2
  <2>3. Durable' = Durable
    <3>1. CASE Write(w)
      BY <3>1 DEF Write, Durable
    <3>2. CASE Sync(w)
      <4>1. /\ onDisk'.names = onDisk.names
            /\ onDisk'.data = [onDisk.data EXCEPT ![open[w]] = data[open[w]]]
        BY <3>2, <1>t DEF Sync
      <4> QED
        BY <1>t, <2>1, <4>1 DEF Durable, Stores
    <3> QED
      BY <1>2, <3>1, <3>2
  <2>4. TheSave' = TheSave
    BY <1>2 DEF Write, Sync, TheSave
  <2> QED
    BY <2>2, <2>3, <2>4 DEF Atomic!vars, Current, Durable
<1>3. ASSUME NEW w \in Writer, Rename(w) PROVE Atomic!Succeed
  <2>1. /\ open[w] = names["tmp"]
        /\ data[open[w]] = Marshalled(saving[w])
        /\ saving[w] \in 0..Len(sizes) - 1 /\ saving[w] # 0
    BY <1>3, <1>u DEF Rename, IInv, TmpOpen, Progress, Sound, SavingKept, TypeOK
  <2>2. Version(data[open[w]]) = saving[w]
    BY <2>1, MarshalledType DEF Version, IInv, Sound
  <2>3. Current' = saving[w] /\ Durable' = Durable
    BY <1>3, <2>1, <2>2 DEF Rename, Current, Durable
  <2>4. TheSave = saving[w] /\ TheSave' = 0
    BY <1>3, <1>t, TheSaveIs DEF Rename, Finish, OneWriter, TheSave
  <2> QED
    BY <2>1, <2>3, <2>4 DEF Atomic!Succeed, Current, Durable
<1>4. ASSUME NEW w \in Writer, Fail(w) \/ Kill(w) PROVE Atomic!GiveUp
  <2>1. open[w] \in Inode \ Stores /\ saving[w] # 0
    BY <1>4, <1>u DEF Fail, Kill
  <2>2. /\ names'["store"] = names["store"] /\ onDisk' = onDisk
        /\ \A i \in Stores : data'[i] = data[i]
    <3>1. names'["store"] = names["store"] /\ onDisk' = onDisk
      BY <1>4, <1>t DEF Fail, Kill, File
    <3>2. PartOf(w) \/ UNCHANGED data
      BY <1>4 DEF Fail, Kill
    <3>3. \A i \in Inode \ {open[w]} : data'[i] = data[i]
      BY <1>t, <3>2 DEF PartOf
    <3> QED
      BY <2>1, <3>1, <3>3 DEF IInv, TmpApart
  <2>3. Current' = Current /\ Durable' = Durable
    BY <2>2 DEF Current, Durable, Stores
  <2>4. TheSave # 0 /\ TheSave' = 0
    BY <1>4, <1>t, <2>1, TheSaveIs DEF Fail, Kill, Finish, OneWriter, TheSave
  <2> QED
    BY <2>3, <2>4 DEF Atomic!GiveUp, Current, Durable
<1>5. CASE WriteBack
  <2>1. UNCHANGED <<names, data, saving>>
    BY <1>5 DEF WriteBack, files
  <2>2. Current' = Current /\ TheSave' = TheSave
    BY <2>1 DEF Current, TheSave
  <2>3. Durable' = Durable \/ Durable' = Current
    <3>1. ASSUME NEW i \in Inode, onDisk' = [onDisk EXCEPT !.data[i] = data[i]]
          PROVE  Durable' = Durable
      <4>1. onDisk'.names = onDisk.names /\ onDisk'.data = [onDisk.data EXCEPT ![i] = data[i]]
        BY <1>t, <3>1
      <4>2. onDisk'.data[onDisk.names["store"]] = onDisk.data[onDisk.names["store"]]
        BY <1>t, <4>1 DEF IInv, StoresSettled, Stores
      <4> QED
        BY <4>1, <4>2 DEF Durable
    <3>2. ASSUME onDisk' = [onDisk EXCEPT !.names = names]
          PROVE  Durable' = Current
      <4>1. onDisk'.names = names /\ onDisk'.data = onDisk.data
        BY <1>t, <3>2
      <4> QED
        BY <4>1 DEF Durable, Current, IInv, StoresSettled, Stores
    <3> QED
      BY <1>5, <3>1, <3>2 DEF WriteBack
  <2> QED
    BY <2>2, <2>3 DEF Atomic!Next, Atomic!Settle, Atomic!vars, Current, Durable
<1>6. CASE PowerLoss
  <2>1. Current' = Durable /\ Durable' = Durable
    BY <1>6 DEF PowerLoss, Current, Durable
  <2>2. TheSave' = 0
    BY <1>6 DEF PowerLoss, TheSave
  <2> QED
    BY <2>1, <2>2 DEF Atomic!Next, Atomic!PowerLoss, Current, Durable
<1>7. CASE UNCHANGED vars
  BY <1>7 DEF vars, files, Atomic!vars, Version, TheSave
<1> QED
  BY <1>1, <1>2, <1>3, <1>4, <1>5, <1>6, <1>7 DEF Next, Atomic!Next

(* With one writer, every step of SaveStore, of its failures and of the    *)
(* file system is a step of the atomic store or none at all.               *)
THEOREM SavesAtomicallyThm ==
  ASSUME OneWriter
  PROVE  Spec => SavesAtomically
<1>1. Init => Atomic!Init
  <2> SUFFICES ASSUME Init PROVE Atomic!Init
    OBVIOUS
  <2>1. PICK i \in Inode, n \in 1..MaxSize :
          /\ names = [f \in File |-> IF f = "store" THEN i ELSE NoInode]
          /\ data = [j \in Inode |-> IF j = i THEN [b \in 1..n |-> 0] ELSE <<>>]
    BY DEF Init
  <2>2. data[names["store"]] = [b \in 1..n |-> 0] /\ 1 \in 1..n
    BY <2>1, LimitAssumption DEF File
  <2>3. Version(data[names["store"]]) = 0
    BY <2>2 DEF Version
  <2>4. Version(onDisk.data[onDisk.names["store"]]) = 0
    BY <2>3 DEF Init
  <2>5. TheSave = 0
    BY DEF Init, TheSave
  <2> QED
    BY <2>3, <2>4, <2>5 DEF Atomic!Init
<1>2. IInv /\ IInv' /\ [Next]_vars => [Atomic!Next]_(Atomic!vars)
  BY StepRefines
<1>3. IInv /\ [Next]_vars => IInv'
  BY IInvNext
<1> QED
  BY IInvInit, <1>1, <1>2, <1>3, PTL DEF Spec, SavesAtomically, Atomic!Spec
=============================================================================
