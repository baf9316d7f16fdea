----------------------------- MODULE VaultSync ------------------------------
(***************************************************************************)
(* A team sharing a vault through Git: every clone's working tree, its     *)
(* HEAD, the remote branch, the machines' keychains, and the commands that *)
(* move data between them (cmd/cifra: init, key, add, set, import, data    *)
(* store, rotate, rm, push, pull; internal/git: sync.go, conflicts.go,     *)
(* mergedriver.go).  A command runs to its end in one step: a clone is     *)
(* used by one process at a time here (two processes on one store are the  *)
(* subject of another module).  A merge may be left half-way, though.      *)
(*                                                                         *)
(* Git is modelled by what cifra uses of it.  Every push is a fast-forward *)
(* of the one branch, so the merge base of a clone and the remote is the   *)
(* remote commit the clone last pushed or merged: base[c].                 *)
(***************************************************************************)
EXTENDS VaultStore

CONSTANTS Clone,       \* the clones, one per machine
          Home,          \* Home[c]: the IDs whose keys are generated on c
          Declaring,     \* clones whose checkout has the .gitattributes line
          Upgraded,      \* clones that ran `cifra init` after cloning
          Members,       \* the IDs in the vault as published
          NoFile,        \* a file that does not exist
          Broken,        \* a file that does not parse: git's markers in it,
                         \* or a store a text merge has corrupted
          Movers,        \* bound: the IDs key commands act on
          MaxStamp,      \* bound: seals and re-wraps
          MaxGen,        \* bound: key generations per ID
          MaxStops       \* bound: merges left in progress

ASSUME CloneAssumption ==
  /\ Home \in [Clone -> SUBSET ID]
  /\ Declaring \subseteq Clone
  /\ Upgraded \subseteq Clone
  /\ Members \subseteq ID /\ Movers \subseteq ID
ASSUME BoundAssumption ==
  MaxStamp \in Nat /\ MaxGen \in Nat /\ MaxStops \in Nat
ASSUME FileAssumption ==
  /\ NoFile # Broken
  /\ {NoFile, Broken} \cap (Store \cup Roster) = {}

VARIABLES work,        \* work[c]: the files of the working tree
          head,        \* head[c]: the files at HEAD
          base,        \* base[c]: the files at the merge base with the remote
          ahead,       \* ahead[c]: HEAD has commits the remote lacks
          stale,       \* stale[c]: the remote has commits HEAD lacks
          merge,       \* merge[c]: the merge in progress, if any
          registered,  \* clones whose .git/config defines the merge driver
          keychain,    \* keychain[c][i]: generation of the private key of i
          remote,      \* the files at the remote's tip
          gen,         \* gen[i]: keys generated for i so far
          clock,       \* the latest UpdatedAt taken from time.Now()
          stops,       \* merges left in progress so far
          seen,        \* history: the entry versions each tree has held
          retired      \* history: the versions the remote once had, and lost

git     == <<head, base, ahead, stale, merge, remote>>
machine == <<registered, keychain, gen, stops>>
history == <<seen, retired>>
vars == <<work, git, machine, clock, history>>

(* The two files of .cifra/ that change: secrets.enc and recipients (the   *)
(* config file comes and goes with recipients).  Entries are stamped with  *)
(* times that have passed.                                                 *)
Sealed == [Name -> [stamp : 1..clock, wraps : Roster] \cup {Absent}]
Vault == [store  : Sealed \cup {NoFile, Broken},
          roster : Roster \cup {NoFile, Broken}]
NoVault == [store |-> NoFile, roster |-> NoFile]

(* A merge in progress: MERGE_HEAD's content, the files git lists as       *)
(* unmerged, and whether MERGE_HEAD is still the remote's tip.             *)
Merge == [active : BOOLEAN, unmerged : SUBSET {"store", "roster"},
          theirs : Vault, fresh : BOOLEAN]
NoMerge == [active |-> FALSE, unmerged |-> {}, theirs |-> NoVault, fresh |-> FALSE]

(* LoadStore and ListRecipients: a missing file reads as an empty one, one *)
(* that does not parse is an error.                                        *)
AsStore(s)  == IF s \in {NoFile, Broken} THEN EmptyStore ELSE s
AsRoster(r) == IF r \in {NoFile, Broken} THEN NoOne ELSE r
Readable(v) == v.store # Broken /\ v.roster # Broken
Initialized(c) == work[c].roster # NoFile

Versions(v) == {<<n, AsStore(v.store)[n].stamp>> : n \in Present(AsStore(v.store))}

TypeOK ==
  /\ work \in [Clone -> Vault]
  /\ head \in [Clone -> Vault]
  /\ base \in [Clone -> Vault]
  /\ ahead \in [Clone -> BOOLEAN]
  /\ stale \in [Clone -> BOOLEAN]
  /\ merge \in [Clone -> Merge]
  /\ registered \subseteq Clone
  /\ keychain \in [Clone -> Roster]
  /\ remote \in Vault
  /\ gen \in Roster
  /\ clock \in Nat
  /\ stops \in Nat
  /\ seen \in [Clone -> SUBSET (Name \X (1..clock))]
  /\ retired \subseteq Name \X (1..clock)

(* Either no vault exists yet, or someone has pushed one with the members' *)
(* keys in it, everyone has cloned it, and some have run `cifra init`.     *)
InitWith(v, keys) ==
  /\ work = [c \in Clone |-> v] /\ head = [c \in Clone |-> v]
  /\ base = [c \in Clone |-> v] /\ remote = v
  /\ ahead = [c \in Clone |-> FALSE] /\ stale = [c \in Clone |-> FALSE]
  /\ merge = [c \in Clone |-> NoMerge]
  /\ gen = keys
  /\ keychain = [c \in Clone |-> [i \in ID |-> IF i \in Home[c] THEN keys[i] ELSE 0]]
  /\ registered = IF v = NoVault THEN {} ELSE Upgraded
  /\ clock = 0 /\ stops = 0
  /\ seen = [c \in Clone |-> {}]
  /\ retired = {}

Published == [i \in ID |-> IF i \in Members THEN 1 ELSE 0]

Init ==
  \/ InitWith(NoVault, NoOne)
  \/ InitWith([store |-> NoFile, roster |-> Published], Published)

(* History, for the properties only.                                       *)
Record ==
  /\ seen' = [c \in Clone |-> seen[c] \cup Versions(work'[c])]
  /\ retired' = retired \cup (Versions(remote) \ Versions(remote'))

-----------------------------------------------------------------------------
(* Commands that edit the working tree or the keychain of one machine.     *)

SetStore(c, s)  == work' = [work EXCEPT ![c].store = s]
SetRoster(c, r) == work' = [work EXCEPT ![c].roster = r]

(* cifra init, where .cifra/ does not exist.                               *)
InitVault(c) ==
  /\ ~Initialized(c)
  /\ SetRoster(c, NoOne)
  /\ registered' = registered \cup {c}
  /\ UNCHANGED <<git, keychain, gen, stops, clock>>
  /\ Record

(* cifra init --upgrade, and cifra init in a clone of an existing vault.   *)
InitUpgrade(c) ==
  /\ Initialized(c)
  /\ registered' = registered \cup {c}
  /\ UNCHANGED <<work, git, keychain, gen, stops, clock>>
  /\ Record

(* cifra add, set and data store seal one entry, cifra import several: for *)
(* every recipient of the file, without reading any existing entry.        *)
Seal(c, names) ==
  /\ Initialized(c)
  /\ Readable(work[c])
  /\ Ids(work[c].roster) # {}
  /\ clock < MaxStamp
  /\ clock' = clock + 1
  /\ SetStore(c, Upsert(AsStore(work[c].store), names,
                       SealEntry(clock', work[c].roster)))
  /\ UNCHANGED <<git, machine>>
  /\ Record

(* loadCurrentUserKey returns the key of the first recipient, in file      *)
(* order, the keychain knows; the model does not keep the order.           *)
HoldsKey(c, i) == i \in Ids(AsRoster(work[c].roster)) /\ keychain[c][i] # 0

(* cifra rotate: the entry must exist and open with the user's key.        *)
Rotate(c, name) ==
  /\ Initialized(c)
  /\ Readable(work[c])
  /\ name \in Present(AsStore(work[c].store))
  /\ \E i \in ID : /\ HoldsKey(c, i)
                   /\ CanOpen(work[c].store[name], i, keychain[c][i])
  /\ Seal(c, {name})

(* cifra rm *)
Rm(c, name) ==
  /\ Initialized(c)
  /\ work[c].store # Broken
  /\ name \in Present(AsStore(work[c].store))
  /\ SetStore(c, Delete(work[c].store, name))
  /\ UNCHANGED <<git, machine, clock>>
  /\ Record

(* cifra key new: the key goes into the keychain first, then, in a         *)
(* vault, AddRecipient appends a line unless the ID already has one.  A    *)
(* recipients file that does not parse only causes a warning.              *)
AddRecipient(r, i, g) == IF r[i] = 0 THEN [r EXCEPT ![i] = g] ELSE r
KeyNew(c, i) ==
  /\ i \in Home[c]
  /\ keychain[c][i] = 0
  /\ gen[i] < MaxGen
  /\ gen' = [gen EXCEPT ![i] = @ + 1]
  /\ keychain' = [keychain EXCEPT ![c][i] = gen'[i]]
  /\ IF work[c].roster \in {NoFile, Broken} THEN UNCHANGED work
     ELSE SetRoster(c, AddRecipient(work[c].roster, i, gen'[i]))
  /\ UNCHANGED <<git, registered, stops, clock>>
  /\ Record

(* cifra key import of a line some `cifra key export --public` printed.    *)
KeyImport(c, i, g) ==
  /\ g \in 1..gen[i]
  /\ work[c].roster \notin {NoFile, Broken}
  /\ SetRoster(c, AddRecipient(work[c].roster, i, g))
  /\ UNCHANGED <<git, machine, clock>>
  /\ Record

(* cifra key delete [--keep-recipient]: a key this keychain does not hold  *)
(* is an error before the recipients file is looked at.                    *)
KeyDelete(c, i, keep) ==
  /\ keychain[c][i] # 0
  /\ keychain' = [keychain EXCEPT ![c][i] = 0]
  /\ IF keep \/ work[c].roster \in {NoFile, Broken} THEN UNCHANGED work
     ELSE SetRoster(c, [work[c].roster EXCEPT ![i] = 0])
  /\ UNCHANGED <<git, registered, gen, stops, clock>>
  /\ Record

-----------------------------------------------------------------------------
(* cifra push: re-wrap what is out of step with the recipients file, save, *)
(* stage and commit .cifra/, push HEAD.                                    *)

ToRewrap(c) == OutOfStep(AsStore(work[c].store), AsRoster(work[c].roster))

(* maybeRewrapStore: nothing to do, or one private key opens every entry   *)
(* to be wrapped again; otherwise push stops before it saves anything.     *)
CanRewrap(c) ==
  \/ ToRewrap(c) = {}
  \/ /\ clock < MaxStamp
     /\ \E i \in ID :
          /\ HoldsKey(c, i)
          /\ \A n \in ToRewrap(c) : CanOpen(work[c].store[n], i, keychain[c][i])
Rewrapped(c) ==
  IF ToRewrap(c) = {} THEN work[c]
  ELSE [work[c] EXCEPT !.store =
                          Rewrap(AsStore(@), AsRoster(work[c].roster), clock + 1)]

(* CommitVault: with a merge in progress `git add` settles the unmerged    *)
(* files as they are, and the commit, if there is anything to commit,      *)
(* concludes the merge.                                                    *)
Commits(c) == Rewrapped(c) # head[c]
Concludes(c) == merge[c].active /\ Commits(c)

(* Loading refuses a store or a recipients file with conflict markers.     *)
PreparedUnchecked(c) == Initialized(c) /\ CanRewrap(c)
Prepared(c) == Initialized(c) /\ Readable(work[c]) /\ CanRewrap(c)

(* The remote takes a push only when its tip is an ancestor of HEAD.       *)
FastForwardAlways(c) == TRUE
FastForward(c) ==
  IF merge[c].active THEN Concludes(c) /\ merge[c].fresh ELSE ~stale[c]

Commit(c) ==
  /\ Prepared(c)
  /\ clock' = IF ToRewrap(c) = {} THEN clock ELSE clock + 1
  /\ work' = [work EXCEPT ![c] = Rewrapped(c)]
  /\ head' = [head EXCEPT ![c] = Rewrapped(c)]
  /\ UNCHANGED machine

(* A push that brings new commits leaves every other clone behind.         *)
PushAccepted(c) ==
  /\ FastForward(c)
  /\ Commit(c)
  /\ remote' = head'[c]
  /\ base' = [base EXCEPT ![c] = head'[c]]
  /\ ahead' = [ahead EXCEPT ![c] = FALSE]
  /\ LET moved == ahead[c] \/ Commits(c)
     IN /\ stale' = [d \in Clone |-> d # c /\ (stale[d] \/ moved)]
        /\ merge' = [d \in Clone |->
                        IF d = c THEN NoMerge
                        ELSE [merge[d] EXCEPT !.fresh = @ /\ ~moved]]
  /\ Record

(* The remote has moved on, cannot be reached, or refuses: what push has   *)
(* committed stays.                                                        *)
PushFails(c) ==
  /\ Commit(c)
  /\ ahead' = [ahead EXCEPT ![c] = @ \/ Commits(c)]
  /\ IF Concludes(c)
     THEN /\ base' = [base EXCEPT ![c] = merge[c].theirs]
          /\ stale' = [stale EXCEPT ![c] = ~merge[c].fresh]
          /\ merge' = [merge EXCEPT ![c] = NoMerge]
     ELSE /\ merge' = [merge EXCEPT ![c].unmerged = {}]
          /\ UNCHANGED <<base, stale>>
  /\ UNCHANGED remote
  /\ Record

Push(c) == PushAccepted(c) \/ PushFails(c)

-----------------------------------------------------------------------------
(* cifra pull                                                              *)

File == {"store", "roster"}

(* What git's three-way merge of one file has to settle, from the side of  *)
(* HEAD, when t is the vault merged in.                                    *)
Touched(c, f, t)     == t[f] # base[c][f] /\ t[f] # head[c][f]
BothChanged(c, f, t) == Touched(c, f, t) /\ head[c][f] # base[c][f]

(* The stages of a conflicted secrets.enc; an absent stage reads as an     *)
(* empty store (loadConflictStore).                                        *)
StoreConflicts(c, t) ==
  Conflicts(AsStore(base[c].store), AsStore(head[c].store), AsStore(t.store))
MergedStore(c, t) ==
  MergeStores(AsStore(base[c].store), AsStore(head[c].store), AsStore(t.store))

(* The recipients file is merged by git line by line.  Lines are appended  *)
(* at the end, so two sides that both add one collide; two sides that      *)
(* touch one ID collide; other changes merge unless they are neighbours.   *)
NewLines(r, b)     == {i \in ID : AsRoster(r)[i] # 0 /\ AsRoster(r)[i] # AsRoster(b)[i]}
ChangedLines(r, b) == {i \in ID : AsRoster(r)[i] # AsRoster(b)[i]}
RosterMergeable(c, t) ==
  LET was  == base[c].roster
      mine == head[c].roster
  IN /\ was # NoFile
     /\ ChangedLines(mine, was) \cap ChangedLines(t.roster, was) = {}
     /\ NewLines(mine, was) = {} \/ NewLines(t.roster, was) = {}
MergedRoster(c, t) ==
  IF ~RosterMergeable(c, t) THEN Broken
  ELSE [i \in ID |-> IF i \in ChangedLines(t.roster, base[c].roster)
                     THEN AsRoster(t.roster)[i] ELSE AsRoster(head[c].roster)[i]]

Merged(c, t) ==
  [store  |-> IF BothChanged(c, "store", t) THEN MergedStore(c, t)
              ELSE IF Touched(c, "store", t) THEN t.store ELSE head[c].store,
   roster |-> IF BothChanged(c, "roster", t) THEN MergedRoster(c, t)
              ELSE IF Touched(c, "roster", t) THEN t.roster ELSE head[c].roster]

(* CleanVault: git clean removes what the index does not know.             *)
Tracked(c, f) ==
  head[c][f] # NoFile \/ (merge[c].active /\ merge[c].theirs[f] # NoFile)
Cleaned(c) ==
  [store  |-> IF Tracked(c, "store")  THEN work[c].store  ELSE NoFile,
   roster |-> IF Tracked(c, "roster") THEN work[c].roster ELSE NoFile]

(* The checks of runPull before it touches anything.                       *)
MayPullFastForward(c) == Initialized(c) /\ work[c].store # Broken /\ ~ahead[c]
MayPull(c) ==
  /\ Initialized(c)
  /\ c \notin Declaring \ registered
  /\ work[c].store # Broken

(* git merge refuses to overwrite a file with uncommitted changes in tree. *)
RefusedIn(c, tree) == \E f \in File : Touched(c, f, remote) /\ tree[f] # head[c][f]
Refused(c) == RefusedIn(c, Cleaned(c))

(* Already up to date; refused by git; or a conflict cifra does not        *)
(* resolve, after which the merge is aborted.  The tree has been cleaned.  *)
PullWithoutMerge(c) ==
  /\ MayPull(c)
  /\ ~merge[c].active
  /\ \/ ~stale[c]
     \/ Refused(c)
     \/ BothChanged(c, "store", remote) /\ StoreConflicts(c, remote) # {}
     \/ BothChanged(c, "roster", remote)
  /\ work' = [work EXCEPT ![c] = Cleaned(c)]
  /\ UNCHANGED <<git, machine, clock>>
  /\ Record

(* HEAD, index and tree after a merge of t into v that went through; files *)
(* with local changes the merge does not touch keep them.                  *)
Conclude(c, t, v) ==
  /\ head' = [head EXCEPT ![c] = v]
  /\ base' = [base EXCEPT ![c] = t]
  /\ work' = [work EXCEPT ![c] =
       [store  |-> IF Touched(c, "store", t) THEN v.store ELSE Cleaned(c).store,
        roster |-> IF Touched(c, "roster", t) THEN v.roster ELSE Cleaned(c).roster]]

Mergeable(c) ==
  /\ MayPull(c)
  /\ ~merge[c].active
  /\ stale[c]
  /\ ~Refused(c)
  /\ BothChanged(c, "store", remote) => StoreConflicts(c, remote) = {}
  /\ BothChanged(c, "roster", remote) => RosterMergeable(c, remote)

(* A fast-forward, a merge git settles (through the driver or without it), *)
(* or one resolveSecretsConflict settles: the result is the same.          *)
PullMerges(c) ==
  /\ Mergeable(c)
  /\ Conclude(c, remote, Merged(c, remote))
  /\ stale' = [stale EXCEPT ![c] = FALSE]
  /\ UNCHANGED <<ahead, merge, remote, machine, clock>>
  /\ Record

(* Without the driver git merges the store as text, which may corrupt it   *)
(* although git finds no conflict: the merge is committed, and pull fails  *)
(* when it loads the store.                                                *)
TextMerges(c) == c \notin registered /\ BothChanged(c, "store", remote)
PullCorrupts(c) ==
  /\ Mergeable(c)
  /\ TextMerges(c)
  /\ Conclude(c, remote, [Merged(c, remote) EXCEPT !.store = Broken])
  /\ stale' = [stale EXCEPT ![c] = FALSE]
  /\ UNCHANGED <<ahead, merge, remote, machine, clock>>
  /\ Record

(* Where git stops: at the files in u, and what it leaves of the store.    *)
(* The merge driver leaves it as it was when it finds a conflict; without  *)
(* the driver git writes markers, also where the entries would merge.      *)
StopsAt(c, u) ==
  /\ u # {}
  /\ "store" \in u => /\ BothChanged(c, "store", remote)
                      /\ c \in registered => StoreConflicts(c, remote) # {}
  /\ "store" \notin u /\ BothChanged(c, "store", remote) => StoreConflicts(c, remote) = {}
  /\ "roster" \in u => BothChanged(c, "roster", remote)
  /\ "roster" \notin u /\ BothChanged(c, "roster", remote) => RosterMergeable(c, remote)
StoresLeft(c, tree, u) ==
  IF "store" \in u THEN {IF c \in registered THEN head[c].store ELSE Broken}
  ELSE IF Touched(c, "store", remote)
  THEN {Merged(c, remote).store} \cup {s \in {Broken} : TextMerges(c)}
  ELSE {tree.store}

(* A merge left in progress, with unmerged files; git merged into tree.    *)
LeaveMerge(c, tree, unmerged, store) ==
  /\ merge' = [merge EXCEPT ![c] = [active |-> TRUE, unmerged |-> unmerged,
                                    theirs |-> remote, fresh |-> TRUE]]
  /\ work' = [work EXCEPT ![c] =
       [store  |-> store,
        roster |-> IF "roster" \in unmerged THEN Broken
                   ELSE IF Touched(c, "roster", remote)
                   THEN Merged(c, remote).roster ELSE tree.roster]]
  /\ stops' = stops + 1
  /\ UNCHANGED <<head, base, ahead, stale, remote, registered, keychain, gen, clock>>
  /\ Record
MayStop(c, tree) ==
  /\ stops < MaxStops
  /\ Initialized(c) /\ work[c].store # Broken
  /\ ~merge[c].active
  /\ stale[c]
  /\ ~RefusedIn(c, tree)

(* `git pull` by hand, which neither cleans nor looks for the driver; in a *)
(* clone whose store parses, one that does not is out of use here.         *)
GitPullStops(c) ==
  /\ MayStop(c, work[c])
  /\ \E u \in SUBSET File : \E store \in StoresLeft(c, work[c], u) :
       StopsAt(c, u) /\ LeaveMerge(c, work[c], u, store)

(* cifra pull, killed before it has resolved or aborted the merge, or once *)
(* it has saved the merged store, or also staged it.                       *)
PullStops(c) ==
  /\ MayPull(c)
  /\ MayStop(c, Cleaned(c))
  /\ \/ \E u \in SUBSET File : \E store \in StoresLeft(c, Cleaned(c), u) :
          StopsAt(c, u) /\ LeaveMerge(c, Cleaned(c), u, store)
     \/ /\ StopsAt(c, {"store"}) /\ StoreConflicts(c, remote) = {}
        /\ \E unmerged \in {{"store"}, {}} :
             LeaveMerge(c, Cleaned(c), unmerged, MergedStore(c, remote))
MergeStops(c) == GitPullStops(c) \/ PullStops(c)

(* AbortMerge is `git reset --merge`: the files the merge touched go back  *)
(* to HEAD, unless one that merged cleanly has been edited since, which    *)
(* makes git refuse (and cifra ignore the refusal).                        *)
Abort(c) ==
  LET t == merge[c].theirs
      edited == \E f \in File \ merge[c].unmerged :
                  /\ Touched(c, f, t)
                  /\ work[c][f] # Merged(c, t)[f]
  IN IF edited
     THEN /\ work' = [work EXCEPT ![c] = Cleaned(c)]
          /\ UNCHANGED merge
     ELSE /\ work' = [work EXCEPT ![c] =
               [store  |-> IF Touched(c, "store", t) THEN head[c].store
                           ELSE Cleaned(c).store,
                roster |-> IF Touched(c, "roster", t) THEN head[c].roster
                           ELSE Cleaned(c).roster]]
          /\ merge' = [merge EXCEPT ![c] = NoMerge]

(* cifra pull over a merge left in progress: git refuses to start another  *)
(* one, and when files are still unmerged cifra takes that for a conflict  *)
(* of its own and works on the stages the old merge left in the index.     *)
PullOverMerge(c) ==
  /\ MayPull(c)
  /\ merge[c].active
  /\ LET t == merge[c].theirs
     IN CASE merge[c].unmerged = {} ->
               /\ work' = [work EXCEPT ![c] = Cleaned(c)]
               /\ UNCHANGED <<head, base, stale, merge>>
          [] merge[c].unmerged = {"store"} /\ StoreConflicts(c, t) = {} ->
               /\ Conclude(c, t, Merged(c, t))
               /\ merge' = [merge EXCEPT ![c] = NoMerge]
               /\ stale' = [stale EXCEPT ![c] = ~merge[c].fresh]
          [] OTHER ->
               /\ Abort(c)
               /\ UNCHANGED <<head, base, stale>>
  /\ UNCHANGED <<ahead, remote, machine, clock>>
  /\ Record

Pull(c) == PullWithoutMerge(c) \/ PullMerges(c) \/ PullCorrupts(c) \/ PullOverMerge(c)

-----------------------------------------------------------------------------
Command(c) ==
  \/ InitVault(c) \/ InitUpgrade(c)
  \/ \E names \in SUBSET Name \ {{}} : Seal(c, names)
  \/ \E name \in Name : Rotate(c, name) \/ Rm(c, name)
  \/ \E i \in Movers : KeyNew(c, i)
  \/ \E i \in Movers, g \in 1..MaxGen : KeyImport(c, i, g)
  \/ \E i \in Movers, keep \in BOOLEAN : KeyDelete(c, i, keep)
  \/ Push(c) \/ Pull(c) \/ MergeStops(c)

Next == \E c \in Clone : Command(c)

Spec == Init /\ [][Next]_vars

(* Every member goes on pulling; every member goes on running both of the  *)
(* sync commands, and the remote takes a push that it could take for good. *)
PullingSpec == Spec /\ \A c \in Clone : WF_vars(Pull(c))
SyncingSpec ==
  PullingSpec /\ \A c \in Clone : WF_vars(Push(c)) /\ WF_vars(PushAccepted(c))

-----------------------------------------------------------------------------
(* Every secret on the remote is sealed for exactly the members the        *)
(* recipients file next to it names: whatever order members join, leave,   *)
(* edit, merge and push in, no push publishes an entry that a member       *)
(* cannot have been given or that an ex-member is still listed for         *)
(* (maybeRewrapStore runs over the merged tree, before every commit).      *)
RemoteAligned ==
  \A n \in Present(AsStore(remote.store)) :
    Recipients(remote.store[n]) = Ids(AsRoster(remote.roster))

(* Conflict markers and corrupted stores stay where git put them: nothing  *)
(* that does not parse is ever pushed, even after a pull died in mid-merge *)
(* or git merged the store as text; and where .gitattributes asks for the  *)
(* merge driver, or it is registered, cifra commits nothing such either.   *)
NoMarkersCommitted ==
  /\ Readable(remote)
  /\ \A c \in Clone : /\ Readable(base[c])
                      /\ c \in Declaring \cup Upgraded => Readable(head[c])

(* A version of a secret that left the remote, replaced or removed, never  *)
(* comes back: no stale clone resurrects it by merging or pushing.         *)
NoResurrection == Versions(remote) \cap retired = {}

(* A push only replaces or removes versions of secrets that the pushing    *)
(* clone has had in its own working tree: nobody overwrites a colleague's  *)
(* update unseen.                                                          *)
NoBlindOverwrite ==
  [][\A c \in Clone : Push(c) =>
       Versions(remote) \ Versions(remote') \subseteq seen[c]]_vars

(* A conflict of the merge driver stays open until someone resolves it: a  *)
(* push while git still lists secrets.enc as unmerged, and as it was at    *)
(* HEAD, does not replace the other side of a conflicting entry.           *)
ConflictsStayOpen ==
  [][\A c \in Clone :
       Push(c) /\ "store" \in merge[c].unmerged /\ work[c].store = head[c].store =>
         \A n \in StoreConflicts(c, merge[c].theirs) :
           AsStore(remote.store)'[n] = AsStore(remote.store)[n]]_vars

(* A pull that merges delivers every change of the remote and keeps every  *)
(* local change, committed or not, of a store git tracks: none of the two  *)
(* sides' adds, updates and deletions is lost in the three-way merge.      *)
LocalChange(c, n) ==
  AsStore(work[c].store)[n] # AsStore(base[c].store)[n]
PullMergesBothSides ==
  [][\A c \in Clone : PullMerges(c) =>
       \A n \in Name :
         LET was  == AsStore(base[c].store)[n]
             mine == AsStore(work[c].store)[n]
             new  == AsStore(remote.store)[n]
             now  == AsStore(work[c].store)'[n]
         IN /\ new # was => AsStore(head[c].store)'[n] = new
            /\ new # was /\ mine = was => now = new
            /\ LocalChange(c, n) /\ head[c].store # NoFile => now = mine]_vars

(* Once a vault is on the remote, members who go on pushing and pulling    *)
(* end with the same vault on every clone, the remote's, unless two of     *)
(* them changed the same thing: an entry, or the recipients file.          *)
Clashing(c) ==
  \/ BothChanged(c, "store", remote) /\ StoreConflicts(c, remote) # {}
  \/ BothChanged(c, "roster", remote)
TeamConverges ==
  (remote.roster # NoFile) ~>
     [](\A c \in Clone : Initialized(c) => work[c] = remote \/ Clashing(c))

(* A teammate who has generated a key in a clone of the vault, and who has *)
(* committed nothing, gets the vault by pulling once an existing member    *)
(* has imported the public key and pushed.                                 *)
Onboarding(c) ==
  /\ head[c] = base[c]
  /\ stale[c]
  /\ \E i \in ID : /\ keychain[c][i] # 0
                  /\ work[c].roster = AddRecipient(AsRoster(head[c].roster), i, keychain[c][i])
                  /\ AsRoster(remote.roster)[i] = keychain[c][i]
OnboardingCompletes == \A c \in Clone : Onboarding(c) ~> ~Onboarding(c)
=============================================================================
