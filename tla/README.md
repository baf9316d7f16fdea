# A verification of cifra

cifra keeps a team's secrets in a Git repository. Every secret is an envelope
sealed for the public keys of the members; the private keys stay in each
member's keychain. There is no server: what the team shares is one Git branch,
and what a machine shares between its processes is a few files, the keychain
and one Unix socket. The hard part of cifra is therefore what happens *between*
commands — between clones, between processes, and between the steps of one
command that is cut short — and that is what these modules are about.

- [The system](#the-system): components, state, operations, hard behaviours
- [The modules](#the-modules): what models what, and how to read it
- [The runs](#the-runs): what TLC checks, with which bounds and fairness
- [The proofs](#the-proofs): what is proved for every value of the constants
- [What is not shown](#what-is-not-shown)
- [Plan](#plan)

Paths are relative to the repository's root, `src/`.

## The system

| Component | State | Operations | Hard behaviours |
|---|---|---|---|
| Secrets store (`internal/vault/secrets.go`, `merge.go`) | `.cifra/secrets.enc`: entries by (name, kind), each with a stamp `UpdatedAt`, reader IDs and an envelope | load, save, upsert, delete, 3-way merge | thirteen merge rules, equality by stamp, readers lost in a merge |
| Team synchronisation (`cmd/cifra/push.go`, `pull.go`, `merge.go`, `internal/git`) | working tree, HEAD, remote branch, a merge in progress, the merge driver's registration | push, pull, merge driver | concurrent edits on several clones, rejected pushes, merges left half-way, git refusing a merge |
| Recipients and keys (`internal/vault/recipients.go`, `cmd/cifra/key.go`, `init.go`) | `.cifra/recipients`, the keychain | init, key new / import / delete | a member joins or leaves while others edit; re-wrapping by whoever pushes next |
| Editing commands (`add`, `set`, `import`, `data store`, `rotate`, `rm`) | — (they edit the working tree) | load, seal, save | two of them at once on one machine |
| SaveStore's file protocol | `secrets.enc`, `secrets.enc.tmp` | open, write, fsync, rename | errors, kills, power loss, two writers |
| Key-unlock agent (`internal/agent`) | keys in memory with an expiry, one socket file | unlock, get, lock, stop, sweep, spawn | goroutines, two agents starting, an agent killed, a key looked up and then wiped |
| Keychain (`internal/keychain`) | one protected blob per ID | seal, unseal, delete, reseal | a reseal killed half-way |
| Audit log (`internal/audit`) | a hash-chained file | append, verify | two appends from one predecessor, an append cut short |
| Protected paths (`internal/protect`, `cmd/cifra/protect.go`) | a pattern file | add, remove, encrypt | rewritten in place while a hook reads it; a plaintext deleted |
| AI-agent hooks (`internal/hook/preuse.go`, `postuse.go`) | none of their own | block a tool call, mask its response | hooks of parallel calls, order of decisions, text that masks text |
| Git hook and uninstall (`internal/hook/git.go`, `cmd/cifra/uninstall.go`) | the user's `pre-commit` file | install, upgrade, uninstall | a file shared with its user; three removals in one command |
| MCP server (`internal/mcp`, `cmd/cifra/mcp.go`) | a stream of requests | the commands as tools | handlers next to a terminal on one working tree, notifications, failing handlers |
| `run` (`cmd/cifra/run.go`) | a child process | select, decrypt, inject | a child that does not end |
| Scanner, reports, `cat` and `export` | none | text in, text out | — |

How they meet: every command loads the store and the recipients file, most save
the store; `push` and `pull` drive git, which calls cifra back as a merge driver;
every command that needs the private key asks the agent first and the keychain
next; the AI-agent hooks read the pattern file and append to the audit log; the
MCP server calls the same functions as the commands, in a process of its own.

`PROJECT.json` lists the components with their status, and under `hazards`
every place where this code can go wrong in a way a unit test would hardly
reach, with the properties that watch it.

## The modules

| Module | Models |
|---|---|
| `VaultStore` | the store as a value, `Upsert`, `Delete`, `mergeEntry`, `MergeStores`, `recipientDropWarnings`, `recipientSetsEqual`, `rewrapStore` as operators |
| `StoreMerge` | every triple of small branches of a store, and a pull's merge |
| `StoreMergeProofs` | theorems about the merge |
| `VaultSync` | a team of clones, the remote and the commands, one action each |
| `VaultSyncProofs` | theorems about the team |
| `Agent` | clients, agent processes and their goroutines around one socket |
| `AgentProofs` | theorems about the agent |
| `Keychain` | a member's key in the keychain, and key new, delete and reseal call by call |
| `KeychainProofs` | theorems about the keychain |
| `StoreFile` | SaveStore step by step, over a file system that may lose power |
| `AtomicStore` | what SaveStore promises, in six lines |
| `StoreFileProofs` | theorems about SaveStore, the refinement among them |
| `AuditLog` | the lines of the audit log, the hash chain, `AppendEntry`'s and `VerifyChain`'s operators |
| `Masking` | `maskSecrets` as text replacement |
| `PrivacyShield` | hooks of parallel tool calls, the pattern file and the commands that rewrite it, the log they append to |
| `ShieldProofs` | theorems about the three |
| `HookFile` | the `pre-commit` file and `cifra uninstall` |
| `HookProofs` | theorems about both |
| `VaultCommands` | add, rotate, rm, push, run and protect encrypt as processes on one working tree |
| `McpServer` | the MCP server's loop around them, and a terminal |
| `VaultCommandsProofs` | theorems about them |
| `MC*` | definitions and constants for TLC |

### VaultStore and StoreMerge

A store maps each *Name* — a (name, kind) pair, `entryKey` in the code — to an
entry or `Absent`. Of an entry the model keeps what the code compares: the stamp
and, for each ID, the generation of the key it is wrapped to. `MergeEntry`
follows `mergeEntry` rule by rule and answers `Conflict` where the code does.
`StoreMerge` starts from any common ancestor and any three branches of it; the
one assumption about them is that two copies of an entry with one stamp are
copies of one sealed version, because every seal and every re-wrap takes a new
`time.Now()`. Two machines stamping one name in the same nanosecond are outside
the model.

### VaultSync

`work[c]`, `head[c]` and `base[c]` are the files of `.cifra/` in clone *c*'s
working tree, at its HEAD and at its merge base with the remote; all pushes
fast-forward one branch, so that base is the last remote commit *c* pushed or
merged. `ahead` and `stale` say which side has commits the other lacks. A file
is a value, `NoFile`, or `Broken`: it holds conflict markers, or is a store that a
text merge has corrupted; what loads it fails. A command runs to its end in
one action, in the order of the code: `Push` re-wraps, saves, commits and
pushes; `Pull` checks, fetches, cleans, merges and settles or aborts. What can
interrupt a pull is modelled where it leaves something behind. `MergeStops` is
a merge left half-way: by a `git pull` run by hand, which neither cleans the tree
nor looks for the driver (`GitPullStops`), or by a `cifra pull` killed before
`resolveSecretsConflict` has settled it, after it has saved the merged store, or
after it has staged it (`PullStops`); `PullOverMerge` is the next pull. Where the
driver is not registered git merges the store as text, and the model lets that
end in the right store, in markers, or in a store that does not parse although
git saw no conflict (`PullCorrupts`, `StoresLeft`). `PushFails` is a push the remote
does not take, because it has moved on, cannot be reached or refuses: the commit
stays. git's own behaviour — fast-forward
or not, which files a merge touches, when it refuses, when two sides of the
recipients file merge line by line — is modelled from how cifra uses it and
marked external in `PROJECT.json`. The recipients file's line-wise merge is
abstracted: two sides that both append, or both change one ID, collide; other
changes merge (in git, neighbouring lines may collide too, which only adds
conflicts).

`seen` and `retired` are history variables for the properties: the versions each
working tree has held, and those the remote once had and lost.

### Agent

A client runs one command at a time: dial, send, wait for the answer. `unlock`
asks the agent for the key like any other command, then makes sure an agent
runs, spawning one and polling for it, then hands the key over. An agent process
goes through `Listen` in its three steps — is an agent answering, remove the
file, bind — serves, answers a stop, closes the listener, clears its keys and
exits; it may be killed anywhere. Handlers are goroutines: `HandleGet` ends where
the mutex is released and `Reply` encodes the key later. Buffers are numbered by
the unlock that made them, so "unlocked before" is `<`. The clock is abstracted:
the TTL of a cached key may run out at any moment (`Lapse`).

### Keychain

One member's id on one machine: the slot of the id and the staging slots of
reseals. A blob is a key and what protects it, which covers the three kinds
`classifyKeyBlob` tells apart. `job[p]` is how far the command of terminal *p* has
come: a reseal goes through `Read`, `Stage`, `Verify`, `DeleteOld`, `CheckAgain`, `Add`
and `DropStaged`, the calls of `Reseal` in order, and `key new` through `New` and `Add`,
because both backends look whether the slot is free before they fill it. Each
Seal and Unseal is given any passphrase of `Pass`: what is typed need not be what
was meant. `Stop` is an error or a kill at any step. `Backend` tells macOS's add,
which fails on a full slot, from the kernel keyring's, which overwrites. `Careful`
says that nobody runs `key reseal` or `key delete` during a reseal.

`given`, `dropped` and `known` are history: the keys sealed under the id, those
`key delete` removed, and the passphrases that have opened a blob.

### StoreFile and AtomicStore

A file is an inode that names point to and descriptors keep; content and
directory entries sit in memory until fsync or the kernel writes them back, in
any order; a power loss keeps what is on disk. `Fail` is any step failing and
SaveStore's clean-up, `Kill` leaves the temporary file behind. Content is a
sequence of one or two blocks tagged with the save that wrote them, which is
enough to tell a whole store from a torn, mixed or empty one.

### AuditLog, Masking and PrivacyShield

Each tool call of an AI agent has two hooks, `Preuse` before the tool and
`Postuse` after it, each a process; calls made in parallel have theirs in
parallel. `FindMaskingKey` is the key postuse takes: the first listed recipient's
that the agent has cached, possibly zeroed meanwhile, or else the first that
`CIFRA_PASSPHRASE` opens, so not always the user's own. `LoadSecretsForMasking` keeps
the secrets that key opens (`Wraps`) and passes over the others, as the code does;
`hand` remembers whose keys were there. What a hook decides, it decides in one action, from the pattern file as
it is then; what it logs it logs entry by entry, and an entry is `ReadLast` (the
hash to chain to), then `AppendEntry` or `FailToAppend`. `savePatterns` is
`Truncate` and one `WriteLine` after the other, and may stop in between. Which
patterns a path or a word of a command matches is an input (`Words`), so is
whether a command asks for a plaintext; the order, first the words and then the
patterns, is the code's (`Matched`). A hash is the tuple of what it digests. Text
is a sequence of tokens, and `Json` is what JSON does to it on its way through a
hook: a token of `Escape` gets a backslash.

### HookFile

The `pre-commit` file is a sequence of tokens: the user's lines, newlines, the
shebang, and the block's markers and version. `WithBlock` and `StripCifraBlock`
are what `InstallGitHook` and `stripCifraBlock` do to the text, the newline before
the block included. A block of version 1 that is there from the start is taken
to have been put there by the same rule. A write of the file is `StartWrite`, which
truncates, and `Write`; `WriteSome` gets down any proper part of the text, cut between
two tokens or within a line (`cut`), and then `Kill` may leave it there, or the
write goes on. `Shown` is what the file will be when the write is over. The user
edits whole lines outside the block, and only between two commands. `cifra uninstall` goes on
from the hook to the keys, one recipient at a time, and to the vault. `origin` and
`spared` are history: the file as the last install found it, unless someone has
edited it since, and whether an uninstall has left keys on purpose or with a
warning.

### VaultCommands and McpServer

`VaultSync` takes a command for one step. `VaultCommands` opens it up for one
working tree: a command reads the first of its two files (`ReadFirst`), the second
one and the private key (`ReadSecond`), and replaces the store (`Save`) with what
it makes of the store it has read; it may fail or be killed before that. `protect
encrypt` goes on to remove the plaintext, `run` to a child that ends when it
likes. An entry is an envelope: a value, a data key (numbered in the order they
are generated) and the recipients it is wrapped to, so that `rotate`, which seals
anew, and `push`, which wraps the same key again, differ as they do in the code.
`SetRoster` is what key new, import and delete do to the recipients file.

History: `known[k]` is every data key that some version of the store has wrapped
to *k*; `meant` the value last given to each name; `barred[n]` the recipients *n* was
not sealed for and has not been wrapped for since; `overlapped` becomes true when
a command changes the tree although another one has changed the files since it
read them (`stale`); a push or an add that has read only the recipients has not
read the store yet and is not stale (`HasReadTree`). The code takes no lock, and after such a save none of the
three properties holds.

`McpServer` runs two processes over it. `mcp` is `Serve`: it scans one line of
the client's, answers it at once or runs its command to the end, and answers;
`term` is a terminal in which the user types commands and changes the
recipients. The answer to a request carries its id, the position of the line.

## The runs

Passing runs:

| Run | Shows | Bounds |
|---|---|---|
| `merge` | the thirteen rules are a three-way merge (`MergeIsThreeWay`), the same from both sides (`MergeIsSymmetric`), and independent of the order three members pull in (`MergeOrderIrrelevant`); every reader lost is named (`LostReadersAreWarned`) | two names, three stamps, two rosters: every rule, and two rules at once |
| `sync_team` | no deleted or replaced secret comes back (`NoResurrection`); nobody replaces on the remote what he has not had (`NoBlindOverwrite`); a pull keeps both sides' changes (`PullMergesBothSides`); the clones end with one vault (`TeamConverges`) | two clones, two names, two seals and any number of removals: both sides edit, or one edits what the other removes; pushes may fail |
| `sync_members` | the remote's secrets are sealed for exactly the listed members (`RemoteAligned`); nothing with markers in it and no corrupted store is pushed, or committed where the driver is asked for or registered (`NoMarkersCommitted`) | two clones, one whose `.gitattributes` asks for the driver it has not got, one that has neither; one name, two seals or re-wraps, one merge left half-way, one member joining and leaving |
| `agent` | a lock that has returned is final (`LockIsFinal`); every command returns (`CallsReturn`), every expired key is erased (`ExpiredKeysErased`) | two clients, two processes, one unlock: an agent that replaces another, a lock that overtakes a get |
| `keychain` | no key is lost, whatever fails or is killed (`KeyKept`) | macOS, two terminals, two passphrases, two staging ids, three keys: a reseal and a key new at once, a leftover of a killed reseal |
| `store_file` | the store is whole at every moment and after every power loss (`StoreIsWhole`); SaveStore implements `AtomicStore` (`SavesAtomically`) | one writer, three saves, three inodes (the old file, the new one, a leftover), one or two blocks |
| `shield` | what is registered is blocked (`CoveredIsBlocked`); what a hook has reported stays in the log (`ReportsKept`), which verifies as long as appends did not overlap (`ChainHolds`); no value that the keys at hand open is left in what the model sees (`OutputMasked`) | two parallel calls, one a command of three words; two patterns, two protect commands; one failed append; three secrets, one inside another, one that only one of the two recipients can open; any keys cached, zeroed or in the keychain |
| `hook_file` | no command turns one whole block or none, on lines of its own, into anything else (`BlockStandsAlone`); what a torn write leaves comes off with an uninstall that finds an end marker (`ComesOff`); the user's lines stay lines, in order (`UserLinesKept`); uninstall restores the file exactly (`RestoredExactly`); no key outlives the file that names it (`KeysGoFirst`) | a hook with up to two lines of the user's, with or without a final newline, with a block of either version or none; one write cut short anywhere, which suffices for two blocks' markers in one file; two recipients; Linux |
| `mcp` | answers match requests (`AnswersMatch`) and every request is answered (`EveryRequestAnswered`); values are kept (`ValuesKept`), the plaintext is not lost (`PlaintextKept`), a rotation revokes (`RevokedByRotation`) | two lines out of nine, two commands or changes of the recipients typed meanwhile, three envelopes sealed; two env secrets, a file, two recipients |

Runs that find the code at odds with what it or its documentation says:

| Run | What happens |
|---|---|
| `sync_stopped` | the merge driver stops on a conflict, leaving our side in place and the file unmerged, while a recipient who joined on the other side merges cleanly; the next `cifra push` re-wraps for him, stages everything, concludes the merge and publishes, and the colleague's update of the conflicting entry is gone (`ConflictsStayOpen`). With nothing else to commit that push is rejected, but its `git add` has settled the file all the same |
| `sync_onboarding` | a teammate's `cifra key new` edits the tracked recipients file; when the existing member has imported the key and pushed, git refuses the teammate's pull for ever |
| `run_files` | `protect encrypt` takes a file off the disk and promises it to `run`, which injects env entries only: nothing reads the file back |

`MaxStamp`, `MaxGen`, `MaxStops`, `MaxUnlocks`, `MaxKeys`, `MaxSize`, `MaxSaves`,
`MaxEdits`, `MaxFailures`, `MaxLines`, `MaxTears`, `MaxSeals`, `MaxSent` and `MaxTyped` bound
what would grow for ever; `Movers` limits whose keys the key commands act on,
`Typed` and `Line` what is typed and sent. Each is a guard of the action it
bounds, and the theorems hold for every value. No run uses symmetry. `keychain`
is checked with `Careful`: without it, or with the Linux backend, `KeyKept` is
false (see below).

The bounds are small because the hazards are: each is a race of two actors or
one interruption, and every run has room for it. `sync_team` has room for a
version that is replaced on one side while the other side removes or keeps it;
`agent` for the agent that is locked and the one that takes its socket over;
`mcp` for a rotation between a removal and the return of a recipient, or for a
command that changes the files between two reads of another.

Fairness. `SyncingSpec` says that every member goes on pulling and pushing
(weak fairness of `Pull(c)` and `Push(c)`), and that the remote does not refuse
for good a push it could take (of `PushAccepted(c)`): the commands are run by people,
and the property is about a team that does run them, over a network that works in
the end. `PullingSpec` keeps only
pulls. `FairSpec` in `Agent` says that the scheduler runs each command,
goroutine and process, and that the sweep's ticker ticks; nothing makes a
process die, a TTL end or a user type a command. `FairSpec` in `McpServer` says
that the server goes on while it has work, which includes that the children of
`cifra_run` end; the code sets them no limit, and a child that never ends keeps
every later request waiting. The terminal may stop at any point.

## The proofs

TLAPS checks every step of these, for any number of clones, members, names,
stamps and bounds. Every invariant and every action property that a passing run
checks is stated by one of these theorems; the runs show it on a small instance,
the theorem for all. What a theorem assumes beyond the named ASSUMEs is said
with it below.

`StoreMergeProofs` proves the four properties of the merge. They rest on one
invariant, `Consistent`: in all four stores, two entries of one name with one
stamp are the same sealed version. `EntryRule` then reduces `MergeEntry`, which
compares stamps, to the reference rule, which compares entries, and `StoreRule`
lifts it to stores; without the invariant the code's comparison by stamp says
nothing about the entry.

`VaultSyncProofs` proves

- `TypeOKThm`. Part of it is that no entry carries a stamp from the future; the
  merge lemmas need that to tell old versions from new ones.
- `RemoteAlignedThm`, from the type invariant: a push publishes `Rewrapped(c)`,
  and `RewrappedAligned` shows that this store names exactly the recipients file's
  members in each entry. It holds whatever the merge before it did.
- `NoMarkersCommittedThm`. Not inductive alone: a merge in progress may put
  markers into the working tree and its other side into HEAD. The strengthening
  `MergesResolvable` says that what a merge in progress would commit is readable,
  and `DriverStays` that a clone which asks for the driver pulls only with it. A
  clone that neither asks for it nor has it may get a corrupted store into its HEAD,
  because git commits a text merge it found clean; it cannot push from there,
  because `Prepared` loads the store first.
- `NoBlindOverwriteThm`, assuming `MaxStops = 0`, that is that no merge is left
  half-way. With it the property is false (`sync_stopped`). The invariant
  `BooksKept` says that a clone has had in its tree every version its base holds,
  and those at its HEAD as long as its store parses, and that a clone that is not
  stale has the remote as its base; `BrokenStays`, that a store which does not parse
  stays so, as no command writes over it.
- `NoResurrectionThm`, under the same assumption and from the same books
  (`BooksAreKept`). The invariant `Untainted` follows the versions the remote has or
  has had: one gets into HEAD only through the merge base and into the working tree
  only through HEAD, and two clones share no other version. A push is accepted only
  when the base is the remote, so it publishes no known version the remote lacks; a
  pull may merge only because `MergeDropsStale` shows that the three-way merge keeps
  a version of the base only where the remote still has it.
- `PullMergesBothSidesThm`, again assuming `MaxStops = 0`. What a pull merges are
  stores, and the three-way merge compares stamps; the invariant
  `OneEntryPerStamp` says that in all trees, commits, bases and the remote equal
  stamps of one name mean the same entry, so that a change is a change of the
  stamp too. It is inductive because every seal and re-wrap takes the next stamp
  and every other step copies entries.

`AgentProofs` proves `TypeOKThm` and `LockIsFinalThm`. After a lock, a key
could come from three places, and the invariant `IInv` closes each: the process
the path names (`PathClean`: it holds no key older than the newest lock that has
returned); a process that took the path over after the lock had dialled another
(`LockingClean`); and a process a get has dialled already (`DialledClean`).
`KeysAfterBind` says why a new agent starts clean: a process has no key before it
has bound its socket, and only one that has bound it is at the path.

`StoreFileProofs` proves `TypeOKThm` for any writers and, assuming `OneWriter`,
`StoreIsWholeThm` and `SavesAtomicallyThm`. With two writers both are false (see
below). The invariant says that the temporary file is never the
store's inode, neither in the directory in memory nor in any directory a power
loss may leave (`TmpApart`), that the only descriptor is open on the temporary
file (`TmpOpen`), that every inode a store name may come back to is synced
(`StoresSettled`), and how far the save in progress has come (`Progress`).

`KeychainProofs` proves `TypeOKThm` for both backends and, assuming macOS and
`Careful`, `KeyKeptThm`. The invariant says that a reseal finds its own key under
the id until it deletes it and again after it has put it back (`OwnKeyAtId`), that
its staged copy opens from the verification on (`CopyOpens`), and that there is at
most one reseal. A key is then never only in a slot that a step is about to
empty.

`VaultCommandsProofs` proves `TypeCorrect`, `ValuesAreKept`, `PlaintextIsKept` and
`RotationRevokes`. All rest on `Inv`. `JobsFit` says what a command has checked by
the step it is at, and that no data key in its memory is from the future.
`JobsFresh` says that a command which is not stale knows the tree as it is: the
store it holds is the store on disk, the plaintext it has read is still there,
and the entry it has saved is still in the store. `Wire` says which line the
server's command belongs to. That gives `FreshSave`: a save that does not set
`overlapped` changes no entry but its own, and for a push only the wraps.
Revocation needs three facts more: `DeksDistinct` (two names never share a data
key), `WrapsApart` (nobody barred from an entry is among its wraps) and `Unknown`
(no data key ahead of the counter is known to anyone). Without `DeksDistinct` a
push that wraps one entry could give away the key of another.

`VaultCommandsProofs` also proves `AnswersAreMatched`. `AnswersMatch` says that
the answers are those due, in order: the answer to line *n* stands where the number
of lines due up to *n* says (`Cardinality(Due(n))`), so no line is skipped, none
answered twice. The line the server is busy with does not count yet (`Over`);
a line that is answered moves the count by one (`OneMore`, with
`FiniteSetTheorems`), and every step but the server's leaves the books alone.

`ShieldProofs` proves the five properties of `PrivacyShield`, for any paths,
patterns, commands, secrets and responses.

- `CoveredIsBlockedThm`: `PatternsKept` says that outside of a rewrite the file
  lists exactly the registered patterns, and what a rewrite is going to leave;
  `DueStops` that a call which is due is past its decision and stays with `Preuse`.
- `ReportsKeptThm` needs only that, until an append fails, the log ends in a newline.
- `ChainHoldsThm`: until an append fails all lines are whole and a hook that is
  about to append holds the hash of a line in the log (`LogWhole`); until two
  appends overlap it holds the hash of the *last* line (`ChainWhole`), because the
  hook that appends is alone. After a failed append the log either verifies or
  does not parse.
- `OutputMaskedThm` is about the key postuse takes and about text replacement.
  `MaskingKeyIsAtHand` and `LoadedIs` say that the key is one of those at hand unless
  the agent has zeroed it, and that the secrets loaded are those it opens; so a
  secret every key at hand opens is among them. `ReplaceAllMasks` says that after
  `ReplaceAll` the text replaced occurs nowhere, also not across the seam of a
  placeholder and its neighbours, and that no text without placeholders occurs that
  did not occur before (`NothingNew`). So what one secret's turn has masked stays
  masked in the turns of the others, although one value may be part of another;
  `MaskSecretsMasks` puts the turns together. It rests on
  `SecretAssumption` and `TokenAssumption`: no secret contains a placeholder or is
  part of one, and only an empty value has an empty encoding.

The masking and the filtering of patterns are recursive functions, and
induction theorems that take an operator cannot be instantiated here. They are
replaced by well-founded induction on *sets* of numbers (`NatSetInduction`), taken
from either end of an interval (`PrefixInduction`, `SuffixInduction`); and
`PrefixRecursion` and `SuffixRecursion` say that a function defined by what it does
with its predecessor, or with a later index, exists and satisfies its equation.

`HookProofs` proves all six properties of `HookFile`, for any lines of the user's,
any number of torn writes and any text they leave. Three lemmas carry what
`StripCifraBlock` does to a text: `StripIs` (what is left of it), `StripClears` (which
markers go) and `StripKeeps` (which lines stay).

- `KeysGoFirstThm`: with it, `Cleared` is inductive, which says that all recipients
  before the next one are cleared, and all of them by the time it is the vault's
  turn.
- `BlockStandsAloneThm` is about steps: the file starts with one whole block or none
  (`Shape`: no marker at all, or begin to newline on lines of its own), and no step
  but a write that is cut short leads from such a text to another. Lemmas about
  the operators carry it over a step: `StripWhole` (what `StripCifraBlock` does to a text
  with one block), `CutOut` and `PutIn` (a user's line deleted or inserted).
- `RestoredExactlyThm`: `Origins` says that as long as the block is in the file the text
  is the one `WithBlock` made of the file the install found. `BlockComesOff` is the
  step that makes this exact to the byte: for every text without markers, a
  newline and a block of either version behind it come off again.
- `ComesOffThm`: torn writes may leave begin markers, but `Closed` is inductive: a
  text has at most one end marker, behind all begin markers, of which there is one
  at least. A strip then takes from the first begin to the end, which is all.
- `UserLinesKeptThm`: `KeepsOwn` relates two texts by an order-preserving bijection of the
  positions of the user's lines, those that stand between two newlines, so that
  nothing has to be counted or filtered; such maps exist for a cut, an extension and
  the identity, and compose. A line that is run into another one counts as lost.
  The two cases in which that may happen are named by the property: `Joins`, the line
  below a block that comes off a text whose last line has no newline, and
  `Encloses`, lines between the markers of two blocks, of which a write has torn
  the first.

Assumptions on the constants are the named ASSUMEs of the component modules;
TLC evaluates each on every run.

Model-checked only: liveness (`TeamConverges`, `CallsReturn`, `ExpiredKeysErased`,
`EveryRequestAnswered`). It needs ENABLED, which TLAPS does not reach.

## What is not shown

- That every entry opens with the key listed *now*: `recipientSetsEqual` compares
  IDs, so a member who replaced a key under the same ID is not re-wrapped for.
  `RemoteAligned` is stated on IDs for that reason.
- That a get always hands over the key: `handleGet` encodes it after it has
  released the mutex, and a lock or the sweep may have zeroed it by then. The
  model follows zeroed keys (`wiped`, `zero`) but claims nothing of them.
- That a key survives two commands at once on Linux, where an add overwrites a
  key sealed since the look, or a `key delete` and `key new` during a reseal, which
  then deletes the new key. TLC finds both when `Backend` or `Careful` is changed.
  The kernel's user keyring also forgets its keys at a reboot.
- That `key delete` leaves no copy: a staged copy that a killed reseal left stays.
- That a stop is final as a lock is: `handleConn` answers a stop before it closes
  the listener, and `Finds(c, "stop")` fails with `Watched = {"stop"}`.
- The agent's TTL arithmetic: a TTL under a second means the default, and an
  `unlock` of a key that is still cached renews it without the passphrase.
- Two commands at once on one working tree. There is no lock: the later of two
  saves undoes the earlier one (`cmd/cifra/add.go:99`), two overlapping `protect
  encrypt` with a change of the recipients between them can leave neither the
  plaintext nor an envelope the user can open, and a push whose recipients file
  changes between its two reads can wrap the user's own access away. The
  properties of `VaultCommands` are stated up to `overlapped` for that reason. Two
  saves at once also share one temporary file (`internal/vault/secrets.go:110`):
  with two writers TLC finds a store that is torn, or empty.
- That a pull keeps what was never committed: `runPull` runs `git clean -fd .cifra/`
  before it merges (`cmd/cifra/pull.go:54`).
- That a reseal leaves the key under the passphrase the user meant: the last Seal
  asks once more, and the verified copy is deleted without opening the result
  (`internal/keychain/reseal.go:67`).
- That a protected path is blocked while its pattern file is being rewritten, or
  after a save that was killed: the file is truncated in place.
- That the log always verifies: two hooks that append at once chain to one entry,
  and an append cut short makes `LoadEntries` fail from then on. Not every blocked
  call is in it either: `preuse.go:43` says so, but a blocked `cifra cat`, `export`,
  `add` or `set` is not logged; nor is a skipped masking, as `postuse.go:35-36` says.
- That a value JSON escapes is masked: `postuse.go:54` searches the JSON text.
- That every secret is masked: postuse takes the first listed recipient's key it can
  get (`postuse.go:121`, `:141`), another identity's on a shared machine, and passes over
  every entry that key does not open without a word (`postuse.go:104`), those of
  members not yet re-wrapped among them; a key the agent zeroed while it answered
  opens nothing, and a store or recipients file that does not load masks nothing.
- Two protect commands at once: they take no lock (`internal/protect/protect.go:18`),
  so each may write back a list without the other's pattern. And that every pattern
  given is one: a pattern that starts with `#`, or with blanks around it, is
  dropped or trimmed when the file is loaded (`protect.go:65`).
- That the hook file survives a write that is cut short: the file may be left empty,
  or with the first part of what was to be written. What follows then is what
  `UserLinesKept` and `ComesOff` except: with a begin marker and a version left,
  install finds the hook installed and does nothing; with the begin marker alone,
  it puts a whole block below, and a later uninstall takes everything between that
  first marker and the end, what the user has written there included; without an
  end marker uninstall writes the text back as it is and reports success.
- That an existing hook file is made executable (`git.go:72` says always;
  `os.WriteFile` leaves the mode of a file that exists), and that a hook the user
  had with nothing but a shebang is kept: uninstall deletes it (`git.go:143`).
- That the block comes off without a trace once the user has written below it.
  When the line above it has no newline of its own (the `#!/bin/sh` of a file that
  cifra created is such a line), the line below is joined to it, as in
  `#!/bin/shnpm test`: `StripCifraBlock` removes the newline that install had put
  between them, although `internal/hook/git.go:12` says the surrounding content is
  left intact.
- That uninstall clears all keys: on macOS the first recipient whose key is not in
  this keychain ends the loop with a warning, and the vault is removed all the
  same (`cmd/cifra/uninstall.go:107`).
- That a `cifra_rotate` that succeeded is reported as such: the entry is looked up
  again, and if a terminal has removed it by then the answer is an error.
- Crashes while the recipients file is written: it is renamed without an fsync,
  and appended to in place.
- A `git pull` by hand that goes through, and a push whose commit the repository's own
  hooks refuse. The members' own conflict resolution, between `git pull` and `git commit`,
  is not modelled either.
- That a conflict the driver reported waits for the members: `sync_stopped`.
- Cryptography, text matching (scanner, globs, shell words), dotenv parsing and
  reports. An envelope is taken to open for exactly the keys it is wrapped to.

Not modelled: the secret scanner, `cat`, `export` and `exec`, dotenv parsing,
status, list, doctor and diff, locked memory, terminal output, scripts and
plugin files. They are text in and text out, or system calls: nothing of them
changes state that another part reads.

## Plan

Done: the shared vault (`VaultStore`, `StoreMerge`, `VaultSync`), the agent, the
store file, the keychain, the privacy shield, the hook file, the commands of one
working tree and the MCP server, each with the proofs above. What would come
next, in this order:

1. Weaker hypotheses where the code does not need them: which halves of
   `NoResurrection` and `PullMergesBothSides` survive merges left half-way.
2. The recipients file over the file system of `StoreFile`: its rename without an
   fsync, its append in place.
3. The clock of the agent: TTL arithmetic, and `unlock` renewing a cached key.
4. `cifra_pull` inside the MCP loop, that is `VaultSync`'s pull next to commands that
   have read the store already.
