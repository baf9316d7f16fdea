------------------------------ MODULE HookFile ------------------------------
(***************************************************************************)
(* .git/hooks/pre-commit, which cifra shares with its user                 *)
(* (internal/hook/git.go: `cifra hook install --git [--uninstall]`), and   *)
(* `cifra uninstall [--keys]`, which also clears the vault's keys from     *)
(* this machine's keychain and removes .cifra/ (cmd/cifra/uninstall.go).   *)
(* Any of these may be killed or fail between two steps, a write of the    *)
(* file in the middle of it.  The user edits whole lines between commands, *)
(* and leaves cifra's own alone.                                           *)
(***************************************************************************)
EXTENDS Naturals, Sequences, FiniteSets

CONSTANTS Line,        \* the user's lines
          Id,          \* recipients
          Listed,      \* .cifra/recipients, in order
          Backend,     \* "macos" or "linux"
          MaxLines,    \* bound: the user's lines in the file
          MaxTears     \* bound: writes that get only some of the text down

ASSUME UninstallAssumption ==
  /\ Listed \in Seq(Id)
  /\ Backend \in {"macos", "linux"}
  /\ MaxLines \in Nat /\ MaxTears \in Nat
  /\ Line \cap {"NL", "shebang", "BEGIN", "v1", "v2", "END", "cut"} = {}

VARIABLES file,        \* the hook file
          cmd,         \* the command that is running
          vault,       \* .cifra/: "listed", "unlisted" (no recipients), "none"
          keys,        \* the recipients whose keys this keychain holds
          spared,      \* history: an uninstall since then left keys on purpose
          origin,      \* history: {the file as the last install found it}
          tears        \* the writes that got only some of the text down

disk == <<file, vault, keys>>
vars == <<disk, cmd, spared, origin, tears>>

(* A file is text, the tokens of a line and its "\n"; a file that does not *)
(* exist has none.  BEGIN, the version and END stand for the lines of the  *)
(* block down to them, "cut" for the part of a line that a write got down. *)
Shebang == "shebang"
Token == Line \cup {"NL", Shebang, "BEGIN", "v1", "v2", "END", "cut"}
File == [there : BOOLEAN, text : Seq(Token)]
Absent == [there |-> FALSE, text |-> <<>>]
FileOf(text) == [there |-> TRUE, text |-> text]
Block(v) == <<"BEGIN", v, "END", "NL">>

Contains(text, t) == \E i \in DOMAIN text : text[i] = t
FirstIndex(text, t) ==
  CHOOSE i \in DOMAIN text : text[i] = t /\ \A j \in 1..(i - 1) : text[j] # t
(* Nothing but white space, or that and a line #!/bin/sh.                  *)
OnlyShebang(text) ==
  \A i, j \in DOMAIN text :
    text[i] # "NL" /\ text[j] # "NL" => i = j /\ text[i] = Shebang

(* step: what is next; op: the command; text: what it is writing to the    *)
(* hook file, truncated already; next: the recipient whose key is next.    *)
Running(step, op, text) == [step |-> step, op |-> op, text |-> text, next |-> 1]
Idle == Running("idle", "install", <<>>)

(* What a write of text that does not get to its end may leave.            *)
Torn(text) ==
  {SubSeq(text, 1, n) : n \in 0..(Len(text) - 1)}
    \cup {SubSeq(text, 1, n - 1) \o <<"cut">> : n \in {m \in DOMAIN text : text[m] # "NL"}}

(* The file once the write that is under way is over.                      *)
Shown == IF cmd.step = "writing" THEN FileOf(cmd.text) ELSE file

TypeOK ==
  /\ file \in File
  /\ cmd.step \in {"idle", "writing", "keys", "vault"}
  /\ cmd.op \in {"install", "unhook", "uninstall", "uninstall_keys"}
  /\ cmd.text \in Seq(Token)
  /\ cmd.next \in 1..(Len(Listed) + 1)
  /\ cmd.step = "writing" => file.there /\ file.text \in Torn(cmd.text)
  /\ vault \in {"listed", "unlisted", "none"}
  /\ keys \subseteq Id
  /\ spared \in BOOLEAN
  /\ origin \subseteq File
  /\ tears \in 0..MaxTears

-----------------------------------------------------------------------------
(* The hook.                                                               *)

(* The text of a file with a block of version v put under its text.        *)
Under(text, v) ==
  IF text = <<>> THEN <<Shebang, "NL">> \o Block(v)
  ELSE text \o <<"NL">> \o Block(v)
WithBlockJoined(text) ==
  IF text = <<>> THEN <<Shebang, "NL">> \o Block("v2") ELSE text \o Block("v2")
WithBlock(text) == Under(text, "v2")

(* No hook, the user's, or either with the block of an earlier release,    *)
(* which is taken to have been put there like today's.                     *)
Init ==
  /\ \E l \in Line : \E f \in {Absent, FileOf(<<Shebang, "NL">>), FileOf(<<Shebang, "NL", l>>)} :
       \/ file = f /\ origin = {}
       \/ file = FileOf(Under(f.text, "v1")) /\ origin = {f}
  /\ cmd = Idle
  /\ vault = "none" /\ keys = {}
  /\ spared = FALSE
  /\ tears = 0

StripToEnd(text) ==
  IF Contains(text, "BEGIN") THEN SubSeq(text, 1, FirstIndex(text, "BEGIN") - 2)
  ELSE text

(* The last newline before i, and the first one from i on.                 *)
NewlineBefore(text, i) ==
  LET before == {0} \cup {j \in 1..(i - 1) : text[j] = "NL"}
  IN CHOOSE j \in before : \A k \in before : k <= j
NewlineFrom(text, i) ==
  LET after == {j \in i..Len(text) : text[j] = "NL"}
  IN IF after = {} THEN Len(text) ELSE CHOOSE j \in after : \A k \in after : j <= k

(* From the line of BEGIN to the end of the line of END, and one newline   *)
(* before it.                                                              *)
HasBlock(text) ==
  /\ Contains(text, "BEGIN") /\ Contains(text, "END")
  /\ FirstIndex(text, "BEGIN") <= FirstIndex(text, "END")
BlockFrom(text) == NewlineBefore(text, FirstIndex(text, "BEGIN"))
BlockTo(text) == NewlineFrom(text, FirstIndex(text, "END"))
StripCifraBlock(text) ==
  IF HasBlock(text)
  THEN SubSeq(text, 1, BlockFrom(text) - 1) \o SubSeq(text, BlockTo(text) + 1, Len(text))
  ELSE text

StartWriteOver(op, text) ==
  /\ cmd' = Running("writing", op, text)
  /\ UNCHANGED disk
StartWrite(op, text) ==
  /\ file' = FileOf(<<>>)
  /\ cmd' = Running("writing", op, text)
  /\ UNCHANGED <<vault, keys>>

Installed(text) == Contains(text, "BEGIN")
InstallGitHookOver ==
  /\ cmd.step = "idle"
  /\ Installed(file.text) => ~Contains(file.text, "v2")
  /\ StartWrite("install", WithBlock(file.text))
  /\ origin' = IF Installed(file.text) THEN origin ELSE {file}
  /\ UNCHANGED <<spared, tears>>
InstallGitHook ==
  /\ cmd.step = "idle"
  /\ Installed(file.text) => ~Contains(file.text, "v2")
  /\ StartWrite("install", WithBlock(StripCifraBlock(file.text)))
  /\ origin' = IF Installed(file.text) THEN origin ELSE {file}
  /\ UNCHANGED <<spared, tears>>

(* Removing the file is one step; op goes on with what follows it.         *)
After(op) ==
  CASE op = "uninstall" -> Running("vault", op, <<>>)
    [] op = "uninstall_keys" -> Running("keys", op, <<>>)
    [] OTHER -> Idle
UninstallGitHook(op) ==
  LET stripped == StripCifraBlock(file.text)
  IN IF OnlyShebang(stripped)
     THEN file' = Absent /\ cmd' = After(op) /\ UNCHANGED <<vault, keys>>
     ELSE StartWrite(op, stripped)

Unhook ==
  /\ cmd.step = "idle"
  /\ file.there
  /\ UninstallGitHook("unhook")
  /\ UNCHANGED <<spared, origin, tears>>

(* os.WriteFile writes on after a short write, or stops with its error.    *)
WriteSome ==
  /\ cmd.step = "writing" /\ file.text = <<>> /\ tears < MaxTears
  /\ \E text \in Torn(cmd.text) : text # <<>> /\ file' = FileOf(text)
  /\ tears' = tears + 1
  /\ UNCHANGED <<vault, keys, cmd, spared, origin>>
Write ==
  /\ cmd.step = "writing"
  /\ file' = FileOf(cmd.text)
  /\ cmd' = After(cmd.op)
  /\ UNCHANGED <<vault, keys, spared, origin, tears>>

-----------------------------------------------------------------------------
(* cifra uninstall: the hook, then the keys, then the vault.               *)
Uninstall(op) ==
  /\ cmd.step = "idle"
  /\ IF Installed(file.text) THEN UninstallGitHook(op)
     ELSE cmd' = After(op) /\ UNCHANGED disk
  /\ UNCHANGED <<spared, origin, tears>>

VaultNext == [cmd EXCEPT !.step = "vault"]

(* removeVaultKeys goes through the recipients file.  macOS reports a key  *)
(* that is not there like any other failure, and the first failure ends    *)
(* the loop with a warning.                                                *)
RemoveKeyStep(failing) ==
  LET id == Listed[cmd.next]
      fails == failing \/ (id \notin keys /\ Backend = "macos")
  IN /\ keys' = IF fails THEN keys ELSE keys \ {id}
     /\ cmd' = IF fails THEN VaultNext ELSE [cmd EXCEPT !.next = @ + 1]
     /\ spared' = (spared \/ fails)
RemoveKey ==
  /\ cmd.step = "keys" /\ vault = "listed" /\ cmd.next <= Len(Listed)
  /\ \E failing \in BOOLEAN : RemoveKeyStep(failing)
  /\ UNCHANGED <<file, vault, origin, tears>>

VaultFirst == cmd.step \in {"keys", "vault"}
KeysDone ==
  \/ cmd.step = "vault"
  \/ cmd.step = "keys" /\ (vault # "listed" \/ cmd.next > Len(Listed))

(* RemoveAll deletes one file after the other and may stop between two.    *)
RemoveSome ==
  /\ KeysDone /\ vault = "listed"
  /\ vault' = "unlisted"
  /\ cmd' = VaultNext
  /\ spared' = (spared \/ cmd.op = "uninstall")
  /\ UNCHANGED <<file, keys, origin, tears>>
RemoveVault ==
  /\ KeysDone
  /\ vault' = "none"
  /\ cmd' = Idle
  /\ spared' = (spared \/ cmd.op = "uninstall")
  /\ UNCHANGED <<file, keys, origin, tears>>

(* Killed, or stopped by an error; the file stays as far as it is written. *)
Kill ==
  /\ cmd.step # "idle"
  /\ cmd' = Idle
  /\ origin' = IF cmd.step = "writing" THEN {} ELSE origin
  /\ UNCHANGED <<disk, spared, tears>>

-----------------------------------------------------------------------------
(* cifra init, with key new or a restored keychain; and the user's editor. *)
SetUp ==
  /\ cmd.step = "idle"
  /\ vault' = "listed"
  /\ \E new \in SUBSET Id : keys' = keys \cup new
  /\ spared' = FALSE
  /\ UNCHANGED <<file, cmd, origin, tears>>

(* The positions between two lines; a block has none inside.               *)
Gaps(text) == {i \in 0..Len(text) : i > 0 => text[i] = "NL"}
Edited(text) ==
  /\ file' = FileOf(text)
  /\ origin' = {}
  /\ UNCHANGED <<cmd, vault, keys, spared, tears>>
InsertLine ==
  \E i \in Gaps(file.text), l \in Line :
    /\ Cardinality({k \in DOMAIN file.text : file.text[k] \in Line}) < MaxLines
    /\ ~Contains(file.text, l)
    /\ Edited(SubSeq(file.text, 1, i) \o <<l, "NL">>
                \o SubSeq(file.text, i + 1, Len(file.text)))
DeleteLine ==
  \E i \in DOMAIN file.text :
    /\ file.text[i] \in Line
    /\ i > 1 => file.text[i - 1] = "NL"
    /\ i < Len(file.text) /\ file.text[i + 1] = "NL"
    /\ Edited(SubSeq(file.text, 1, i - 1) \o SubSeq(file.text, i + 2, Len(file.text)))
UserEdit == cmd.step = "idle" /\ (InsertLine \/ DeleteLine)

Next ==
  \/ InstallGitHook \/ Unhook \/ WriteSome \/ Write
  \/ \E op \in {"uninstall", "uninstall_keys"} : Uninstall(op)
  \/ RemoveKey \/ RemoveSome \/ RemoveVault
  \/ Kill \/ SetUp \/ UserEdit

Spec == Init /\ [][Next]_vars
-----------------------------------------------------------------------------
(* A block is whole and the only one, or there is none of either marker;   *)
(* it starts on a line of its own and ends its last line.                  *)
StandsAlone(text) ==
  \A i \in DOMAIN text : text[i] \in {"BEGIN", "END"} =>
    \E b \in DOMAIN text :
      /\ i \in {b, b + 2}
      /\ b > 1 => text[b - 1] = "NL"
      /\ b + 3 <= Len(text)
      /\ text[b] = "BEGIN" /\ text[b + 1] \in {"v1", "v2"}
      /\ text[b + 2] = "END" /\ text[b + 3] = "NL"
      /\ \A j \in DOMAIN text : text[j] \in {"BEGIN", "END"} => j \in {b, b + 2}

(* Whatever the user writes around the block, no step but a write that is  *)
(* cut short takes the file from one whole block, or none, to anything     *)
(* else: upgrades replace, and an unfinished last line is not run into.    *)
BlockStandsAlone ==
  /\ StandsAlone(Shown.text)
  /\ [][StandsAlone(Shown.text) => StandsAlone(Shown'.text) \/ Kill]_vars

(* However often writes are cut short and the hook is installed over what  *)
(* they have left: if the end marker is in the file, an uninstall takes    *)
(* every marker out.                                                       *)
ComesOff ==
  Contains(Shown.text, "END") =>
    LET rest == StripCifraBlock(Shown.text)
    IN ~Contains(rest, "BEGIN") /\ ~Contains(rest, "END")

(* The user's lines that are lines of the file, not run into another.      *)
OwnAt(text) ==
  {i \in DOMAIN text :
     /\ text[i] \in Line
     /\ i > 1 => text[i - 1] = "NL"
     /\ i < Len(text) => text[i + 1] = "NL"}
KeepsOwn(text, other) ==
  \E f \in [OwnAt(text) -> OwnAt(other)] :
    /\ \A i \in OwnAt(text) : other[f[i]] = text[i]
    /\ \A i, j \in OwnAt(text) : i < j => f[i] < f[j]
    /\ \A k \in OwnAt(other) : \E i \in OwnAt(text) : f[i] = k

(* Taking the block off runs the line below it into the line above it, if  *)
(* that has no newline but the one install has put there; and it takes     *)
(* what the user has written below a block that was cut short, if another  *)
(* block was appended under it since.                                      *)
Joins(text) ==
  /\ HasBlock(text)
  /\ BlockTo(text) < Len(text)
  /\ BlockFrom(text) > 1 /\ text[BlockFrom(text) - 1] # "NL"
Encloses(text) ==
  /\ HasBlock(text)
  /\ \E i \in OwnAt(text) : i \in FirstIndex(text, "BEGIN")..FirstIndex(text, "END")

(* No command loses, reorders or joins lines that the user has in the      *)
(* file, next to, above or below the block or what is left of one, nor     *)
(* adds any; but in those two cases, and when a write is cut short.        *)
UserLinesKept ==
  [][~KeepsOwn(Shown.text, Shown'.text)
       => UserEdit \/ Kill \/ Joins(Shown.text) \/ Encloses(Shown.text)]_vars

(* Installing, upgrading and uninstalling restore the file byte for byte,  *)
(* or delete it when it held at most a shebang, unless it has been edited  *)
(* in between or a write of it was cut short.                              *)
Restored(f) == IF OnlyShebang(f.text) THEN Absent ELSE f
RestoredExactly ==
  [][Installed(Shown.text) /\ ~Installed(Shown'.text)
       => \A f \in origin' : Shown' = Restored(f)]_vars

(* As long as this machine holds a recipient's key, the recipients file    *)
(* that tells a later uninstall to clear it is there as well, wherever     *)
(* uninstalls are killed; unless one was run without --keys, or has warned *)
(* that it could not clear the keychain.                                   *)
KeysGoFirst ==
  vault # "listed" /\ ~spared => \A i \in DOMAIN Listed : Listed[i] \notin keys
=============================================================================
